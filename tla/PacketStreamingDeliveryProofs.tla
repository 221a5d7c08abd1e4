-------------------- MODULE PacketStreamingDeliveryProofs --------------------
(***************************************************************************)
(* Proofs about what the packet streaming link delivers, for any number of *)
(* signals and packets and for all sizes and thresholds: nothing is lost   *)
(* or doubled, and a signal's packets arrive as they were sent.            *)
(***************************************************************************)
EXTENDS PacketStreamingProofs

--------------------------------------------------------------------------------
(***************************************************************************)
(* Nothing is lost and nothing is doubled: counting.  PlacesOf are the     *)
(* places of a sequence at which a member of C stands.                     *)
(***************************************************************************)
PlacesOf(q, C) == {i \in 1 .. Len(q) : q[i] \in C}
Count(q, C) == Cardinality(PlacesOf(q, C))
Once(x, C) == IF x \in C THEN 1 ELSE 0

(* A count is a number.                                                    *)
LEMMA CountFinite ==
    ASSUME NEW X, NEW q \in Seq(X), NEW C
    PROVE  IsFiniteSet(PlacesOf(q, C)) /\ Count(q, C) \in Nat /\ PlacesOf(q, C) \subseteq 1 .. Len(q)
<1>1. Len(q) \in Nat
    BY LenProperties
<1>2. IsFiniteSet(1 .. Len(q))
    BY <1>1, FirstPlaces
<1>3. PlacesOf(q, C) \subseteq 1 .. Len(q)
    BY DEF PlacesOf
<1>4. IsFiniteSet(PlacesOf(q, C))
    BY <1>2, <1>3, FS_Subset
<1> QED
    BY <1>3, <1>4, FS_CardinalityType DEF Count

(* Where nothing is counted.                                               *)
LEMMA CountNone ==
    ASSUME NEW X, NEW q \in Seq(X), NEW C, \A i \in 1 .. Len(q) : q[i] \notin C
    PROVE  Count(q, C) = 0
<1>1. PlacesOf(q, C) = {}
    BY DEF PlacesOf
<1> QED
    BY <1>1, FS_EmptySet DEF Count

(* The empty sequence.                                                     *)
LEMMA CountEmpty ==
    ASSUME NEW C
    PROVE  Count(<<>>, C) = 0
<1>1. <<>> \in Seq({}) /\ \A i \in 1 .. Len(<<>>) : FALSE
    BY EmptySeq
<1>2. PlacesOf(<<>>, C) = {}
    BY <1>1 DEF PlacesOf
<1> QED
    BY <1>2, FS_EmptySet DEF Count

(* Two sequences that agree on what is counted.                            *)
LEMMA CountSame ==
    ASSUME NEW q, NEW r, Len(q) = Len(r), NEW C, NEW D, \A i \in 1 .. Len(q) : q[i] \in C <=> r[i] \in D
    PROVE  Count(q, C) = Count(r, D)
<1>1. PlacesOf(q, C) = PlacesOf(r, D)
    BY DEF PlacesOf
<1> QED
    BY <1>1 DEF Count

(* One sequence behind another.                                            *)
LEMMA CountConcat ==
    ASSUME NEW X, NEW q \in Seq(X), NEW r \in Seq(X), NEW C
    PROVE  Count(q \o r, C) = Count(q, C) + Count(r, C)
<1> DEFINE n == Len(q)
           m == Len(r)
           z == q \o r
           S == {i \in 1 .. n + m : i > n /\ z[i] \in C}
<1>1. /\ z \in Seq(X) /\ Len(z) = n + m /\ n \in Nat /\ m \in Nat
      /\ \A i \in 1 .. n + m : z[i] = IF i <= n THEN q[i] ELSE r[i - n]
    BY ConcatProperties, LenProperties
<1> HIDE DEF z, n, m
<1>2. PlacesOf(z, C) = PlacesOf(q, C) \cup S
    BY <1>1 DEF PlacesOf, n
<1>3. IsFiniteSet(PlacesOf(q, C)) /\ IsFiniteSet(PlacesOf(r, C)) /\ IsFiniteSet(PlacesOf(z, C))
    BY <1>1, CountFinite
<1>4. IsFiniteSet(S)
    BY <1>2, <1>3, FS_Subset
<1>5. PlacesOf(q, C) \cap S = {}
    BY <1>1 DEF PlacesOf, n
<1>6. Cardinality(PlacesOf(z, C)) = Cardinality(PlacesOf(q, C)) + Cardinality(S)
  <2>1. Cardinality(PlacesOf(q, C) \cup S) =
            Cardinality(PlacesOf(q, C)) + Cardinality(S) - Cardinality(PlacesOf(q, C) \cap S)
      BY <1>3, <1>4, FS_Union
  <2>2. Cardinality(PlacesOf(q, C) \cap S) = 0
      BY <1>5, FS_EmptySet
  <2>3. Cardinality(PlacesOf(q, C)) \in Nat /\ Cardinality(S) \in Nat
      BY <1>3, <1>4, FS_CardinalityType
  <2> QED
      BY <1>2, <2>1, <2>2, <2>3
<1>7. Cardinality(PlacesOf(r, C)) = Cardinality(S)
  <2>1. \A i \in Nat : i \in PlacesOf(r, C) <=> i + n \in S
    <3> SUFFICES ASSUME NEW i \in Nat
                 PROVE  i \in PlacesOf(r, C) <=> i + n \in S
        OBVIOUS
    <3>1. i \in 1 .. m <=> i + n \in 1 .. n + m /\ i + n > n
        BY <1>1
    <3>2. i \in 1 .. m => z[i + n] = r[i]
      <4>1. SUFFICES ASSUME i \in 1 .. m PROVE z[i + n] = r[i]
          OBVIOUS
      <4>2. i + n \in 1 .. n + m /\ ~(i + n <= n) /\ (i + n) - n = i
          BY <1>1, <4>1
      <4> QED
          BY <1>1, <4>2
    <3> QED
        BY <3>1, <3>2 DEF PlacesOf, m
  <2>2. S \in SUBSET Nat /\ PlacesOf(r, C) \in SUBSET Nat /\ \A i \in S : i >= n
      BY <1>1 DEF PlacesOf, m
  <2> HIDE DEF S
  <2> QED
      BY <1>1, <1>4, <2>1, <2>2, ShiftCard
<1> QED
    BY <1>6, <1>7 DEF Count, z

(* One element.                                                            *)
LEMMA CountOne ==
    ASSUME NEW X, NEW x \in X, NEW C
    PROVE  <<x>> \in Seq(X) /\ Count(<<x>>, C) = Once(x, C)
<1>1. <<x>> \in Seq(X) /\ Len(<<x>>) = 1 /\ <<x>>[1] = x
    OBVIOUS
<1> DEFINE z == <<x>>
<1> HIDE DEF z
<1>2. PlacesOf(z, C) = IF x \in C THEN {1} ELSE {}
    BY <1>1 DEF PlacesOf, z
<1>3. Cardinality({1}) = 1 /\ Cardinality({}) = 0
    BY FS_Singleton, FS_EmptySet
<1> QED
    BY <1>1, <1>2, <1>3 DEF Count, Once, z

(* An element at the end.                                                  *)
LEMMA CountAppend ==
    ASSUME NEW X, NEW q \in Seq(X), NEW x \in X, NEW C
    PROVE  Append(q, x) \in Seq(X) /\ Count(Append(q, x), C) = Count(q, C) + Once(x, C)
<1>1. Append(q, x) = q \o <<x>> /\ Append(q, x) \in Seq(X)
    BY AppendIsConcat, AppendProperties
<1>2. <<x>> \in Seq(X) /\ Count(<<x>>, C) = Once(x, C)
    BY CountOne
<1>3. Count(q \o <<x>>, C) = Count(q, C) + Count(<<x>>, C)
    BY <1>2, CountConcat
<1> QED
    BY <1>1, <1>2, <1>3

(* The first element taken away.                                           *)
LEMMA CountTail ==
    ASSUME NEW X, NEW q \in Seq(X), q # <<>>, NEW C
    PROVE  Tail(q) \in Seq(X) /\ Count(q, C) = Once(q[1], C) + Count(Tail(q), C)
<1>1. q[1] \in X /\ Tail(q) \in Seq(X) /\ q = <<q[1]>> \o Tail(q)
  <2>1. Head(q) \in X /\ Tail(q) \in Seq(X) /\ Head(q) = q[1]
      BY HeadTailProperties
  <2>2. /\ Len(Tail(q)) = Len(q) - 1 /\ Len(q) \in Nat \ {0}
        /\ \A i \in 1 .. Len(Tail(q)) : Tail(q)[i] = q[i + 1]
      BY HeadTailProperties, EmptySeq, LenProperties
  <2> DEFINE t == Tail(q)
             z == <<q[1]>> \o t
  <2>3. /\ z \in Seq(X) /\ Len(z) = 1 + Len(t)
        /\ \A i \in 1 .. 1 + Len(t) : z[i] = IF i <= 1 THEN q[1] ELSE t[i - 1]
    <3>1. <<q[1]>> \in Seq(X) /\ Len(<<q[1]>>) = 1 /\ <<q[1]>>[1] = q[1]
        BY <2>1
    <3>2. /\ z \in Seq(X) /\ Len(z) = Len(<<q[1]>>) + Len(t)
          /\ \A i \in 1 .. Len(<<q[1]>>) + Len(t) :
                z[i] = IF i <= Len(<<q[1]>>) THEN <<q[1]>>[i] ELSE t[i - Len(<<q[1]>>)]
        BY <2>1, <3>1, ConcatProperties
    <3> HIDE DEF z, t
    <3>3. \A i \in 1 .. 1 + Len(t) : i <= 1 => i = 1
        BY <2>1, LenProperties DEF t
    <3> QED
        BY <3>1, <3>2, <3>3
  <2> HIDE DEF t, z
  <2>4. Len(z) = Len(q) /\ \A i \in 1 .. Len(q) : z[i] = q[i]
    <3>1. Len(t) = Len(q) - 1 /\ Len(q) \in Nat
        BY <2>2 DEF t
    <3> SUFFICES ASSUME NEW i \in 1 .. Len(q)
                 PROVE  z[i] = q[i]
        BY <2>3, <3>1
    <3>2. i # 1 => i - 1 \in 1 .. Len(t) /\ (i - 1) + 1 = i /\ ~(i <= 1)
        BY <3>1
    <3>3. i # 1 => t[i - 1] = q[i]
        BY <2>2, <3>2 DEF t
    <3> QED
        BY <2>3, <3>1, <3>2, <3>3
  <2>5. z = q
      BY <2>3, <2>4, SeqEqual
  <2> QED
      BY <2>1, <2>5 DEF z, t
<1>2. <<q[1]>> \in Seq(X) /\ Count(<<q[1]>>, C) = Once(q[1], C)
    BY <1>1, CountOne
<1>3. Count(<<q[1]>> \o Tail(q), C) = Count(<<q[1]>>, C) + Count(Tail(q), C)
    BY <1>1, <1>2, CountConcat
<1> QED
    BY <1>1, <1>2, <1>3

(* What is counted: buffers under way, buffers that wait, packets in the   *)
(* queue of the client.  MoreUpTo are the signals that ask for a packet    *)
(* while it waits, at the first n places of a list.                        *)
BuffersOf(s, p) == {b \in Buffers : b.signal = s /\ b.packet = p}
EntriesOf(s, p) == {w \in WaitEntries : w.packet = p /\ w.signal = s}
ItemsOf(s, p) == {x \in Items : x.kind = "data" /\ x.signal = s /\ x.packet = p}
Asked(w, s, p) == IF w.packet = p THEN Count(w.more, {s}) ELSE 0
OwnUpTo(ws, n, s, p) == {i \in 1 .. n : ws[i] \in EntriesOf(s, p)}
MoreUpTo(ws, n, s, p) ==
    {x \in (1 .. n) \X Nat : ws[x[1]].packet = p /\ x[2] \in PlacesOf(ws[x[1]].more, {s})}
More(ws, s, p) == MoreUpTo(ws, Len(ws), s, p)

(* One row of pairs.                                                       *)
LEMMA RowCard ==
    ASSUME NEW n, NEW S \in SUBSET Nat, IsFiniteSet(S), NEW T,
           T = {n} \X S
    PROVE  IsFiniteSet(T) /\ Cardinality(T) = Cardinality(S)
<1> DEFINE f == [k \in S |-> <<n, k>>]
<1>1. f \in [S -> T]
    OBVIOUS
<1>2. \A i, j \in S : f[i] = f[j] => i = j
    OBVIOUS
<1>3. ASSUME NEW y \in T
      PROVE  \E k \in S : f[k] = y
  <2>1. y \in {n} \X S
      OBVIOUS
  <2>2. y[2] \in S /\ y = <<n, y[2]>>
      BY <2>1
  <2>3. f[y[2]] = y
      BY <2>2
  <2> QED
      BY <2>2, <2>3
<1>4. f \in Bijection(S, T)
    BY <1>1, <1>2, <1>3, Zenon DEF Bijection, Injection, Surjection, IsInjective
<1> QED
    BY <1>4, FS_Bijection DEF ExistsBijection

(* The signals that ask at one more place.                                 *)
LEMMA MoreStep ==
    ASSUME NEW ws \in Seq(WaitEntries), NEW n \in 1 .. Len(ws), NEW s, NEW p,
           IsFiniteSet(MoreUpTo(ws, n - 1, s, p))
    PROVE  /\ IsFiniteSet(MoreUpTo(ws, n, s, p))
           /\ Cardinality(MoreUpTo(ws, n, s, p)) = Cardinality(MoreUpTo(ws, n - 1, s, p))
                  + Asked(ws[n], s, p)
<1> DEFINE A == MoreUpTo(ws, n - 1, s, p)
           S == PlacesOf(ws[n].more, {s})
           B == {n} \X S
<1>1. ws[n] \in WaitEntries /\ ws[n].more \in Seq(Signals) /\ n \in Nat /\ n - 1 \in Nat
  <2>1. ws[n] \in WaitEntries /\ Len(ws) \in Nat
      BY ElementOfSeq, LenProperties
  <2> QED
      BY <2>1 DEF WaitEntries
<1>2. IsFiniteSet(S) /\ Cardinality(S) = Count(ws[n].more, {s}) /\ S \in SUBSET Nat
  <2>1. IsFiniteSet(S) /\ S \subseteq 1 .. Len(ws[n].more)
      BY <1>1, CountFinite
  <2>2. Cardinality(S) = Count(ws[n].more, {s})
      BY DEF Count
  <2>3. S \subseteq Nat
      BY DEF PlacesOf
  <2> QED
      BY <2>1, <2>2, <2>3
<1> HIDE DEF S
<1>3. \A i : i \in 1 .. n <=> i \in 1 .. n - 1 \/ i = n
    BY <1>1
<1>4. IsFiniteSet(B) /\ Cardinality(B) = Count(ws[n].more, {s})
    BY <1>2, RowCard
<1>5. ASSUME ws[n].packet = p
      PROVE  MoreUpTo(ws, n, s, p) = A \cup B
  <2>1. ASSUME NEW x, x \in MoreUpTo(ws, n, s, p)
        PROVE  x \in A \cup B
    <3>1. /\ x \in (1 .. n) \X Nat /\ ws[x[1]].packet = p /\ x[2] \in PlacesOf(ws[x[1]].more, {s})
          /\ x = <<x[1], x[2]>> /\ x[2] \in Nat
        BY <2>1 DEF MoreUpTo
    <3>2. CASE x[1] = n
        BY <3>1, <3>2 DEF S
    <3>3. CASE x[1] \in 1 .. n - 1
        BY <3>1, <3>3 DEF MoreUpTo
    <3> QED
        BY <1>3, <3>1, <3>2, <3>3
  <2>2. ASSUME NEW x, x \in A
        PROVE  x \in MoreUpTo(ws, n, s, p)
      BY <1>3, <2>2 DEF MoreUpTo
  <2>3. ASSUME NEW x, x \in B
        PROVE  x \in MoreUpTo(ws, n, s, p)
    <3>1. PICK k \in S : x = <<n, k>>
        BY <2>3
    <3>2. k \in Nat /\ x[1] = n /\ x[2] = k /\ x \in (1 .. n) \X Nat
        BY <1>2, <1>3, <3>1
    <3> QED
        BY <1>5, <3>2 DEF MoreUpTo, S
  <2> QED
      BY <2>1, <2>2, <2>3
<1>6. ws[n].packet # p => MoreUpTo(ws, n, s, p) = A
    BY <1>3 DEF MoreUpTo
<1>7. A \cap B = {}
  <2>1. \A x \in A : x[1] # n
      BY <1>1 DEF MoreUpTo
  <2>2. \A x \in B : x[1] = n
      OBVIOUS
  <2> QED
      BY <2>1, <2>2
<1> HIDE DEF A, B
<1>8. CASE ws[n].packet = p
  <2>1. IsFiniteSet(A)
      BY DEF A
  <2>2. IsFiniteSet(A \cup B)
        /\ Cardinality(A \cup B) = Cardinality(A) + Cardinality(B) - Cardinality(A \cap B)
      BY <1>4, <2>1, FS_Union
  <2>3. Cardinality(A \cap B) = 0 /\ Cardinality(A) \in Nat /\ Cardinality(B) \in Nat
      BY <1>4, <1>7, <2>1, FS_EmptySet, FS_CardinalityType
  <2>4. Cardinality(A \cup B) = Cardinality(A) + Cardinality(B)
      BY <2>2, <2>3
  <2>5. MoreUpTo(ws, n, s, p) = A \cup B
      BY <1>5, <1>8
  <2> QED
      BY <1>4, <1>8, <2>2, <2>4, <2>5 DEF A, Asked
<1>9. CASE ws[n].packet # p
  <2>1. Cardinality(A) \in Nat
      BY FS_CardinalityType DEF A
  <2> QED
      BY <1>6, <1>9, <2>1 DEF A, Asked
<1> QED
    BY <1>8, <1>9

(* No place, no signal.                                                    *)
LEMMA MoreZero ==
    ASSUME NEW ws, NEW s, NEW p
    PROVE  /\ MoreUpTo(ws, 0, s, p) = {} /\ OwnUpTo(ws, 0, s, p) = {}
           /\ IsFiniteSet({}) /\ Cardinality({}) = 0
    BY FS_EmptySet DEF MoreUpTo, OwnUpTo

(* They are finitely many.                                                 *)
LEMMA MoreFinite ==
    ASSUME NEW ws \in Seq(WaitEntries), NEW s, NEW p
    PROVE  IsFiniteSet(More(ws, s, p)) /\ Cardinality(More(ws, s, p)) \in Nat
<1> DEFINE n == Len(ws)
           T == {k \in 1 .. n : ~IsFiniteSet(MoreUpTo(ws, k, s, p))}
<1>1. n \in Nat
    BY LenProperties
<1>2. T = {}
  <2> SUFFICES ASSUME T # {} PROVE FALSE
      OBVIOUS
  <2>1. PICK m \in T : \A y \in T : m <= y
      BY <1>1, FirstOne
  <2>2. m \in 1 .. n /\ ~IsFiniteSet(MoreUpTo(ws, m, s, p))
      BY <2>1
  <2>3. IsFiniteSet(MoreUpTo(ws, m - 1, s, p))
    <3>1. CASE m = 1
      <4>1. m - 1 = 0
          BY <3>1
      <4> QED
          BY <4>1, MoreZero
    <3>2. CASE m # 1
      <4>1. m - 1 \in 1 .. n /\ ~(m <= m - 1)
          BY <1>1, <2>2, <3>2
      <4> QED
          BY <2>1, <4>1
    <3> QED
        BY <3>1, <3>2
  <2> QED
      BY <2>2, <2>3, MoreStep
<1>3. IsFiniteSet(MoreUpTo(ws, n, s, p))
  <2>1. CASE n = 0
      BY <2>1, MoreZero
  <2>2. CASE n # 0
    <3>1. n \in 1 .. n
        BY <1>1, <2>2
    <3> QED
        BY <1>2, <3>1
  <2> QED
      BY <2>1, <2>2
<1> QED
    BY <1>3, FS_CardinalityType DEF More

(* What a buffer that has waited puts into the queue.                      *)
LEMMA WokenCount ==
    ASSUME ClientTypes, NEW w \in WaitEntries, NEW s, NEW p
    PROVE  /\ Woken(w) \in Seq(Items)
           /\ Count(Woken(w), ItemsOf(s, p)) =
                  Once(w, EntriesOf(s, p)) + Asked(w, s, p)
<1> DEFINE v == known[w.signal].value
           a == Received(w.signal, w.packet, v)
           r == [i \in DOMAIN w.more |-> Received(w.more[i], w.packet, v)]
<1>1. w.packet \in Packets /\ w.signal \in Signals /\ w.more \in Seq(Signals)
    BY DEF WaitEntries
<1>2. v \in Told
    BY <1>1 DEF ClientTypes
<1>3. Woken(w) = <<a>> \o r
    BY DEF Woken
<1> HIDE DEF v
<1>4. \A t \in Signals : LET x == Received(t, w.packet, v)
                         IN x \in Items /\ (x \in ItemsOf(s, p) <=> t = s /\ w.packet = p)
    BY <1>1, <1>2 DEF Received, Items, DataItems, ItemsOf
<1>5. DOMAIN w.more = 1 .. Len(w.more) /\ Len(w.more) \in Nat /\ \A i \in 1 .. Len(w.more) : w.more[i] \in Signals
    BY <1>1, LenProperties, ElementOfSeq
<1>6. r \in Seq(Items) /\ Len(r) = Len(w.more) /\ \A i \in 1 .. Len(w.more) : r[i] = Received(w.more[i], w.packet, v)
  <2>1. r = [i \in 1 .. Len(w.more) |-> Received(w.more[i], w.packet, v)]
      BY <1>5
  <2>2. \A i \in 1 .. Len(w.more) : Received(w.more[i], w.packet, v) \in Items
      BY <1>4, <1>5
  <2> HIDE DEF r
  <2>3. r \in Seq(Items)
      BY <1>5, <2>1, <2>2, IsASeq
  <2> QED
      BY <1>5, <2>1, <2>3, LenProperties
<1> HIDE DEF r
<1>7. Count(r, ItemsOf(s, p)) = Asked(w, s, p)
  <2>1. \A i \in 1 .. Len(w.more) : r[i] \in ItemsOf(s, p) <=> w.more[i] = s /\ w.packet = p
      BY <1>4, <1>5, <1>6
  <2>2. CASE w.packet = p
      BY <1>6, <2>1, <2>2, CountSame DEF Asked
  <2>3. CASE w.packet # p
      BY <1>6, <2>1, <2>3, CountNone DEF Asked
  <2> QED
      BY <2>2, <2>3
<1>8. a \in Items /\ (a \in ItemsOf(s, p) <=> w \in EntriesOf(s, p))
    BY <1>1, <1>4 DEF EntriesOf
<1> HIDE DEF a
<1>9. <<a>> \in Seq(Items) /\ Count(<<a>>, ItemsOf(s, p)) = Once(w, EntriesOf(s, p))
  <2>1. <<a>> \in Seq(Items) /\ Count(<<a>>, ItemsOf(s, p)) = Once(a, ItemsOf(s, p))
      BY <1>8, CountOne
  <2> QED
      BY <1>8, <2>1 DEF Once
<1>10. Count(<<a>> \o r, ItemsOf(s, p)) = Count(<<a>>, ItemsOf(s, p)) + Count(r, ItemsOf(s, p))
    BY <1>6, <1>9, CountConcat
<1>11. <<a>> \o r \in Seq(Items)
    BY <1>6, <1>9, ConcatProperties
<1> QED
    BY <1>3, <1>7, <1>9, <1>10, <1>11

(* The places of a list, one by one.                                       *)
LEMMA OwnStep ==
    ASSUME NEW ws, NEW n \in Nat \ {0}, NEW s, NEW p, IsFiniteSet(OwnUpTo(ws, n - 1, s, p))
    PROVE  /\ IsFiniteSet(OwnUpTo(ws, n, s, p))
           /\ Cardinality(OwnUpTo(ws, n, s, p)) =
                  Cardinality(OwnUpTo(ws, n - 1, s, p)) + Once(ws[n], EntriesOf(s, p))
<1> DEFINE A == OwnUpTo(ws, n - 1, s, p)
<1>1. \A i : i \in 1 .. n <=> i \in 1 .. n - 1 \/ i = n
    OBVIOUS
<1>2. n \notin A
    BY DEF OwnUpTo
<1>3. CASE ws[n] \in EntriesOf(s, p)
  <2>1. OwnUpTo(ws, n, s, p) = A \cup {n}
      BY <1>1, <1>3 DEF OwnUpTo
  <2> HIDE DEF A
  <2>2. IsFiniteSet(A \cup {n}) /\ Cardinality(A \cup {n}) = Cardinality(A) + 1
      BY <1>2, FS_AddElement DEF A
  <2> QED
      BY <1>3, <2>1, <2>2 DEF A, Once
<1>4. CASE ws[n] \notin EntriesOf(s, p)
  <2>1. OwnUpTo(ws, n, s, p) = A
      BY <1>1, <1>4 DEF OwnUpTo
  <2>2. Cardinality(A) \in Nat
      BY FS_CardinalityType
  <2> QED
      BY <1>4, <2>1, <2>2 DEF Once
<1> QED
    BY <1>3, <1>4

(* All that have waited in a list, once for every signal that asked.       *)
LEMMA FlattenCount ==
    ASSUME ClientTypes, NEW d \in Packets, NEW s, NEW p
    PROVE  LET q == FlattenSeq([i \in DOMAIN waiting[d] |-> Woken(waiting[d][i])])
           IN /\ q \in Seq(Items)
              /\ Count(q, ItemsOf(s, p)) =
                     Count(waiting[d], EntriesOf(s, p)) + Cardinality(More(waiting[d], s, p))
<1> DEFINE ws == waiting[d]
           ss == [i \in DOMAIN waiting[d] |-> Woken(waiting[d][i])]
           n == Len(ws)
           C == ItemsOf(s, p)
           Good(q, k) == /\ q \in Seq(Items)
                         /\ IsFiniteSet(OwnUpTo(ws, k, s, p)) /\ IsFiniteSet(MoreUpTo(ws, k, s, p))
                         /\ Count(q, C) = Cardinality(OwnUpTo(ws, k, s, p)) + Cardinality(MoreUpTo(ws, k, s, p))
<1>1. ws \in Seq(WaitEntries) /\ n \in Nat /\ DOMAIN ws = 1 .. n /\ \A i \in 1 .. n : ws[i] \in WaitEntries
    BY WaitingTypes
<1>2. Len(ss) = n /\ \A i \in 1 .. n : ss[i] = Woken(ws[i])
  <2>1. ss = [i \in 1 .. n |-> Woken(ws[i])]
      BY <1>1
  <2>2. \A i \in 1 .. n : Woken(ws[i]) \in Seq(Items)
      BY <1>1, WokenCount
  <2> HIDE DEF ss, ws, n
  <2>3. ss \in Seq(Seq(Items))
      BY <1>1, <2>1, <2>2, IsASeq
  <2> QED
      BY <1>1, <2>1, <2>3, LenProperties
<1> HIDE DEF ss
<1>3. n = Len(ws) /\ ws = waiting[d]
    OBVIOUS
<1> HIDE DEF ws, n
<1>4. ASSUME NEW q, NEW k \in 1 .. n, Good(q, k - 1)
      PROVE  Good(q \o ss[k], k)
  <2>1. k \in Nat \ {0} /\ k \in 1 .. Len(ws)
      BY <1>1, <1>3
  <2>2. Woken(ws[k]) \in Seq(Items) /\ Count(Woken(ws[k]), C) =
            Once(ws[k], EntriesOf(s, p)) + Asked(ws[k], s, p)
      BY <1>1, WokenCount
  <2>3. q \o ss[k] \in Seq(Items) /\ Count(q \o ss[k], C) = Count(q, C) + Count(Woken(ws[k]), C)
      BY <1>2, <1>4, <2>2, ConcatProperties, CountConcat
  <2>4. /\ IsFiniteSet(OwnUpTo(ws, k, s, p))
        /\ Cardinality(OwnUpTo(ws, k, s, p)) =
               Cardinality(OwnUpTo(ws, k - 1, s, p)) + Once(ws[k], EntriesOf(s, p))
      BY <1>4, <2>1, OwnStep
  <2>5. /\ IsFiniteSet(MoreUpTo(ws, k, s, p))
        /\ Cardinality(MoreUpTo(ws, k, s, p)) = Cardinality(MoreUpTo(ws, k - 1, s, p))
               + Asked(ws[k], s, p)
    <3>1. IsFiniteSet(MoreUpTo(ws, k - 1, s, p))
        BY <1>4
    <3>2. ws \in Seq(WaitEntries) /\ k \in 1 .. Len(ws)
        BY <1>1, <2>1
    <3> HIDE DEF Good, C
    <3> QED
        BY <3>1, <3>2, MoreStep
  <2>6. Count(q, C) = Cardinality(OwnUpTo(ws, k - 1, s, p)) + Cardinality(MoreUpTo(ws, k - 1, s, p))
      BY <1>4
  <2>7. /\ Cardinality(OwnUpTo(ws, k - 1, s, p)) \in Nat /\ Cardinality(MoreUpTo(ws, k - 1, s, p)) \in Nat
        /\ Once(ws[k], EntriesOf(s, p)) \in Nat
      BY <1>4, FS_CardinalityType DEF Once
  <2>8. Asked(ws[k], s, p) \in Nat
    <3>1. ws[k].more \in Seq(Signals)
        BY <1>1 DEF WaitEntries
    <3> QED
        BY <3>1, CountFinite DEF Asked
  <2> DEFINE c1 == Cardinality(OwnUpTo(ws, k - 1, s, p))
             c2 == Cardinality(MoreUpTo(ws, k - 1, s, p))
             e1 == Once(ws[k], EntriesOf(s, p))
             e2 == Asked(ws[k], s, p)
  <2>9. Count(q \o ss[k], C) = (c1 + c2) + (e1 + e2)
      BY <2>2, <2>3, <2>6
  <2>10. c1 \in Nat /\ c2 \in Nat /\ e1 \in Nat /\ e2 \in Nat
      BY <2>7, <2>8
  <2> HIDE DEF c1, c2, e1, e2
  <2>11. (c1 + c2) + (e1 + e2) = (c1 + e1) + (c2 + e2)
      BY <2>10
  <2>12. Cardinality(OwnUpTo(ws, k, s, p)) = c1 + e1 /\ Cardinality(MoreUpTo(ws, k, s, p)) = c2 + e2
      BY <2>4, <2>5 DEF c1, c2, e1, e2
  <2> QED
      BY <2>3, <2>4, <2>5, <2>9, <2>11, <2>12
<1>5. Good(<<>>, 0)
  <2>1. <<>> \in Seq(Items) /\ Count(<<>>, C) = 0
      BY CountEmpty
  <2>2. /\ IsFiniteSet(OwnUpTo(ws, 0, s, p)) /\ IsFiniteSet(MoreUpTo(ws, 0, s, p))
        /\ Cardinality(OwnUpTo(ws, 0, s, p)) = 0 /\ Cardinality(MoreUpTo(ws, 0, s, p)) = 0
      BY MoreZero
  <2> QED
      BY <2>1, <2>2
<1>6. \E q : q = FlattenSeq(ss) /\ Good(q, n)
  <2>1. CASE n = 0
    <3>1. FlattenSeq(ss) = <<>>
        BY <1>2, <2>1 DEF FlattenSeq
    <3> QED
        BY <1>5, <2>1, <3>1
  <2>2. CASE n # 0
    <3>1. PICK f : StepsOf(ss, f, n) /\ FlattenSeq(ss) = f[n]
        BY <1>1, <1>2, <2>2, FlattenSteps
    <3> DEFINE T == {k \in 1 .. n : ~Good(f[k], k)}
    <3> HIDE DEF Good
    <3>2. \A k \in 1 .. n : f[k] = IF k = 1 THEN ss[k] ELSE f[k - 1] \o ss[k]
        BY <3>1 DEF StepsOf
    <3>3. T = {}
      <4> SUFFICES ASSUME T # {} PROVE FALSE
          OBVIOUS
      <4>1. PICK m \in T : \A y \in T : m <= y
          BY <1>1, FirstOne
      <4>2. m \in 1 .. n /\ ~Good(f[m], m)
          BY <4>1
      <4>3. CASE m = 1
        <5>1. Good(<<>> \o ss[1], 1)
          <6>1. 1 \in 1 .. n /\ 1 - 1 = 0
              BY <4>2, <4>3
          <6> QED
              BY <1>4, <1>5, <6>1
        <5>2. <<>> \o ss[1] = ss[1]
          <6>1. ss[1] \in Seq(Items)
              BY <1>1, <1>2, <4>2, <4>3, WokenCount
          <6> QED
              BY <6>1, ConcatEmptySeq
        <5> QED
            BY <3>2, <4>2, <4>3, <5>1, <5>2
      <4>4. CASE m # 1
        <5>1. m - 1 \in 1 .. n /\ ~(m <= m - 1)
            BY <1>1, <4>2, <4>4
        <5>2. Good(f[m - 1], m - 1)
            BY <4>1, <5>1
        <5> QED
            BY <1>4, <3>2, <4>2, <4>4, <5>2
      <4> QED
          BY <4>3, <4>4
    <3>4. Good(f[n], n)
      <4>1. n \in 1 .. n
          BY <1>1, <2>2
      <4> QED
          BY <3>3, <4>1
    <3> QED
        BY <3>1, <3>4
  <2> QED
      BY <2>1, <2>2
<1>7. OwnUpTo(ws, n, s, p) = PlacesOf(ws, EntriesOf(s, p)) /\ MoreUpTo(ws, n, s, p) = More(ws, s, p)
    BY <1>3 DEF OwnUpTo, PlacesOf, More
<1> QED
    BY <1>3, <1>6, <1>7 DEF Count, ss

(* Lists that differ in no packet and in no signal that asks.              *)
LEMMA MoreSame ==
    ASSUME NEW ws, NEW vs, Len(vs) = Len(ws), NEW s, NEW p,
           \A i \in 1 .. Len(ws) : vs[i].packet = ws[i].packet /\ vs[i].more = ws[i].more
    PROVE  More(vs, s, p) = More(ws, s, p)
    BY DEF More, MoreUpTo

(* A buffer begins to wait: nobody asks for it yet.                        *)
LEMMA MoreAppend ==
    ASSUME NEW ws \in Seq(WaitEntries), NEW w \in WaitEntries, w.more = <<>>, NEW s, NEW p
    PROVE  Cardinality(More(Append(ws, w), s, p)) = Cardinality(More(ws, s, p))
<1> DEFINE vs == Append(ws, w)
           n == Len(ws)
<1>1. /\ vs \in Seq(WaitEntries) /\ Len(vs) = n + 1 /\ n \in Nat
      /\ vs[n + 1] = w /\ \A i \in 1 .. n : vs[i] = ws[i]
    BY AppendProperties, LenProperties
<1> HIDE DEF vs
<1>2. MoreUpTo(vs, n, s, p) = More(ws, s, p)
    BY <1>1 DEF More, MoreUpTo
<1>3. IsFiniteSet(More(ws, s, p)) /\ Cardinality(More(ws, s, p)) \in Nat
    BY MoreFinite
<1>4. Asked(vs[n + 1], s, p) = 0
    BY <1>1, CountEmpty DEF Asked
<1>5. Cardinality(MoreUpTo(vs, n + 1, s, p)) = Cardinality(MoreUpTo(vs, n, s, p)) + Asked(vs[n + 1], s, p)
  <2>1. n + 1 \in 1 .. Len(vs) /\ (n + 1) - 1 = n
      BY <1>1
  <2> QED
      BY <1>1, <1>2, <1>3, <2>1, MoreStep
<1> QED
    BY <1>1, <1>2, <1>3, <1>4, <1>5 DEF More, vs

(* One element replaced.                                                   *)
LEMMA ReplaceOne ==
    ASSUME NEW S, NEW q \in Seq(S), NEW i \in 1 .. Len(q), NEW e \in S
    PROVE  [q EXCEPT ![i] = e] \in Seq(S) /\ Len([q EXCEPT ![i] = e]) = Len(q)
<1>1. DOMAIN q = 1 .. Len(q) /\ Len(q) \in Nat
    BY LenProperties
<1> DEFINE r == [q EXCEPT ![i] = e]
<1>2. r \in Seq(S) /\ DOMAIN r = DOMAIN q
    BY <1>1, ExceptSeq
<1> HIDE DEF r
<1>3. Len(r) = Len(q)
    BY <1>1, <1>2, LenProperties
<1> QED
    BY <1>2, <1>3 DEF r

(* A signal asks for a packet that waits.                                  *)
AskedToo(ws, i, t) == [ws EXCEPT ![i] = [ws[i] EXCEPT !.more = Append(ws[i].more, t)]]

(* It is counted.                                                          *)
LEMMA MoreAsked ==
    ASSUME NEW ws \in Seq(WaitEntries), NEW i \in 1 .. Len(ws), NEW t \in Signals, NEW s, NEW p
    PROVE  /\ Cardinality(More(AskedToo(ws, i, t), s, p)) =
                  Cardinality(More(ws, s, p)) + Once(<<ws[i].packet, t>>, {<<p, s>>})
           /\ Count(AskedToo(ws, i, t), EntriesOf(s, p)) = Count(ws, EntriesOf(s, p))
<1> DEFINE vs == AskedToo(ws, i, t)
           m == ws[i].more
           k == Len(m) + 1
<1>1. /\ Len(ws) \in Nat /\ DOMAIN ws = 1 .. Len(ws) /\ ws[i] \in WaitEntries
      /\ \A j \in 1 .. Len(ws) : ws[j] \in WaitEntries
    BY LenProperties, ElementOfSeq
<1>2. m \in Seq(Signals) /\ Len(m) \in Nat /\ k \in Nat
  <2>1. m \in Seq(Signals)
      BY <1>1 DEF WaitEntries
  <2> QED
      BY <2>1, LenProperties
<1>3. /\ Append(m, t) \in Seq(Signals) /\ Len(Append(m, t)) = k
      /\ Append(m, t)[k] = t /\ \A j \in 1 .. Len(m) : Append(m, t)[j] = m[j]
    BY <1>2, AppendProperties
<1> DEFINE u == [ws[i] EXCEPT !.more = Append(m, t)]
<1>4. u \in WaitEntries /\ u.packet = ws[i].packet /\ u.signal = ws[i].signal /\ u.more = Append(m, t)
    BY <1>1, <1>3 DEF WaitEntries
<1>5. vs[i] = u /\ \A j \in 1 .. Len(ws) : j # i => vs[j] = ws[j]
    BY <1>1 DEF AskedToo
<1>6. vs \in Seq(WaitEntries) /\ Len(vs) = Len(ws)
  <2>1. vs = [ws EXCEPT ![i] = u]
      BY DEF AskedToo
  <2> HIDE DEF u
  <2>2. u \in WaitEntries
      BY <1>4
  <2>3. [ws EXCEPT ![i] = u] \in Seq(WaitEntries) /\ Len([ws EXCEPT ![i] = u]) = Len(ws)
      BY <2>2, ReplaceOne
  <2> QED
      BY <2>1, <2>3, Zenon
<1> HIDE DEF u
<1>7. Count(vs, EntriesOf(s, p)) = Count(ws, EntriesOf(s, p))
  <2>1. ASSUME NEW j \in 1 .. Len(ws)
        PROVE  vs[j] \in EntriesOf(s, p) <=> ws[j] \in EntriesOf(s, p)
      BY <1>1, <1>4, <1>5 DEF EntriesOf
  <2>2. PlacesOf(vs, EntriesOf(s, p)) = PlacesOf(ws, EntriesOf(s, p))
      BY <1>6, <2>1 DEF PlacesOf
  <2> QED
      BY <2>2 DEF Count
<1>8. \A j : j \in PlacesOf(u.more, {s}) <=> j \in PlacesOf(m, {s}) \/ (j = k /\ t = s)
  <2>1. PlacesOf(u.more, {s}) = {j \in 1 .. k : Append(m, t)[j] = s}
      BY <1>3, <1>4 DEF PlacesOf
  <2>2. \A j : j \in 1 .. k <=> j \in 1 .. Len(m) \/ j = k
      BY <1>2
  <2>3. PlacesOf(m, {s}) = {j \in 1 .. Len(m) : m[j] = s}
      BY DEF PlacesOf
  <2> HIDE DEF m, k
  <2> QED
      BY <1>3, <2>1, <2>2, <2>3
<1>9. k \notin PlacesOf(m, {s})
    BY <1>2 DEF PlacesOf
<1>10. IsFiniteSet(More(ws, s, p)) /\ Cardinality(More(ws, s, p)) \in Nat
    BY MoreFinite
<1>11. \A x : x \in More(vs, s, p) <=>
                 /\ x \in (1 .. Len(ws)) \X Nat /\ vs[x[1]].packet = p
                 /\ x[2] \in PlacesOf(vs[x[1]].more, {s})
    BY <1>6 DEF More, MoreUpTo
<1>12. \A x : x \in More(ws, s, p) <=>
                 /\ x \in (1 .. Len(ws)) \X Nat /\ ws[x[1]].packet = p
                 /\ x[2] \in PlacesOf(ws[x[1]].more, {s})
    BY DEF More, MoreUpTo
<1>13. m = ws[i].more
    OBVIOUS
<1> HIDE DEF m, k
<1>14. CASE ws[i].packet = p /\ t = s
  <2> DEFINE y == <<i, k>>
  <2>1. More(vs, s, p) = More(ws, s, p) \cup {y}
    <3>1. ASSUME NEW x, x \in More(vs, s, p) PROVE x \in More(ws, s, p) \cup {y}
      <4>1. /\ x \in (1 .. Len(ws)) \X Nat /\ vs[x[1]].packet = p
            /\ x[2] \in PlacesOf(vs[x[1]].more, {s})
          BY <1>11, <3>1, Zenon
      <4>2. x[1] \in 1 .. Len(ws) /\ x = <<x[1], x[2]>>
          BY <4>1
      <4>3. CASE x[1] = i
          BY <1>4, <1>5, <1>8, <1>12, <1>13, <4>1, <4>2, <4>3
      <4>4. CASE x[1] # i
        <5>1. vs[x[1]] = ws[x[1]]
            BY <1>5, <4>2, <4>4
        <5> QED
            BY <1>12, <4>1, <5>1
      <4> QED
          BY <4>3, <4>4
    <3>2. ASSUME NEW x, x \in More(ws, s, p) PROVE x \in More(vs, s, p)
      <4>1. /\ x \in (1 .. Len(ws)) \X Nat /\ ws[x[1]].packet = p
            /\ x[2] \in PlacesOf(ws[x[1]].more, {s})
          BY <1>12, <3>2, Zenon
      <4>2. x[1] \in 1 .. Len(ws)
          BY <4>1
      <4>3. CASE x[1] = i
          BY <1>4, <1>5, <1>8, <1>11, <1>13, <4>1, <4>3
      <4>4. CASE x[1] # i
        <5>1. vs[x[1]] = ws[x[1]]
            BY <1>5, <4>2, <4>4
        <5> QED
            BY <1>11, <4>1, <5>1
      <4> QED
          BY <4>3, <4>4
    <3>3. y \in More(vs, s, p)
      <4>1. y \in (1 .. Len(ws)) \X Nat /\ y[1] = i /\ y[2] = k
          BY <1>2
      <4>2. vs[i].packet = p /\ k \in PlacesOf(vs[i].more, {s})
          BY <1>4, <1>5, <1>8, <1>14
      <4> QED
          BY <1>11, <4>1, <4>2
    <3> QED
        BY <3>1, <3>2, <3>3
  <2>2. y \notin More(ws, s, p)
    <3>1. y[1] = i /\ y[2] = k
        OBVIOUS
    <3> QED
        BY <1>9, <1>12, <1>13, <3>1
  <2>3. Cardinality(More(ws, s, p) \cup {y}) = Cardinality(More(ws, s, p)) + 1
      BY <1>10, <2>2, FS_AddElement
  <2> QED
      BY <1>7, <1>14, <2>1, <2>3 DEF Once
<1>15. CASE ~(ws[i].packet = p /\ t = s)
  <2>1. ASSUME NEW x \in (1 .. Len(ws)) \X Nat
        PROVE  x \in More(vs, s, p) <=> x \in More(ws, s, p)
    <3>1. x[1] \in 1 .. Len(ws)
        OBVIOUS
    <3>2. CASE x[1] = i
        BY <1>4, <1>5, <1>8, <1>11, <1>12, <1>13, <1>15, <3>2
    <3>3. CASE x[1] # i
      <4>1. vs[x[1]] = ws[x[1]]
          BY <1>5, <3>1, <3>3
      <4> QED
          BY <1>11, <1>12, <4>1
    <3> QED
        BY <3>2, <3>3
  <2>2. More(vs, s, p) = More(ws, s, p)
      BY <1>11, <1>12, <2>1
  <2> QED
      BY <1>7, <1>10, <1>15, <2>2 DEF Once
<1> QED
    BY <1>14, <1>15

(* What the client has of a packet for a signal: r is its queue, w are the *)
(* buffers that wait.                                                      *)
WaitList(w, p) == IF DomainOf[p] = NoPacket THEN <<>> ELSE w[DomainOf[p]]
Has(r, w, s, p) ==
    Count(r, ItemsOf(s, p)) + Count(WaitList(w, p), EntriesOf(s, p)) + Cardinality(More(WaitList(w, p), s, p))

LossInv ==
    /\ ReceivedTypes /\ addedTo \in [Signals -> Seq(Messages)]
    /\ \A s \in Signals, p \in Packets :
           Count(addedTo[s], {Data(p)}) = Count(Underway, BuffersOf(s, p)) + Has(received, waiting, s, p)

(* A step of the client with the buffer b.                                 *)
GotOne(b) ==
    \A s \in Signals, p \in Packets :
        Has(received', waiting', s, p) = Has(received, waiting, s, p) + Once(b, BuffersOf(s, p))

(* These are numbers.                                                      *)
LEMMA HasNat ==
    ASSUME ClientTypes, ReceivedTypes, NEW p \in Packets, NEW s
    PROVE  /\ WaitList(waiting, p) \in Seq(WaitEntries)
           /\ Count(received, ItemsOf(s, p)) \in Nat
           /\ Count(WaitList(waiting, p), EntriesOf(s, p)) \in Nat
           /\ Cardinality(More(WaitList(waiting, p), s, p)) \in Nat
           /\ Has(received, waiting, s, p) \in Nat
           /\ DomainOf[p] # NoPacket => DomainOf[p] \in Packets
<1>1. DomainOf[p] # NoPacket => DomainOf[p] \in Packets
    BY PacketStreamingAssumption
<1>2. WaitList(waiting, p) \in Seq(WaitEntries)
    BY <1>1 DEF WaitList, ClientTypes
<1>3. Count(received, ItemsOf(s, p)) \in Nat
    BY CountFinite DEF ReceivedTypes
<1>4. Count(WaitList(waiting, p), EntriesOf(s, p)) \in Nat
    BY <1>2, CountFinite
<1>5. Cardinality(More(WaitList(waiting, p), s, p)) \in Nat
    BY <1>2, MoreFinite
<1> QED
    BY <1>1, <1>2, <1>3, <1>4, <1>5 DEF Has

(* Which buffers are counted.                                              *)
LEMMA BufferCounted ==
    ASSUME NEW b \in Buffers, Shaped(b), NEW s, NEW p \in Packets
    PROVE  /\ Once(b, BuffersOf(s, p)) = IF b.signal = s /\ b.packet = p THEN 1 ELSE 0
           /\ b.type \notin {"data", "alreadySent"} => Once(b, BuffersOf(s, p)) = 0
    BY PacketStreamingAssumption DEF Shaped, Once, BuffersOf

(* A packet put into the queue.                                            *)
LEMMA HasReceived ==
    ASSUME ClientTypes, ReceivedTypes, NEW x \in Items, NEW s, NEW p \in Packets
    PROVE  Has(Append(received, x), waiting, s, p) = Has(received, waiting, s, p) + Once(x, ItemsOf(s, p))
<1>1. Count(Append(received, x), ItemsOf(s, p)) = Count(received, ItemsOf(s, p)) + Once(x, ItemsOf(s, p))
    BY CountAppend DEF ReceivedTypes
<1>2. /\ Count(received, ItemsOf(s, p)) \in Nat /\ Count(WaitList(waiting, p), EntriesOf(s, p)) \in Nat
      /\ Cardinality(More(WaitList(waiting, p), s, p)) \in Nat
    BY HasNat
<1>3. Once(x, ItemsOf(s, p)) \in Nat
    BY DEF Once
<1> QED
    BY <1>1, <1>2, <1>3 DEF Has

(* addEventPacketBuffer.                                                   *)
LEMMA EventGot ==
    ASSUME ClientTypes, ReceivedTypes, NEW b \in Buffers, Shaped(b), AddEventPacketBuffer(b)
    PROVE  GotOne(b)
<1> DEFINE x == ReceivedEvent(b.signal, b.event)
<1>1. /\ UNCHANGED waiting /\ b.type = "event"
      /\ received' = IF Forwarded(b.signal, b.event) THEN Append(received, x) ELSE received
      /\ b.signal \in Signals
    BY DEF AddEventPacketBuffer, Shaped
<1>2. x \in Items /\ x.kind = "event"
    BY <1>1 DEF Items, EventItems, ReceivedEvent, Buffers, Told, ReceivedTypes
<1> HIDE DEF x
<1> SUFFICES ASSUME NEW s \in Signals, NEW p \in Packets
             PROVE  Has(received', waiting', s, p) = Has(received, waiting, s, p) + Once(b, BuffersOf(s, p))
    BY DEF GotOne
<1>3. Once(b, BuffersOf(s, p)) = 0 /\ Once(x, ItemsOf(s, p)) = 0
    BY <1>1, <1>2, BufferCounted DEF Once, ItemsOf
<1>4. Has(received, waiting, s, p) \in Nat
    BY HasNat
<1>5. Has(Append(received, x), waiting, s, p) = Has(received, waiting, s, p) + Once(x, ItemsOf(s, p))
    BY <1>2, HasReceived
<1> QED
    BY <1>1, <1>3, <1>4, <1>5

(* addReleasePacketBuffer.                                                 *)
LEMMA ReleaseGot ==
    ASSUME ClientTypes, ReceivedTypes, NEW b \in Buffers, Shaped(b), AddReleasePacketBuffer(b)
    PROVE  GotOne(b)
<1>1. UNCHANGED received /\ b.type = "release"
    BY DEF AddReleasePacketBuffer, Throw
<1> SUFFICES ASSUME NEW s \in Signals, NEW p \in Packets
             PROVE  Has(received', waiting', s, p) = Has(received, waiting, s, p) + Once(b, BuffersOf(s, p))
    BY DEF GotOne
<1>2. Once(b, BuffersOf(s, p)) = 0 /\ Has(received, waiting, s, p) \in Nat
    BY <1>1, BufferCounted, HasNat
<1>3. CASE UNCHANGED waiting
    BY <1>1, <1>2, <1>3
<1>4. CASE waiting' = [d \in Packets |-> [i \in DOMAIN waiting[d] |->
                   IF waiting[d][i].packet \in b.ids \ DOMAIN referencedPackets
                   THEN [waiting[d][i] EXCEPT !.canRelease = ~@] ELSE waiting[d][i]]]
  <2>1. CASE DomainOf[p] = NoPacket
    <3>1. WaitList(waiting', p) = WaitList(waiting, p)
        BY <2>1 DEF WaitList
    <3> QED
        BY <1>1, <1>2, <3>1 DEF Has
  <2>2. CASE DomainOf[p] # NoPacket
    <3> DEFINE d == DomainOf[p]
               ws == waiting[d]
               vs == waiting'[d]
               e(i) == IF ws[i].packet \in b.ids \ DOMAIN referencedPackets
                       THEN [ws[i] EXCEPT !.canRelease = ~@] ELSE ws[i]
    <3>1. d \in Packets /\ WaitList(waiting, p) = ws /\ WaitList(waiting', p) = vs
        BY <2>2, HasNat DEF WaitList
    <3>2. ws \in Seq(WaitEntries) /\ Len(ws) \in Nat /\ DOMAIN ws = 1 .. Len(ws) /\ \A i \in 1 .. Len(ws) : ws[i] \in WaitEntries
        BY <3>1, WaitingTypes
    <3>3. vs = [i \in 1 .. Len(ws) |-> e(i)]
        BY <1>4, <3>1, <3>2
    <3>4. \A i \in 1 .. Len(ws) : /\ e(i) \in WaitEntries /\ e(i).packet = ws[i].packet
                                  /\ e(i).signal = ws[i].signal /\ e(i).more = ws[i].more
        BY <3>2 DEF WaitEntries
    <3> HIDE DEF ws, vs, e, d
    <3>5. Len(vs) = Len(ws) /\ \A i \in 1 .. Len(ws) : vs[i] = e(i)
      <4>1. vs \in Seq(WaitEntries)
          BY <3>2, <3>3, <3>4
      <4> QED
          BY <3>2, <3>3, <4>1, LenProperties
    <3>6. More(vs, s, p) = More(ws, s, p)
        BY <3>4, <3>5, MoreSame
    <3>7. PlacesOf(vs, EntriesOf(s, p)) = PlacesOf(ws, EntriesOf(s, p))
      <4>1. ASSUME NEW i \in 1 .. Len(ws)
            PROVE  vs[i] \in EntriesOf(s, p) <=> ws[i] \in EntriesOf(s, p)
          BY <3>2, <3>4, <3>5 DEF EntriesOf
      <4> QED
          BY <3>5, <4>1 DEF PlacesOf
    <3> QED
        BY <1>1, <1>2, <3>1, <3>6, <3>7 DEF Has, Count
  <2> QED
      BY <2>1, <2>2
<1> QED
    BY <1>3, <1>4 DEF AddReleasePacketBuffer, Throw

(* Three counts of which one grows by c.                                   *)
LEMMA OneGrows ==
    ASSUME NEW x \in Nat, NEW y \in Nat, NEW z \in Nat, NEW c \in Nat
    PROVE  /\ (x + c) + y + z = (x + y + z) + c
           /\ x + (y + c) + z = (x + y + z) + c
           /\ x + y + (z + c) = (x + y + z) + c
    OBVIOUS

(* A buffer begins to wait for its domain packet.                          *)
LEMMA WaitGot ==
    ASSUME ClientTypes, ReceivedTypes, NEW b \in Buffers, Shaped(b), b.type = "data",
           DomainOf[b.packet] # NoPacket, UNCHANGED received,
           waiting' = [waiting EXCEPT ![DomainOf[b.packet]] = Append(@, Wait(b))]
    PROVE  GotOne(b)
<1> DEFINE w == Wait(b)
           e == DomainOf[b.packet]
<1>1. b.packet \in Packets /\ b.signal \in Signals /\ b.canRelease \in BOOLEAN
    BY DEF Shaped, Buffers
<1>2. w \in WaitEntries /\ w.packet = b.packet /\ w.signal = b.signal /\ w.more = <<>>
    BY <1>1 DEF Wait, WaitEntries
<1> HIDE DEF w
<1>3. e \in Packets /\ waiting \in [Packets -> Seq(WaitEntries)]
    BY <1>1, PacketStreamingAssumption DEF ClientTypes
<1> SUFFICES ASSUME NEW s \in Signals, NEW p \in Packets
             PROVE  Has(received', waiting', s, p) = Has(received, waiting, s, p) + Once(b, BuffersOf(s, p))
    BY DEF GotOne
<1>4. /\ Count(received, ItemsOf(s, p)) \in Nat /\ Count(WaitList(waiting, p), EntriesOf(s, p)) \in Nat
      /\ Cardinality(More(WaitList(waiting, p), s, p)) \in Nat /\ WaitList(waiting, p) \in Seq(WaitEntries)
      /\ Has(received, waiting, s, p) \in Nat
    BY HasNat
<1>5. Once(b, BuffersOf(s, p)) = Once(w, EntriesOf(s, p)) /\ Once(b, BuffersOf(s, p)) \in Nat
    BY <1>2, BufferCounted DEF Once, EntriesOf
<1>6. CASE DomainOf[p] = e
  <2>1. WaitList(waiting, p) = waiting[e] /\ WaitList(waiting', p) = Append(waiting[e], w)
      BY <1>3, <1>6 DEF WaitList, w
  <2>2. Count(Append(waiting[e], w), EntriesOf(s, p)) = Count(waiting[e], EntriesOf(s, p)) + Once(w, EntriesOf(s, p))
      BY <1>2, <1>3, CountAppend
  <2>3. Cardinality(More(Append(waiting[e], w), s, p)) = Cardinality(More(waiting[e], s, p))
      BY <1>2, <1>3, MoreAppend
  <2> DEFINE x == Count(received, ItemsOf(s, p))
             y == Count(waiting[e], EntriesOf(s, p))
             z == Cardinality(More(waiting[e], s, p))
             c == Once(w, EntriesOf(s, p))
  <2>4. x \in Nat /\ y \in Nat /\ z \in Nat /\ c \in Nat
      BY <1>4, <1>5, <2>1
  <2>5. Has(received', waiting', s, p) = x + (y + c) + z /\ Has(received, waiting, s, p) = x + y + z
      BY <2>1, <2>2, <2>3 DEF Has
  <2> HIDE DEF x, y, z, c
  <2>6. x + (y + c) + z = (x + y + z) + c
      BY <2>4, OneGrows
  <2> QED
      BY <1>5, <2>5, <2>6 DEF c
<1>7. CASE DomainOf[p] # e
  <2>1. DomainOf[p] # NoPacket => DomainOf[p] \in Packets
      BY HasNat
  <2>2. WaitList(waiting', p) = WaitList(waiting, p)
      BY <1>3, <1>7, <2>1 DEF WaitList
  <2>3. Once(b, BuffersOf(s, p)) = 0
      BY <1>7, BufferCounted
  <2> QED
      BY <1>4, <2>2, <2>3 DEF Has
<1> QED
    BY <1>6, <1>7

(* A buffer that need not wait, and those that have waited for it.         *)
LEMMA ProcessGot ==
    ASSUME ClientTypes, ReceivedTypes, NEW b \in Buffers, Shaped(b), b.type = "data", ProcessData(b)
    PROVE  GotOne(b)
<1> DEFINE d == b.packet
           x == Received(b.signal, d, known[b.signal].value)
           q == FlattenSeq([i \in DOMAIN waiting[d] |-> Woken(waiting[d][i])])
<1>1. d \in Packets /\ b.signal \in Signals
    BY DEF Shaped
<1>2. received' = received \o <<x>> \o q /\ waiting' = [waiting EXCEPT ![d] = <<>>]
    BY DEF ProcessData
<1>3. waiting \in [Packets -> Seq(WaitEntries)] /\ received \in Seq(Items)
    BY DEF ClientTypes, ReceivedTypes
<1> SUFFICES ASSUME NEW s \in Signals, NEW p \in Packets
             PROVE  Has(received', waiting', s, p) = Has(received, waiting, s, p) + Once(b, BuffersOf(s, p))
    BY DEF GotOne
<1>4. x \in Items /\ Once(x, ItemsOf(s, p)) = Once(b, BuffersOf(s, p)) /\ Once(x, ItemsOf(s, p)) \in Nat
  <2>1. x \in DataItems(Packets) /\ x.kind = "data" /\ x.signal = b.signal /\ x.packet = d
      BY <1>1 DEF ClientTypes, DataItems, Received
  <2> HIDE DEF x
  <2>2. x \in Items /\ (x \in ItemsOf(s, p) <=> b.signal = s /\ b.packet = p)
      BY <2>1 DEF Items, ItemsOf
  <2> QED
      BY <2>2, BufferCounted DEF Once
<1>5. q \in Seq(Items) /\ Count(q, ItemsOf(s, p)) =
          Count(waiting[d], EntriesOf(s, p)) + Cardinality(More(waiting[d], s, p))
    BY <1>1, FlattenCount
<1> HIDE DEF x, q
<1> DEFINE c == Count(received, ItemsOf(s, p))
           o == Once(b, BuffersOf(s, p))
<1>6. Count(received', ItemsOf(s, p)) = c + o + Count(q, ItemsOf(s, p))
  <2>1. <<x>> \in Seq(Items) /\ Count(<<x>>, ItemsOf(s, p)) = Once(x, ItemsOf(s, p))
      BY <1>4, CountOne
  <2>2. received \o <<x>> \in Seq(Items) /\ Count(received \o <<x>>, ItemsOf(s, p)) = c + Count(<<x>>, ItemsOf(s, p))
      BY <1>3, <2>1, ConcatProperties, CountConcat
  <2>3. Count((received \o <<x>>) \o q, ItemsOf(s, p)) = Count(received \o <<x>>, ItemsOf(s, p)) + Count(q, ItemsOf(s, p))
      BY ZenonT(40), <1>5, <2>2, CountConcat
  <2> QED
      BY <1>2, <1>4, <2>1, <2>2, <2>3
<1>7. /\ c \in Nat /\ o \in Nat /\ Count(WaitList(waiting, p), EntriesOf(s, p)) \in Nat
      /\ Cardinality(More(WaitList(waiting, p), s, p)) \in Nat
    BY <1>4, HasNat
<1>8. CASE DomainOf[p] = d
  <2>1. WaitList(waiting, p) = waiting[d] /\ WaitList(waiting', p) = <<>>
      BY <1>1, <1>2, <1>3, <1>8, PacketStreamingAssumption DEF WaitList
  <2>2. Count(<<>>, EntriesOf(s, p)) = 0 /\ Cardinality(More(<<>>, s, p)) = 0
    <3>1. Len(<<>>) = 0
        OBVIOUS
    <3>2. More(<<>>, s, p) = {} /\ Cardinality({}) = 0
        BY <3>1, MoreZero DEF More
    <3> QED
        BY <3>2, CountEmpty
  <2> DEFINE y == Count(waiting[d], EntriesOf(s, p))
             z == Cardinality(More(waiting[d], s, p))
  <2>3. y \in Nat /\ z \in Nat
      BY <1>7, <2>1
  <2>4. Has(received', waiting', s, p) = (c + o + (y + z)) + 0 + 0
      BY <1>5, <1>6, <2>1, <2>2 DEF Has
  <2>5. Has(received, waiting, s, p) = c + y + z
      BY <2>1 DEF Has
  <2> HIDE DEF c, o, y, z
  <2>6. (c + o + (y + z)) + 0 + 0 = (c + y + z) + o
      BY <1>7, <2>3
  <2> QED
      BY <2>4, <2>5, <2>6 DEF o
<1>9. CASE DomainOf[p] # d
  <2>1. WaitList(waiting', p) = WaitList(waiting, p)
    <3>1. DomainOf[p] # NoPacket => DomainOf[p] \in Packets
        BY HasNat
    <3> QED
        BY <1>2, <1>3, <1>9, <3>1 DEF WaitList
  <2>2. waiting[d] \in Seq(WaitEntries) /\ DOMAIN waiting[d] = 1 .. Len(waiting[d])
        /\ \A i \in 1 .. Len(waiting[d]) : waiting[d][i].packet # p
      BY <1>1, <1>9, WaitingTypes DEF ClientTypes
  <2>3. Count(waiting[d], EntriesOf(s, p)) = 0
    <3>1. \A i \in 1 .. Len(waiting[d]) : waiting[d][i] \notin EntriesOf(s, p)
        BY <2>2 DEF EntriesOf
    <3> QED
        BY <2>2, <3>1, CountNone
  <2>4. Cardinality(More(waiting[d], s, p)) = 0
    <3>1. More(waiting[d], s, p) = {}
        BY <2>2 DEF More, MoreUpTo
    <3> QED
        BY <3>1, FS_EmptySet
  <2>5. Count(received', ItemsOf(s, p)) = c + o
      BY <1>5, <1>6, <1>7, <2>3, <2>4
  <2> HIDE DEF c, o
  <2> QED
      BY <1>7, <2>1, <2>5, OneGrows DEF Has, c, o
<1> QED
    BY <1>8, <1>9

(* addAlreadySentPacketBuffer of a packet that is referenced.              *)
LEMMA ReferencedGot ==
    ASSUME ClientTypes, ReceivedTypes, NEW b \in Buffers, Shaped(b), b.type = "alreadySent", AlreadySentReferenced(b)
    PROVE  GotOne(b)
<1> DEFINE x == Received(b.signal, b.packet, referencedPackets[b.packet])
<1>1. UNCHANGED waiting /\ received' = Append(received, x) /\ b.packet \in DOMAIN referencedPackets
      /\ b.packet \in Packets /\ b.signal \in Signals
    BY DEF AlreadySentReferenced, Shaped
<1>2. x \in DataItems(Packets) /\ x.kind = "data" /\ x.signal = b.signal /\ x.packet = b.packet
    BY <1>1 DEF ReceivedTypes, DataItems, Received
<1> HIDE DEF x
<1> SUFFICES ASSUME NEW s \in Signals, NEW p \in Packets
             PROVE  Has(received', waiting', s, p) = Has(received, waiting, s, p) + Once(b, BuffersOf(s, p))
    BY DEF GotOne
<1>3. x \in Items /\ (x \in ItemsOf(s, p) <=> b.signal = s /\ b.packet = p)
    BY <1>2 DEF Items, ItemsOf
<1>4. Once(x, ItemsOf(s, p)) = Once(b, BuffersOf(s, p))
    BY <1>3, BufferCounted DEF Once
<1>5. Has(Append(received, x), waiting, s, p) = Has(received, waiting, s, p) + Once(x, ItemsOf(s, p))
    BY <1>3, HasReceived
<1> QED
    BY <1>1, <1>4, <1>5

(* The same of a packet that waits.                                        *)
LEMMA MoreGot ==
    ASSUME ClientTypes, ReceivedTypes, NEW b \in Buffers, Shaped(b), b.type = "alreadySent", Found(b), AlreadySentWaiting(b)
    PROVE  GotOne(b)
<1>1. UNCHANGED received /\ b.packet \in Packets /\ b.signal \in Signals
    BY DEF AlreadySentWaiting, Shaped
<1>2. PICK d \in Packets : \E i \in DOMAIN waiting[d] :
             /\ d = DomainOf[b.packet] /\ waiting[d][i].packet = b.packet
             /\ waiting' = [waiting EXCEPT ![d] = [waiting[d] EXCEPT ![i] =
                    [waiting[d][i] EXCEPT !.more = Append(waiting[d][i].more, b.signal)]]]
    BY WaitingMore
<1>3. PICK i \in DOMAIN waiting[d] :
             /\ d = DomainOf[b.packet] /\ waiting[d][i].packet = b.packet
             /\ waiting' = [waiting EXCEPT ![d] = [waiting[d] EXCEPT ![i] =
                    [waiting[d][i] EXCEPT !.more = Append(waiting[d][i].more, b.signal)]]]
    BY <1>2
<1> DEFINE ws == waiting[d]
           t == b.signal
           vs == AskedToo(ws, i, t)
<1>4. ws \in Seq(WaitEntries) /\ i \in 1 .. Len(ws) /\ waiting \in [Packets -> Seq(WaitEntries)]
    BY WaitingTypes DEF ClientTypes
<1>5. waiting' = [waiting EXCEPT ![d] = vs]
    BY <1>3 DEF AskedToo
<1> SUFFICES ASSUME NEW s \in Signals, NEW p \in Packets
             PROVE  Has(received', waiting', s, p) = Has(received, waiting, s, p) + Once(b, BuffersOf(s, p))
    BY DEF GotOne
<1>6. /\ Count(received, ItemsOf(s, p)) \in Nat /\ Count(WaitList(waiting, p), EntriesOf(s, p)) \in Nat
      /\ Cardinality(More(WaitList(waiting, p), s, p)) \in Nat /\ Has(received, waiting, s, p) \in Nat
      /\ DomainOf[p] # NoPacket => DomainOf[p] \in Packets
    BY HasNat
<1>7. /\ Cardinality(More(vs, s, p)) =
             Cardinality(More(ws, s, p)) + Once(<<ws[i].packet, b.signal>>, {<<p, s>>})
      /\ Count(vs, EntriesOf(s, p)) = Count(ws, EntriesOf(s, p))
  <2>1. t \in Signals /\ vs = AskedToo(ws, i, t)
      BY <1>1
  <2>2. ws \in Seq(WaitEntries) /\ i \in 1 .. Len(ws)
      BY <1>4
  <2> HIDE DEF ws, vs, t
  <2>3. /\ Cardinality(More(vs, s, p)) =
               Cardinality(More(ws, s, p)) + Once(<<ws[i].packet, t>>, {<<p, s>>})
        /\ Count(vs, EntriesOf(s, p)) = Count(ws, EntriesOf(s, p))
      BY <2>1, <2>2, MoreAsked
  <2> QED
      BY <2>3 DEF t
<1>8. /\ Once(b, BuffersOf(s, p)) = IF ws[i].packet = p /\ b.signal = s THEN 1 ELSE 0
      /\ Once(<<ws[i].packet, b.signal>>, {<<p, s>>}) = IF ws[i].packet = p /\ b.signal = s THEN 1 ELSE 0
    BY <1>3, BufferCounted DEF Once
<1>9. ws[i].packet = b.packet /\ ws = waiting[d]
    BY <1>3
<1> HIDE DEF vs, ws
<1>10. CASE DomainOf[p] = d
  <2>1. d # NoPacket
      BY PacketStreamingAssumption
  <2>2. WaitList(waiting, p) = ws /\ WaitList(waiting', p) = vs
      BY <1>4, <1>5, <1>9, <1>10, <2>1 DEF WaitList
  <2>3. Cardinality(More(vs, s, p)) = Cardinality(More(ws, s, p)) + Once(b, BuffersOf(s, p))
      BY <1>7, <1>8
  <2>4. Once(b, BuffersOf(s, p)) \in Nat
      BY DEF Once
  <2> QED
      BY <1>1, <1>6, <1>7, <2>2, <2>3, <2>4, OneGrows DEF Has
<1>11. CASE DomainOf[p] # d
  <2>1. WaitList(waiting', p) = WaitList(waiting, p)
      BY <1>4, <1>5, <1>6, <1>11 DEF WaitList
  <2>2. Once(b, BuffersOf(s, p)) = 0
      BY <1>3, <1>8, <1>9, <1>11
  <2> QED
      BY <1>1, <1>6, <2>1, <2>2 DEF Has
<1> QED
    BY <1>10, <1>11

(* The client gets every buffer once.                                      *)
LEMMA ClientGot ==
    ASSUME ClientTypes, ReceivedTypes, NEW b \in Buffers, Shaped(b), failed' = FALSE,
           \/ AddEventPacketBuffer(b) \/ AddDataPacketBuffer(b)
           \/ AddReleasePacketBuffer(b) \/ AddAlreadySentPacketBuffer(b)
    PROVE  GotOne(b)
<1>1. CASE AddDataPacketBuffer(b)
  <2>1. CASE Waits(b) /\ waiting' = [waiting EXCEPT ![DomainOf[b.packet]] = Append(@, Wait(b))] /\ UNCHANGED received
      BY <1>1, <2>1, WaitGot DEF Waits, AddDataPacketBuffer
  <2>2. CASE ProcessData(b)
      BY <1>1, <2>2, ProcessGot DEF AddDataPacketBuffer
  <2>3. ~Throw
      BY DEF Throw
  <2> QED
      BY <1>1, <2>1, <2>2, <2>3 DEF AddDataPacketBuffer
<1>2. CASE AddAlreadySentPacketBuffer(b)
  <2>1. ~Throw
      BY DEF Throw
  <2> QED
      BY <1>2, <2>1, ReferencedGot, MoreGot DEF AddAlreadySentPacketBuffer
<1> QED
    BY <1>1, <1>2, EventGot, ReleaseGot

(* A buffer queued, and the release that may follow it.                    *)
LEMMA QueuedCount ==
    ASSUME NEW w \in Seq(Buffers), NEW q \in Seq(Buffers), NEW b \in Buffers, Shaped(b),
           NEW ready \in SUBSET Packets, IsFiniteSet(ready), NEW r, Queued(q, b, ready, r),
           NEW s, NEW p \in Packets
    PROVE  Count(w \o r, BuffersOf(s, p)) = Count(w \o q, BuffersOf(s, p)) + Once(b, BuffersOf(s, p))
<1> DEFINE C == BuffersOf(s, p)
<1>1. PICK c \in Buffers :
        /\ SameButGroup(c, b)
        /\ IF ReleaseDue(ready)
           THEN \E x \in Buffers : SameButGroup(x, ReleaseBuffer(ready)) /\ r = Append(Append(q, c), x)
           ELSE r = Append(q, c)
    BY DEF Queued
<1>2. Once(c, C) = Once(b, C) /\ Once(b, C) \in Nat
    BY <1>1 DEF SameButGroup, Once, BuffersOf
<1>3. w \o q \in Seq(Buffers) /\ Append(q, c) \in Seq(Buffers) /\ Append(w \o q, c) \in Seq(Buffers)
    BY ConcatProperties, AppendProperties
<1>4. w \o Append(q, c) = Append(w \o q, c)
    BY ConcatAppend
<1> HIDE DEF C
<1>5. Count(Append(w \o q, c), C) = Count(w \o q, C) + Once(b, C)
  <2> DEFINE V == w \o q
  <2>1. V \in Seq(Buffers)
      BY <1>3
  <2> HIDE DEF V
  <2>2. Count(Append(V, c), C) = Count(V, C) + Once(c, C)
      BY <2>1, CountAppend
  <2> QED
      BY <1>2, <2>2 DEF V
<1>6. CASE ReleaseDue(ready)
  <2>1. PICK x \in Buffers : SameButGroup(x, ReleaseBuffer(ready)) /\ r = Append(Append(q, c), x)
      BY <1>1, <1>6
  <2>2. ReleaseBuffer(ready).packet = NoPacket
      BY ReleaseMade
  <2>3. Once(x, C) = 0
      BY <2>1, <2>2, PacketStreamingAssumption DEF C, BuffersOf, Once, SameButGroup
  <2>4. w \o r = Append(Append(w \o q, c), x)
    <3> DEFINE z == Append(q, c)
    <3>1. z \in Seq(Buffers) /\ w \o z = Append(w \o q, c)
        BY <1>3, <1>4
    <3>2. r = Append(z, x)
        BY <2>1
    <3> HIDE DEF z
    <3>3. w \o Append(z, x) = Append(w \o z, x)
        BY <3>1, ConcatAppend
    <3> QED
        BY <3>1, <3>2, <3>3
  <2>5. Count(Append(Append(w \o q, c), x), C) = Count(Append(w \o q, c), C) + Once(x, C)
    <3> DEFINE V == Append(w \o q, c)
    <3>1. V \in Seq(Buffers)
        BY <1>3
    <3> HIDE DEF V
    <3>2. Count(Append(V, x), C) = Count(V, C) + Once(x, C)
        BY <3>1, CountAppend
    <3> QED
        BY <3>2 DEF V
  <2>6. Count(Append(w \o q, c), C) \in Nat
      BY <1>3, CountFinite
  <2> QED
      BY <1>5, <2>3, <2>4, <2>5, <2>6 DEF C
<1>7. CASE ~ReleaseDue(ready)
    BY <1>1, <1>4, <1>5, <1>7 DEF C
<1> QED
    BY <1>6, <1>7

(* addDaqPacket of the message e for the signal s, which queues b.         *)
LEMMA AddLoss ==
    ASSUME StreamInv, LossInv, NEW s \in Signals, NEW e \in Messages,
           NEW b \in Buffers, Shaped(b), NEW ready \in SUBSET Packets, IsFiniteSet(ready),
           Queued(out.queue, b, ready, out'.queue),
           addedTo' = [addedTo EXCEPT ![s] = Append(@, e)],
           UNCHANGED <<wire, received, referencedPackets, waiting>>,
           \A t \in Signals, p \in Packets :
               Once(b, BuffersOf(t, p)) = IF t = s THEN Once(e, {Data(p)}) ELSE 0
    PROVE  LossInv'
<1> DEFINE r == out'.queue
<1>1. wire \in Seq(Buffers) /\ out.queue \in Seq(Buffers) /\ ClientTypes /\ ReceivedTypes
      /\ addedTo \in [Signals -> Seq(Messages)]
    BY DEF StreamInv, StreamTypes, ClientTypes, LossInv
<1>2. ReceivedTypes' /\ Underway' = wire \o r /\ Underway = wire \o out.queue
    BY <1>1 DEF ReceivedTypes, Underway
<1>3. addedTo' \in [Signals -> Seq(Messages)]
    BY <1>1, AppendProperties
<1>4. Queued(out.queue, b, ready, r)
    OBVIOUS
<1> HIDE DEF r
<1>5. ASSUME NEW t \in Signals, NEW p \in Packets
      PROVE  Count(addedTo'[t], {Data(p)}) = Count(Underway', BuffersOf(t, p)) + Has(received', waiting', t, p)
  <2> DEFINE u == Count(Underway, BuffersOf(t, p))
             h == Has(received, waiting, t, p)
             o == Once(b, BuffersOf(t, p))
  <2>1. Count(Underway', BuffersOf(t, p)) = u + o
    <3> DEFINE q == out.queue
    <3>1. wire \in Seq(Buffers) /\ q \in Seq(Buffers) /\ Queued(q, b, ready, r)
        BY <1>1, <1>4
    <3> HIDE DEF q
    <3>2. Count(wire \o r, BuffersOf(t, p)) = Count(wire \o q, BuffersOf(t, p)) + Once(b, BuffersOf(t, p))
        BY <3>1, QueuedCount
    <3> QED
        BY <1>2, <3>2 DEF q
  <2>2. Has(received', waiting', t, p) = h
      OBVIOUS
  <2>3. u \in Nat /\ h \in Nat /\ o \in Nat
    <3>1. Underway \in Seq(Buffers)
        BY <1>1, ConcatProperties DEF Underway
    <3>2. u \in Nat
        BY <3>1, CountFinite
    <3>3. h \in Nat
        BY <1>1, HasNat
    <3>4. o \in Nat
        BY DEF Once
    <3> QED
        BY <3>2, <3>3, <3>4
  <2>4. Count(addedTo[t], {Data(p)}) = u + h
      BY DEF LossInv
  <2>5. Count(addedTo'[t], {Data(p)}) = (u + h) + o
    <3>1. CASE t = s
      <4>1. addedTo'[t] = Append(addedTo[t], e) /\ addedTo[t] \in Seq(Messages)
          BY <1>1, <3>1
      <4>2. Count(Append(addedTo[t], e), {Data(p)}) = Count(addedTo[t], {Data(p)}) + Once(e, {Data(p)})
          BY <4>1, CountAppend
      <4>3. o = Once(e, {Data(p)})
          BY <3>1
      <4> HIDE DEF u, h, o
      <4> QED
          BY <2>4, <4>1, <4>2, <4>3
    <3>2. CASE t # s
      <4>1. addedTo'[t] = addedTo[t]
          BY <1>1, <3>2
      <4>2. o = 0
          BY <3>2
      <4> HIDE DEF u, h, o
      <4> QED
          BY <2>3, <2>4, <4>1, <4>2
    <3> QED
        BY <3>1, <3>2
  <2> HIDE DEF u, h, o
  <2> QED
      BY <2>1, <2>2, <2>3, <2>5
<1> QED
    BY <1>2, <1>3, <1>5 DEF LossInv

(* addDaqPacket of an event.                                               *)
LEMMA AddEventLoss ==
    ASSUME StreamInv, LossInv, NEW s \in Signals, AddEventPacket(s)
    PROVE  LossInv'
<1> DEFINE e == Head(pending[s])
           b == EventBuffer(s, e)
<1>1. StreamTypes /\ GroupsOK(out)
    BY DEF StreamInv
<1>2. /\ pending[s] # <<>> /\ e.kind = "event"
      /\ addedTo' = [addedTo EXCEPT ![s] = Append(@, e)]
      /\ UNCHANGED <<wire, received, referencedPackets, waiting>>
    BY DEF AddEventPacket, clientVars
<1>3. Queued(out.queue, b, readyForRelease, out'.queue)
    BY <1>1, AddEventTypes
<1>4. b \in Buffers /\ Shaped(b) /\ b.type = "event" /\ e \in Messages
    BY <1>1, <1>2, FirstMessage, BuffersMade
<1>5. readyForRelease \in SUBSET Packets /\ IsFiniteSet(readyForRelease)
    BY <1>1 DEF StreamTypes
<1> HIDE DEF b, e
<1>6. ASSUME NEW t \in Signals, NEW p \in Packets
      PROVE  Once(b, BuffersOf(t, p)) = 0 /\ Once(e, {Data(p)}) = 0
  <2>1. Once(b, BuffersOf(t, p)) = 0
      BY <1>4, BufferCounted
  <2>2. e # Data(p)
      BY <1>2 DEF Data
  <2> QED
      BY <2>1, <2>2 DEF Once
<1>7. \A t \in Signals, p \in Packets :
          Once(b, BuffersOf(t, p)) = IF t = s THEN Once(e, {Data(p)}) ELSE 0
    BY <1>6
<1> QED
    BY <1>2, <1>3, <1>4, <1>5, <1>7, AddLoss

(* addDaqPacket of a data packet.                                          *)
LEMMA AddDataLoss ==
    ASSUME StreamInv, LossInv, NEW s \in Signals, NEW moved \in BOOLEAN, AddDataPacket(s, moved)
    PROVE  LossInv'
<1> DEFINE p0 == Head(pending[s]).packet
           m == Mark(s, moved)
           b == Added(s, moved)
           S == SentNow(s, moved)
           gone == Gone(s, moved)
           ready == readyForRelease \cup gone
<1>1. StreamTypes /\ GroupsOK(out)
    BY DEF StreamInv
<1>2. /\ addedTo' = [addedTo EXCEPT ![s] = Append(@, Data(p0))]
      /\ UNCHANGED <<wire, received, referencedPackets, waiting>>
    BY DEF AddDataPacket, clientVars
<1>3. /\ Queued(out.queue, b, ready, out'.queue)
      /\ gone \subseteq S /\ p0 \in Packets
    BY <1>1, AddDataTypes
<1>4. /\ readyForRelease \subseteq Packets /\ IsFiniteSet(readyForRelease) /\ IsFiniteSet(sent)
      /\ sent \subseteq Packets
    BY <1>1 DEF StreamTypes
<1>5. m \in BOOLEAN
    BY DEF Mark, OnlyReference, HeldDirectly
<1>6. b \in Buffers /\ Shaped(b) /\ b.packet = p0 /\ b.signal = s
  <2> HIDE DEF m
  <2>1. b = IF p0 \in sent THEN AlreadySentBuffer(s, p0, m) ELSE DataBuffer(s, p0, m)
      BY DEF Added, m
  <2> QED
      BY <1>3, <1>5, <2>1, BuffersMade
<1>7. S \subseteq sent \cup {p0}
    BY DEF SentNow, SentAfter
<1>8. Data(p0) \in Messages
    BY <1>3 DEF Messages
<1> HIDE DEF p0, m, b, S, gone
<1>9. ready \in SUBSET Packets /\ IsFiniteSet(ready)
  <2>1. IsFiniteSet(sent \cup {p0})
      BY <1>4, FS_AddElement
  <2>2. IsFiniteSet(gone)
      BY <1>3, <1>7, <2>1, FS_Subset
  <2>3. IsFiniteSet(ready)
      BY <1>4, <2>2, FS_Union
  <2> QED
      BY <1>3, <1>4, <1>7, <2>3
<1>10. ASSUME NEW t \in Signals, NEW p \in Packets
       PROVE  Once(b, BuffersOf(t, p)) = IF t = s THEN Once(Data(p0), {Data(p)}) ELSE 0
  <2>1. Once(b, BuffersOf(t, p)) = IF s = t /\ p0 = p THEN 1 ELSE 0
      BY <1>6, BufferCounted
  <2>2. Data(p0) = Data(p) <=> p0 = p
      BY DEF Data
  <2> QED
      BY <2>1, <2>2 DEF Once
<1> HIDE DEF ready
<1> QED
    BY <1>2, <1>3, <1>6, <1>8, <1>9, <1>10, AddLoss

(* The queue of the client holds items after every buffer.                 *)
LEMMA ItemsReceived ==
    ASSUME ClientTypes, ReceivedTypes, NEW b \in Buffers, Shaped(b),
           \/ AddEventPacketBuffer(b) \/ AddDataPacketBuffer(b)
           \/ AddReleasePacketBuffer(b) \/ AddAlreadySentPacketBuffer(b)
    PROVE  ReceivedTypes'
<1>1. CASE AddEventPacketBuffer(b)
  <2> DEFINE x == ReceivedEvent(b.signal, b.event)
  <2>1. /\ UNCHANGED referencedPackets /\ b.signal \in Signals
        /\ received' = IF Forwarded(b.signal, b.event) THEN Append(received, x) ELSE received
      BY <1>1 DEF AddEventPacketBuffer, Shaped
  <2>2. x \in Items /\ received \in Seq(Items)
      BY <2>1 DEF Items, EventItems, ReceivedEvent, Buffers, Told, ReceivedTypes
  <2> HIDE DEF x
  <2>3. received' \in Seq(Items)
      BY <2>1, <2>2, AppendProperties
  <2> QED
      BY <2>1, <2>3 DEF ReceivedTypes
<1> QED
    BY <1>1, DataReceived

(* addPacketBuffer.                                                        *)
LEMMA ClientLoss ==
    ASSUME StreamInv, LossInv, AddPacketBuffer, failed' = FALSE
    PROVE  LossInv'
<1> DEFINE b == Head(wire)
           U == Underway
<1>1. StreamTypes /\ ClientTypes /\ ReceivedTypes
    BY DEF StreamInv, StreamTypes, ClientTypes, LossInv
<1>2. /\ wire # <<>> /\ wire' = Tail(wire)
      /\ \/ AddEventPacketBuffer(b) \/ AddDataPacketBuffer(b)
         \/ AddReleasePacketBuffer(b) \/ AddAlreadySentPacketBuffer(b)
      /\ UNCHANGED <<out, addedTo>>
    BY DEF AddPacketBuffer, serverVars
<1>3. b \in Buffers /\ Shaped(b) /\ b = wire[1]
    BY <1>1, <1>2, HeadOfWire
<1>4. wire \in Seq(Buffers) /\ out.queue \in Seq(Buffers)
    BY <1>1 DEF StreamTypes
<1>5. U \in Seq(Buffers) /\ U # <<>> /\ U[1] = b /\ Underway' = Tail(U)
  <2>1. U \in Seq(Buffers) /\ U # <<>> /\ U[1] = wire[1] /\ Tail(wire) \o out.queue = Tail(U)
      BY <1>2, <1>4, UnderwayTail DEF Underway
  <2> QED
      BY <1>2, <1>3, <2>1 DEF Underway
<1> HIDE DEF b
<1>6. GotOne(b)
    BY <1>1, <1>2, <1>3, ClientGot
<1>7. ReceivedTypes'
    BY <1>1, <1>2, <1>3, ItemsReceived
<1>8. ASSUME NEW s \in Signals, NEW p \in Packets
      PROVE  Count(addedTo'[s], {Data(p)}) = Count(Underway', BuffersOf(s, p)) + Has(received', waiting', s, p)
  <2> DEFINE n == Count(Tail(U), BuffersOf(s, p))
             o == Once(b, BuffersOf(s, p))
             h == Has(received, waiting, s, p)
  <2>1. Tail(U) \in Seq(Buffers) /\ Count(U, BuffersOf(s, p)) = o + n
      BY <1>5, CountTail
  <2>2. n \in Nat /\ h \in Nat /\ o \in Nat
    <3>1. n \in Nat
        BY <2>1, CountFinite
    <3>2. h \in Nat
        BY <1>1, HasNat
    <3>3. o \in Nat
        BY DEF Once
    <3> QED
        BY <3>1, <3>2, <3>3
  <2>3. Count(addedTo[s], {Data(p)}) = Count(U, BuffersOf(s, p)) + h
      BY DEF LossInv
  <2>4. Has(received', waiting', s, p) = h + o
      BY <1>6 DEF GotOne
  <2>5. addedTo' = addedTo /\ Count(Underway', BuffersOf(s, p)) = n
      BY <1>2, <1>5
  <2> HIDE DEF n, o, h, U
  <2>6. (o + n) + h = n + (h + o)
      BY <2>2
  <2> QED
      BY <2>1, <2>3, <2>4, <2>5, <2>6
<1> QED
    BY <1>1, <1>2, <1>7, <1>8 DEF LossInv

(* Every step.                                                             *)
LEMMA NextLoss ==
    ASSUME StreamInv, LossInv, [StreamNext]_streamVars
    PROVE  LossInv'
<1>1. StreamTypes /\ GroupsOK(out)
    BY DEF StreamInv
<1>2. failed' = FALSE
    BY NextStreamInv DEF StreamInv
<1>3. CASE Underway' = Underway /\ UNCHANGED <<received, referencedPackets, waiting, addedTo>>
    BY <1>3 DEF LossInv, ReceivedTypes
<1>4. CASE UNCHANGED streamVars
    BY <1>3, <1>4 DEF streamVars, serverVars, clientVars, Underway
<1>5. CASE GetStreamingWriteTask
  <2>1. Underway' = Underway
      BY <1>1, <1>5, TakeTypes
  <2> QED
      BY <1>3, <1>5, <2>1 DEF GetStreamingWriteTask, clientVars
<1>6. ASSUME NEW s \in Signals, NEW e \in LaterEvents, SetDescriptor(s, e)
      PROVE  LossInv'
    BY <1>3, <1>6 DEF SetDescriptor, clientVars, serverVars, Underway
<1>7. ASSUME NEW p \in Packets, NEW s \in Signals, SendPacket(p, s)
      PROVE  LossInv'
    BY <1>3, <1>7 DEF SendPacket, clientVars, serverVars, Underway
<1>8. ASSUME NEW p \in Packets, DropPacket(p)
      PROVE  LossInv'
    BY <1>3, <1>8 DEF DropPacket, clientVars, serverVars, Underway
<1> QED
    BY <1>2, <1>4, <1>5, <1>6, <1>7, <1>8, AddEventLoss, AddDataLoss, ClientLoss DEF StreamNext

(* The places at which buffers of a packet wait are those of one list.     *)
LEMMA WaitPlacesAre ==
    ASSUME ClientTypes, NEW p \in Packets
    PROVE  /\ DomainOf[p] = NoPacket => WaitPlaces(p) = {}
           /\ DomainOf[p] # NoPacket =>
                  WaitPlaces(p) = {DomainOf[p]} \X {i \in DOMAIN waiting[DomainOf[p]] :
                                                       waiting[DomainOf[p]][i].packet = p}
<1>1. ASSUME NEW w, w \in WaitPlaces(p)
      PROVE  DomainOf[p] # NoPacket /\ w \in {DomainOf[p]} \X {i \in DOMAIN waiting[DomainOf[p]] :
                                                       waiting[DomainOf[p]][i].packet = p}
  <2>1. PICK d \in Packets : w \in {d} \X {i \in DOMAIN waiting[d] : waiting[d][i].packet = p}
      BY <1>1 DEF WaitPlaces
  <2>2. PICK i \in DOMAIN waiting[d] : waiting[d][i].packet = p
      BY <2>1
  <2>3. DomainOf[p] = d
      BY <2>2 DEF ClientTypes
  <2>4. d # NoPacket
      BY PacketStreamingAssumption
  <2> QED
      BY <2>1, <2>3, <2>4
<1>2. DomainOf[p] # NoPacket => DomainOf[p] \in Packets
    BY PacketStreamingAssumption
<1>3. DomainOf[p] # NoPacket => {DomainOf[p]} \X {i \in DOMAIN waiting[DomainOf[p]] :
                                                       waiting[DomainOf[p]][i].packet = p} \subseteq WaitPlaces(p)
    BY <1>2 DEF WaitPlaces
<1> QED
    BY <1>1, <1>3

(* A list of pairs, each with d in front.                                  *)
Fronted(d, S) == {<<<<d, x[1]>>, x[2]>> : x \in S}

(* They are as many.                                                       *)
LEMMA PairCard ==
    ASSUME NEW d, NEW S \in SUBSET (Nat \X Nat), IsFiniteSet(S)
    PROVE  Cardinality(Fronted(d, S)) = Cardinality(S)
<1> DEFINE f == [x \in S |-> <<<<d, x[1]>>, x[2]>>]
           T == Fronted(d, S)
<1>1. ASSUME NEW x \in S
      PROVE  x = <<x[1], x[2]>> /\ f[x] = <<<<d, x[1]>>, x[2]>>
    OBVIOUS
<1>2. f \in [S -> T]
    BY DEF Fronted
<1>3. ASSUME NEW x \in S, NEW y \in S, f[x] = f[y]
      PROVE  x = y
  <2>1. <<<<d, x[1]>>, x[2]>> = <<<<d, y[1]>>, y[2]>>
      BY <1>1, <1>3
  <2>2. <<d, x[1]>> = <<d, y[1]>> /\ x[2] = y[2]
      BY <2>1
  <2>3. x[1] = y[1]
      BY <2>2
  <2> QED
      BY <1>1, <2>2, <2>3
<1>4. ASSUME NEW y \in T
      PROVE  \E x \in S : f[x] = y
    BY DEF Fronted
<1>5. f \in Bijection(S, T)
    BY <1>2, <1>3, <1>4, Zenon DEF Bijection, Injection, Surjection, IsInjective
<1> QED
    BY <1>5, FS_Bijection DEF ExistsBijection

(* The buffers of a packet that wait for a signal.                         *)
LEMMA OwnCount ==
    ASSUME ClientTypes, NEW p \in Packets, NEW s \in Signals
    PROVE  Cardinality({w \in WaitPlaces(p) : At(w).signal = s}) = Count(WaitList(waiting, p), EntriesOf(s, p))
<1> DEFINE T == {w \in WaitPlaces(p) : At(w).signal = s}
<1>1. CASE DomainOf[p] = NoPacket
  <2>1. T = {} /\ WaitList(waiting, p) = <<>>
      BY <1>1, WaitPlacesAre DEF WaitList
  <2> QED
      BY <2>1, CountEmpty, FS_EmptySet
<1>2. CASE DomainOf[p] # NoPacket
  <2> DEFINE d == DomainOf[p]
             ws == waiting[d]
             S == PlacesOf(ws, EntriesOf(s, p))
  <2>1. d \in Packets /\ WaitList(waiting, p) = ws
      BY <1>2, PacketStreamingAssumption DEF WaitList
  <2>2. ws \in Seq(WaitEntries) /\ DOMAIN ws = 1 .. Len(ws) /\ Len(ws) \in Nat
        /\ \A i \in 1 .. Len(ws) : ws[i] \in WaitEntries
      BY <2>1, WaitingTypes
  <2>3. WaitPlaces(p) = {d} \X {i \in 1 .. Len(ws) : ws[i].packet = p}
      BY <1>2, <2>2, WaitPlacesAre
  <2>4. IsFiniteSet(S) /\ S \in SUBSET Nat
    <3>1. IsFiniteSet(S)
        BY <2>2, CountFinite
    <3> QED
        BY <3>1 DEF PlacesOf
  <2>5. \A i : i \in S <=> i \in 1 .. Len(ws) /\ ws[i].packet = p /\ ws[i].signal = s
      BY <2>2 DEF PlacesOf, EntriesOf
  <2>6. \A i : At(<<d, i>>) = ws[i]
      BY DEF At
  <2> HIDE DEF S, ws, d
  <2>7. T = {d} \X S
    <3>1. ASSUME NEW w, w \in T PROVE w \in {d} \X S
      <4>1. w \in {d} \X {i \in 1 .. Len(ws) : ws[i].packet = p} /\ At(w).signal = s
          BY <2>3, <3>1
      <4>2. w = <<d, w[2]>> /\ w[2] \in 1 .. Len(ws) /\ ws[w[2]].packet = p
          BY <4>1
      <4>3. ws[w[2]].signal = s
          BY <2>6, <4>1, <4>2
      <4>4. w[2] \in S
          BY <2>5, <4>2, <4>3
      <4> QED
          BY <4>2, <4>4
    <3>2. ASSUME NEW i \in S PROVE <<d, i>> \in T
      <4>1. <<d, i>> \in WaitPlaces(p)
          BY <2>3, <2>5
      <4> QED
          BY <2>5, <2>6, <4>1
    <3> HIDE DEF T
    <3> QED
        BY <3>1, <3>2
  <2> HIDE DEF T
  <2>8. Cardinality(T) = Cardinality(S)
      BY <2>4, <2>7, RowCard
  <2> QED
      BY <2>1, <2>8 DEF Count, S, T
<1> QED
    BY <1>1, <1>2

(* The signals that ask for a packet that waits.                           *)
LEMMA MoreCount ==
    ASSUME ClientTypes, NEW p \in Packets, NEW s \in Signals
    PROVE  Cardinality(UNION {{w} \X {j \in DOMAIN At(w).more : At(w).more[j] = s} : w \in WaitPlaces(p)})
               = Cardinality(More(WaitList(waiting, p), s, p))
<1> DEFINE T == UNION {{w} \X {j \in DOMAIN At(w).more : At(w).more[j] = s} : w \in WaitPlaces(p)}
<1>1. CASE DomainOf[p] = NoPacket
  <2>1. T = {} /\ WaitList(waiting, p) = <<>>
      BY <1>1, WaitPlacesAre DEF WaitList
  <2>2. Len(<<>>) = 0
      OBVIOUS
  <2>3. More(<<>>, s, p) = {}
      BY <2>2, MoreZero DEF More
  <2> QED
      BY <2>1, <2>3
<1>2. CASE DomainOf[p] # NoPacket
  <2> DEFINE d == DomainOf[p]
             ws == waiting[d]
             S == More(ws, s, p)
  <2>1. d \in Packets /\ WaitList(waiting, p) = ws
      BY <1>2, PacketStreamingAssumption DEF WaitList
  <2>2. ws \in Seq(WaitEntries) /\ DOMAIN ws = 1 .. Len(ws) /\ Len(ws) \in Nat
        /\ \A i \in 1 .. Len(ws) : ws[i] \in WaitEntries /\ ws[i].more \in Seq(Signals)
      BY <2>1, WaitingTypes
  <2>3. WaitPlaces(p) = {d} \X {i \in 1 .. Len(ws) : ws[i].packet = p}
      BY <1>2, <2>2, WaitPlacesAre
  <2>4. IsFiniteSet(S) /\ S \in SUBSET (Nat \X Nat)
    <3>1. IsFiniteSet(S)
        BY <2>2, MoreFinite
    <3> QED
        BY <3>1 DEF More, MoreUpTo
  <2>5. \A i : At(<<d, i>>) = ws[i]
      BY DEF At
  <2>6. ASSUME NEW i \in 1 .. Len(ws)
        PROVE  \A k : k \in PlacesOf(ws[i].more, {s}) <=> k \in DOMAIN ws[i].more /\ ws[i].more[k] = s
    <3>1. DOMAIN ws[i].more = 1 .. Len(ws[i].more)
        BY <2>2, LenProperties
    <3> QED
        BY <3>1 DEF PlacesOf
  <2>7. \A i, k \in Nat : <<i, k>> \in S <=> /\ i \in 1 .. Len(ws) /\ ws[i].packet = p
                                             /\ k \in PlacesOf(ws[i].more, {s})
      BY DEF More, MoreUpTo
  <2> HIDE DEF S, ws, d
  <2>8. ASSUME NEW y, y \in T
        PROVE  \E i, k \in Nat : y = <<<<d, i>>, k>> /\ <<i, k>> \in S
    <3>1. PICK w \in WaitPlaces(p) : y \in {w} \X {j \in DOMAIN At(w).more : At(w).more[j] = s}
        BY <2>8
    <3>2. PICK i \in 1 .. Len(ws) : w = <<d, i>> /\ ws[i].packet = p
        BY <2>3, <3>1
    <3>3. PICK k \in DOMAIN At(w).more : y = <<w, k>> /\ At(w).more[k] = s
        BY <3>1
    <3>4. k \in DOMAIN ws[i].more /\ ws[i].more[k] = s
        BY <2>5, <3>2, <3>3
    <3>5. k \in PlacesOf(ws[i].more, {s}) /\ k \in Nat
        BY <2>6, <3>4 DEF PlacesOf
    <3>6. i \in Nat
        OBVIOUS
    <3> QED
        BY <2>7, <3>2, <3>3, <3>5, <3>6
  <2>9. ASSUME NEW i \in Nat, NEW k \in Nat, <<i, k>> \in S
        PROVE  <<<<d, i>>, k>> \in T
    <3>1. i \in 1 .. Len(ws) /\ ws[i].packet = p /\ k \in PlacesOf(ws[i].more, {s})
        BY <2>7, <2>9
    <3>2. <<d, i>> \in WaitPlaces(p)
        BY <2>3, <3>1
    <3>3. k \in DOMAIN ws[i].more /\ ws[i].more[k] = s
        BY <2>6, <3>1
    <3> DEFINE w == <<d, i>>
    <3>4. At(w) = ws[i] /\ w \in WaitPlaces(p)
        BY <2>5, <3>2
    <3> HIDE DEF w
    <3>5. <<w, k>> \in {w} \X {j \in DOMAIN At(w).more : At(w).more[j] = s}
        BY <3>3, <3>4
    <3>6. <<w, k>> \in T
        BY <3>4, <3>5
    <3> HIDE DEF T
    <3> QED
        BY <3>6 DEF w
  <2> HIDE DEF T
  <2>10. T = Fronted(d, S)
    <3>1. ASSUME NEW y, y \in T PROVE y \in Fronted(d, S)
      <4>1. PICK i \in Nat, k \in Nat : y = <<<<d, i>>, k>> /\ <<i, k>> \in S
          BY <2>8, <3>1
      <4>2. <<i, k>>[1] = i /\ <<i, k>>[2] = k
          OBVIOUS
      <4> QED
          BY <4>1, <4>2 DEF Fronted
    <3>2. ASSUME NEW y, y \in Fronted(d, S) PROVE y \in T
      <4>1. PICK x \in S : y = <<<<d, x[1]>>, x[2]>>
          BY <3>2 DEF Fronted
      <4>2. x[1] \in Nat /\ x[2] \in Nat /\ <<x[1], x[2]>> = x
          BY <2>4
      <4> QED
          BY <2>9, <4>1, <4>2
    <3> QED
        BY <3>1, <3>2
  <2>11. Cardinality(T) = Cardinality(S)
      BY <2>4, <2>10, PairCard
  <2> QED
      BY <2>1, <2>11 DEF S, T
<1> QED
    BY <1>1, <1>2

(* What the invariant says.                                                *)
LEMMA LossMeans ==
    ASSUME StreamInv, LossInv
    PROVE  NothingLost
<1>1. ClientTypes /\ ReceivedTypes /\ wire \in Seq(Buffers) /\ out.queue \in Seq(Buffers)
      /\ addedTo \in [Signals -> Seq(Messages)]
    BY DEF StreamInv, StreamTypes, ClientTypes, LossInv
<1> SUFFICES ASSUME NEW s \in Signals, NEW p \in Packets
             PROVE  Cardinality({i \in DOMAIN addedTo[s] : addedTo[s][i] = Data(p)}) =
                        Cardinality({i \in DOMAIN Underway : Underway[i].signal = s /\ Underway[i].packet = p})
                        + Cardinality({i \in DOMAIN received : /\ received[i].kind = "data"
                                                               /\ received[i].signal = s
                                                               /\ received[i].packet = p})
                        + Cardinality({w \in WaitPlaces(p) : At(w).signal = s})
                        + Cardinality(UNION {{w} \X {j \in DOMAIN At(w).more : At(w).more[j] = s} :
                                                 w \in WaitPlaces(p)})
    BY DEF NothingLost, Occurrences
<1>2. {i \in DOMAIN addedTo[s] : addedTo[s][i] = Data(p)} = PlacesOf(addedTo[s], {Data(p)})
    BY <1>1, LenProperties DEF PlacesOf
<1>3. Underway \in Seq(Buffers)
    BY <1>1, ConcatProperties DEF Underway
<1>4. {i \in DOMAIN Underway : Underway[i].signal = s /\ Underway[i].packet = p}
          = PlacesOf(Underway, BuffersOf(s, p))
  <2>1. DOMAIN Underway = 1 .. Len(Underway) /\ \A i \in 1 .. Len(Underway) : Underway[i] \in Buffers
      BY <1>3, LenProperties, ElementOfSeq
  <2> QED
      BY <2>1 DEF PlacesOf, BuffersOf
<1>5. {i \in DOMAIN received : received[i].kind = "data" /\ received[i].signal = s /\ received[i].packet = p}
          = PlacesOf(received, ItemsOf(s, p))
  <2>1. DOMAIN received = 1 .. Len(received) /\ \A i \in 1 .. Len(received) : received[i] \in Items
      BY <1>1, LenProperties, ElementOfSeq DEF ReceivedTypes
  <2> QED
      BY <2>1 DEF PlacesOf, ItemsOf
<1> DEFINE own == Cardinality({w \in WaitPlaces(p) : At(w).signal = s})
           more == Cardinality(UNION {{w} \X {j \in DOMAIN At(w).more : At(w).more[j] = s} : w \in WaitPlaces(p)})
           u == Count(Underway, BuffersOf(s, p))
           g == Count(received, ItemsOf(s, p))
<1>6. Has(received, waiting, s, p) = g + own + more
    BY <1>1, OwnCount, MoreCount DEF Has
<1>7. own \in Nat /\ more \in Nat /\ u \in Nat /\ g \in Nat
  <2>1. own \in Nat /\ more \in Nat
    <3>1. /\ own = Count(WaitList(waiting, p), EntriesOf(s, p))
          /\ more = Cardinality(More(WaitList(waiting, p), s, p))
        BY <1>1, OwnCount, MoreCount, Zenon
    <3>2. /\ Count(WaitList(waiting, p), EntriesOf(s, p)) \in Nat
          /\ Cardinality(More(WaitList(waiting, p), s, p)) \in Nat
        BY <1>1, HasNat, Zenon
    <3> HIDE DEF own, more
    <3> QED
        BY <3>1, <3>2, Zenon
  <2>2. u \in Nat
      BY <1>3, CountFinite
  <2>3. g \in Nat
      BY <1>1, HasNat
  <2> QED
      BY <2>1, <2>2, <2>3
<1>8. Count(addedTo[s], {Data(p)}) = u + Has(received, waiting, s, p)
    BY DEF LossInv
<1> HIDE DEF own, more
<1>9. u + (g + own + more) = u + g + own + more
  <2> HIDE DEF u, g
  <2> QED
      BY <1>7
<1>10. Count(addedTo[s], {Data(p)}) = u + g + own + more
    BY <1>6, <1>8, <1>9
<1> QED
    BY <1>2, <1>4, <1>5, <1>10 DEF Count, own, more

(* At the start nothing was added, received or put on the link.            *)
LEMMA InitLoss ==
    ASSUME StreamInit
    PROVE  LossInv
<1>1. /\ received = <<>> /\ DOMAIN referencedPackets = {} /\ wire = <<>> /\ out.queue = <<>>
      /\ \A d \in Packets : waiting[d] = <<>>
      /\ addedTo = [s \in Signals |-> <<>>]
    BY DEF StreamInit
<1>2. <<>> \in Seq(Items) /\ <<>> \in Seq(Buffers) /\ <<>> \in Seq(Messages) /\ Len(<<>>) = 0
    OBVIOUS
<1>3. Underway = <<>>
    BY <1>1, <1>2, ConcatEmptySeq DEF Underway
<1>4. ReceivedTypes /\ addedTo \in [Signals -> Seq(Messages)]
    BY <1>1, <1>2 DEF ReceivedTypes
<1>5. ASSUME NEW s \in Signals, NEW p \in Packets
      PROVE  Count(addedTo[s], {Data(p)}) = Count(Underway, BuffersOf(s, p)) + Has(received, waiting, s, p)
  <2>1. WaitList(waiting, p) = <<>>
    <3>1. DomainOf[p] # NoPacket => DomainOf[p] \in Packets
        BY PacketStreamingAssumption
    <3> QED
        BY <1>1, <3>1 DEF WaitList
  <2>2. More(<<>>, s, p) = {} /\ Cardinality({}) = 0
      BY <1>2, MoreZero DEF More
  <2>3. \A C : Count(<<>>, C) = 0
      BY CountEmpty
  <2>4. Has(received, waiting, s, p) = 0
    <3>1. Has(received, waiting, s, p) =
              Count(<<>>, ItemsOf(s, p)) + Count(<<>>, EntriesOf(s, p)) + Cardinality(More(<<>>, s, p))
        BY <1>1, <2>1 DEF Has
    <3>2. Count(<<>>, ItemsOf(s, p)) = 0 /\ Count(<<>>, EntriesOf(s, p)) = 0
        BY CountEmpty
    <3>3. Cardinality(More(<<>>, s, p)) = 0
        BY <2>2
    <3> QED
        BY <3>1, <3>2, <3>3
  <2>5. addedTo[s] = <<>>
      BY <1>1
  <2> QED
      BY <1>3, <2>3, <2>4, <2>5
<1> QED
    BY <1>4, <1>5 DEF LossInv

(* Nothing is lost and nothing is doubled: a packet addDaqPacket was given *)
(* for a signal is under way, waits at the client for its domain packet or *)
(* is in the client's queue, exactly once for every time it was given,     *)
(* whichever packets cross the link by id alone, are destroyed, released   *)
(* or woken by their domain packet meanwhile.                              *)
THEOREM PacketsConserved == StreamSpec => []NothingLost
<1>1. StreamInit => StreamInv /\ LossInv
    BY InitStreamInv, InitLoss
<1>2. StreamInv /\ LossInv /\ [StreamNext]_streamVars => StreamInv' /\ LossInv'
    BY NextStreamInv, NextLoss
<1>3. StreamInv /\ LossInv => NothingLost
    BY LossMeans
<1> QED
    BY <1>1, <1>2, <1>3, PTL DEF StreamSpec
--------------------------------------------------------------------------------
(***************************************************************************)
(* A signal's data arrive in order.  D are the packets that had to wait; r *)
(* is what the client received, U what is under way, a what was added for  *)
(* the signal s: the data in r, then those in U, are those of a, place by  *)
(* place.                                                                  *)
(***************************************************************************)
Gets(r, s, D) == {i \in 1 .. Len(r) : r[i].kind = "data" /\ r[i].signal = s /\ r[i].packet \notin D}
Nears(U, s, D) == {i \in 1 .. Len(U) : U[i].signal = s /\ U[i].packet \in Packets /\ U[i].packet \notin D}
Puts(a, D) == {i \in 1 .. Len(a) : a[i].kind = "data" /\ a[i].packet \notin D}
Rising(f, S) == \A i, j \in S : i < j => f[i] < f[j]
OrderedBy(f, g, r, U, a, s, D) ==
    /\ \A i \in Gets(r, s, D) : f[i] \in Puts(a, D) /\ a[f[i]].packet = r[i].packet
    /\ \A j \in Nears(U, s, D) : g[j] \in Puts(a, D) /\ a[g[j]].packet = U[j].packet
    /\ Rising(f, Gets(r, s, D)) /\ Rising(g, Nears(U, s, D))
    /\ \A i \in Gets(r, s, D), j \in Nears(U, s, D) : f[i] < g[j]
    /\ \A k \in Puts(a, D) : \/ \E i \in Gets(r, s, D) : f[i] = k
                             \/ \E j \in Nears(U, s, D) : g[j] = k
InOrder(r, U, a, s, D) == \E f, g : OrderedBy(f, g, r, U, a, s, D)

(* The order does not change when data are left out everywhere.            *)
LEMMA OrderLess ==
    ASSUME NEW r, NEW U, NEW a, NEW s, NEW D, InOrder(r, U, a, s, D),
           NEW r2, NEW V, NEW c, NEW E, D \subseteq E,
           \A i : i \in Gets(r2, s, E) <=> i \in Gets(r, s, D) /\ r[i].packet \notin E,
           \A i : i \in Nears(V, s, E) <=> i \in Nears(U, s, D) /\ U[i].packet \notin E,
           \A i : i \in Puts(c, E) <=> i \in Puts(a, D) /\ a[i].packet \notin E,
           \A i \in Gets(r2, s, E) : r2[i].packet = r[i].packet,
           \A i \in Nears(V, s, E) : V[i].packet = U[i].packet,
           \A i \in Puts(c, E) : c[i].packet = a[i].packet
    PROVE  InOrder(r2, V, c, s, E)
<1> DEFINE G == Gets(r, s, D)
           N == Nears(U, s, D)
           P == Puts(a, D)
           G2 == Gets(r2, s, E)
           N2 == Nears(V, s, E)
           P2 == Puts(c, E)
<1>1. PICK f, g : OrderedBy(f, g, r, U, a, s, D)
    BY DEF InOrder
<1>2. /\ \A i \in G : f[i] \in P /\ a[f[i]].packet = r[i].packet
      /\ \A j \in N : g[j] \in P /\ a[g[j]].packet = U[j].packet
      /\ Rising(f, G) /\ Rising(g, N)
      /\ \A i \in G, j \in N : f[i] < g[j]
      /\ \A k \in P : (\E i \in G : f[i] = k) \/ (\E j \in N : g[j] = k)
    BY <1>1, Zenon DEF OrderedBy
<1>3. /\ \A i : i \in G2 <=> i \in G /\ r[i].packet \notin E
      /\ \A i : i \in N2 <=> i \in N /\ U[i].packet \notin E
      /\ \A i : i \in P2 <=> i \in P /\ a[i].packet \notin E
      /\ \A i \in G2 : r2[i].packet = r[i].packet
      /\ \A i \in N2 : V[i].packet = U[i].packet
      /\ \A i \in P2 : c[i].packet = a[i].packet
    OBVIOUS
<1> HIDE DEF G, N, P, G2, N2, P2
<1>4. \A i \in G2 : f[i] \in P2 /\ c[f[i]].packet = r2[i].packet
    BY <1>2, <1>3
<1>5. \A j \in N2 : g[j] \in P2 /\ c[g[j]].packet = V[j].packet
    BY <1>2, <1>3
<1>6. Rising(f, G2) /\ Rising(g, N2)
    BY <1>2, <1>3 DEF Rising
<1>7. \A i \in G2, j \in N2 : f[i] < g[j]
    BY <1>2, <1>3
<1>8. ASSUME NEW k \in P2
      PROVE  (\E i \in G2 : f[i] = k) \/ (\E j \in N2 : g[j] = k)
  <2>1. k \in P /\ a[k].packet \notin E
      BY <1>3
  <2>2. (\E i \in G : f[i] = k) \/ (\E j \in N : g[j] = k)
      BY <1>2, <2>1
  <2>3. ASSUME NEW i \in G, f[i] = k
        PROVE  i \in G2
      BY <1>2, <1>3, <2>1, <2>3
  <2>4. ASSUME NEW j \in N, g[j] = k
        PROVE  j \in N2
      BY <1>2, <1>3, <2>1, <2>4
  <2> QED
      BY <2>2, <2>3, <2>4
<1>9. OrderedBy(f, g, r2, V, c, s, E)
    BY <1>4, <1>5, <1>6, <1>7, <1>8, Zenon DEF OrderedBy, G2, N2, P2
<1> QED
    BY <1>9 DEF InOrder

(* A packet is queued for the signal it is added for.                      *)
LEMMA OrderAdd ==
    ASSUME NEW r, NEW U \in Seq(Buffers), NEW a \in Seq(Messages), NEW s, NEW D, InOrder(r, U, a, s, D),
           NEW b \in Buffers, b.signal = s, NEW p \in Packets, b.packet = p
    PROVE  InOrder(r, Append(U, b), Append(a, Data(p)), s, D)
<1> DEFINE V == Append(U, b)
           c == Append(a, Data(p))
           G == Gets(r, s, D)
           N == Nears(U, s, D)
           P == Puts(a, D)
           N2 == Nears(V, s, D)
           P2 == Puts(c, D)
           n == Len(U) + 1
           m == Len(a) + 1
<1>1. /\ Len(U) \in Nat /\ Len(a) \in Nat /\ Len(V) = n /\ Len(c) = m
      /\ V[n] = b /\ \A i \in 1 .. Len(U) : V[i] = U[i]
      /\ c[m] = Data(p) /\ \A i \in 1 .. Len(a) : c[i] = a[i]
  <2>1. Data(p) \in Messages
      BY DEF Messages
  <2> QED
      BY <2>1, AppendProperties, LenProperties
<1>2. Data(p).kind = "data" /\ Data(p).packet = p
    BY DEF Data
<1> HIDE DEF V, c
<1>3. N \subseteq 1 .. Len(U) /\ P \subseteq 1 .. Len(a)
    BY DEF Nears, Puts
<1>4. \A i : i \in N2 <=> i \in N \/ (i = n /\ p \notin D)
    BY <1>1 DEF Nears
<1>5. \A i : i \in P2 <=> i \in P \/ (i = m /\ p \notin D)
    BY <1>1, <1>2 DEF Puts
<1>6. /\ \A i \in N : V[i] = U[i] /\ i < n
      /\ \A i \in P : c[i] = a[i] /\ i < m
    BY <1>1, <1>3
<1>7. PICK f, g0 : OrderedBy(f, g0, r, U, a, s, D)
    BY DEF InOrder
<1> DEFINE g == [i \in N \cup {n} |-> IF i = n THEN m ELSE g0[i]]
<1>8. /\ \A i \in G : f[i] \in P /\ a[f[i]].packet = r[i].packet
      /\ \A j \in N : g0[j] \in P /\ a[g0[j]].packet = U[j].packet
      /\ Rising(f, G) /\ Rising(g0, N)
      /\ \A i \in G, j \in N : f[i] < g0[j]
      /\ \A k \in P : (\E i \in G : f[i] = k) \/ (\E j \in N : g0[j] = k)
    BY <1>7, Zenon DEF OrderedBy
<1>9. n \notin N
    BY <1>1, <1>3
<1> HIDE DEF G, N, P, N2, P2, n, m
<1>10. g[n] = m /\ \A j \in N : g[j] = g0[j]
    BY <1>9
<1> HIDE DEF g
<1>11. \A i \in G : f[i] \in P2 /\ c[f[i]].packet = r[i].packet
    BY <1>5, <1>6, <1>8
<1>12. \A j \in N2 : g[j] \in P2 /\ c[g[j]].packet = V[j].packet
  <2> SUFFICES ASSUME NEW j \in N2
               PROVE  g[j] \in P2 /\ c[g[j]].packet = V[j].packet
      OBVIOUS
  <2>1. CASE j \in N
      BY <1>5, <1>6, <1>8, <1>10, <2>1
  <2>2. CASE j = n /\ p \notin D
    <3>1. V[n] = b /\ c[m] = Data(p)
        BY <1>1 DEF n, m
    <3> QED
        BY <1>2, <1>5, <1>10, <2>2, <3>1
  <2> QED
      BY <1>4, <2>1, <2>2
<1>13. Rising(g, N2)
  <2> SUFFICES ASSUME NEW i \in N2, NEW j \in N2, i < j
               PROVE  g[i] < g[j]
      BY DEF Rising
  <2>0. N \subseteq Nat /\ n \in Nat
      BY <1>1, <1>3 DEF n
  <2>1. CASE j \in N
    <3>0. j < n /\ j \in Nat /\ n \in Nat
        BY <1>6, <2>0, <2>1
    <3>1. i \in N
      <4>1. i # n
          BY <3>0
      <4> QED
          BY <1>4, <4>1
    <3> QED
        BY <1>8, <1>10, <2>1, <3>1 DEF Rising
  <2>2. CASE j = n
    <3>1. i \in N
        BY <1>4, <2>0, <2>2
    <3> QED
        BY <1>6, <1>8, <1>10, <2>2, <3>1
  <2> QED
      BY <1>4, <2>1, <2>2
<1>14. \A i \in G, j \in N2 : f[i] < g[j]
    BY <1>4, <1>6, <1>8, <1>10
<1>15. \A k \in P2 : (\E i \in G : f[i] = k) \/ (\E j \in N2 : g[j] = k)
  <2> SUFFICES ASSUME NEW k \in P2
               PROVE  (\E i \in G : f[i] = k) \/ (\E j \in N2 : g[j] = k)
      OBVIOUS
  <2>1. CASE k \in P
    <3>1. (\E i \in G : f[i] = k) \/ (\E j \in N : g0[j] = k)
        BY <1>8, <2>1
    <3> QED
        BY <1>4, <1>10, <3>1
  <2>2. CASE k = m /\ p \notin D
      BY <1>4, <1>10, <2>2
  <2> QED
      BY <1>5, <2>1, <2>2
<1>16. Rising(f, G)
    BY <1>8
<1>17. OrderedBy(f, g, r, V, c, s, D)
    BY <1>11, <1>12, <1>13, <1>14, <1>15, <1>16, Zenon DEF OrderedBy, G, N2, P2
<1> QED
    BY <1>17 DEF InOrder, V, c

(* A buffer leaves the link that is no data of the signal, or is data of a *)
(* packet that had to wait.                                                *)
LEMMA OrderTail ==
    ASSUME NEW r, NEW U \in Seq(Buffers), U # <<>>, NEW a, NEW s, NEW D, InOrder(r, U, a, s, D),
           1 \notin Nears(U, s, D)
    PROVE  InOrder(r, Tail(U), a, s, D)
<1> DEFINE V == Tail(U)
           G == Gets(r, s, D)
           N == Nears(U, s, D)
           P == Puts(a, D)
           N2 == Nears(V, s, D)
<1>1. /\ Len(U) \in Nat \ {0} /\ Len(V) = Len(U) - 1
      /\ \A i \in 1 .. Len(U) - 1 : V[i] = U[i + 1]
    BY HeadTailProperties, LenProperties, EmptySeq
<1> HIDE DEF V
<1>2. \A i : i \in N2 <=> i \in 1 .. Len(U) - 1 /\ i + 1 \in N
    BY <1>1 DEF Nears
<1>3. N \subseteq 2 .. Len(U)
    BY <1>1 DEF Nears
<1>4. PICK f, g0 : OrderedBy(f, g0, r, U, a, s, D)
    BY DEF InOrder
<1> DEFINE g == [i \in 1 .. Len(U) - 1 |-> g0[i + 1]]
<1>5. /\ \A i \in G : f[i] \in P /\ a[f[i]].packet = r[i].packet
      /\ \A j \in N : g0[j] \in P /\ a[g0[j]].packet = U[j].packet
      /\ Rising(f, G) /\ Rising(g0, N)
      /\ \A i \in G, j \in N : f[i] < g0[j]
      /\ \A k \in P : (\E i \in G : f[i] = k) \/ (\E j \in N : g0[j] = k)
    BY <1>4, Zenon DEF OrderedBy
<1> HIDE DEF G, N, P, N2
<1>6. \A i \in N2 : g[i] = g0[i + 1] /\ i + 1 \in N /\ V[i] = U[i + 1] /\ i \in Int
    BY <1>1, <1>2
<1> HIDE DEF g
<1>7. \A j \in N2 : g[j] \in P /\ a[g[j]].packet = V[j].packet
    BY <1>5, <1>6
<1>8. Rising(g, N2)
  <2> SUFFICES ASSUME NEW i \in N2, NEW j \in N2, i < j
               PROVE  g[i] < g[j]
      BY DEF Rising
  <2>1. i + 1 < j + 1 /\ i + 1 \in N /\ j + 1 \in N
      BY <1>6
  <2>2. g0[i + 1] < g0[j + 1]
      BY <1>5, <2>1 DEF Rising
  <2> QED
      BY <1>6, <2>2
<1>9. \A i \in G, j \in N2 : f[i] < g[j]
    BY <1>5, <1>6
<1>10. \A k \in P : (\E i \in G : f[i] = k) \/ (\E j \in N2 : g[j] = k)
  <2> SUFFICES ASSUME NEW j \in N
               PROVE  \E i \in N2 : g[i] = g0[j]
      BY <1>5
  <2>1. j - 1 \in 1 .. Len(U) - 1 /\ (j - 1) + 1 = j
      BY <1>1, <1>3
  <2>2. j - 1 \in N2
      BY <1>2, <2>1
  <2> QED
      BY <1>6, <2>1, <2>2
<1>11. OrderedBy(f, g, r, V, a, s, D)
    BY <1>5, <1>7, <1>8, <1>9, <1>10, Zenon DEF OrderedBy, G, N2, P
<1> QED
    BY <1>11 DEF InOrder, V

(* A data buffer leaves the link and its packet is received.               *)
LEMMA OrderTake ==
    ASSUME NEW r \in Seq(Items), NEW U \in Seq(Buffers), U # <<>>, NEW a, NEW s, NEW D, InOrder(r, U, a, s, D),
           1 \in Nears(U, s, D), NEW x \in DataItems(Packets), x.signal = s, x.packet = U[1].packet
    PROVE  InOrder(Append(r, x), Tail(U), a, s, D)
<1> DEFINE V == Tail(U)
           r2 == Append(r, x)
           n == Len(r) + 1
           G == Gets(r, s, D)
           G2 == Gets(r2, s, D)
           N == Nears(U, s, D)
           P == Puts(a, D)
           N2 == Nears(V, s, D)
<1>1. /\ Len(U) \in Nat \ {0} /\ Len(V) = Len(U) - 1
      /\ \A i \in 1 .. Len(U) - 1 : V[i] = U[i + 1]
    BY HeadTailProperties, LenProperties, EmptySeq
<1>2. Len(r) \in Nat /\ Len(r2) = n /\ r2[n] = x /\ \A i \in 1 .. Len(r) : r2[i] = r[i]
  <2>1. x \in Items
      BY DEF Items
  <2> QED
      BY <2>1, AppendProperties, LenProperties
<1> HIDE DEF V, r2
<1>3. \A i : i \in N2 <=> i \in 1 .. Len(U) - 1 /\ i + 1 \in N
    BY <1>1 DEF Nears
<1>4. N \subseteq 1 .. Len(U) /\ G \subseteq 1 .. Len(r)
    BY <1>1 DEF Nears, Gets
<1>5. x.kind = "data" /\ x.packet \notin D
    BY DEF Nears, DataItems
<1>6. \A i : i \in G2 <=> i \in G \/ i = n
    BY <1>2, <1>5 DEF Gets
<1>7. PICK f0, g0 : OrderedBy(f0, g0, r, U, a, s, D)
    BY DEF InOrder
<1> DEFINE g == [i \in 1 .. Len(U) - 1 |-> g0[i + 1]]
           f == [i \in G \cup {n} |-> IF i = n THEN g0[1] ELSE f0[i]]
<1>8. /\ \A i \in G : f0[i] \in P /\ a[f0[i]].packet = r[i].packet
      /\ \A j \in N : g0[j] \in P /\ a[g0[j]].packet = U[j].packet
      /\ Rising(f0, G) /\ Rising(g0, N)
      /\ \A i \in G, j \in N : f0[i] < g0[j]
      /\ \A k \in P : (\E i \in G : f0[i] = k) \/ (\E j \in N : g0[j] = k)
    BY <1>7, Zenon DEF OrderedBy
<1>9. 1 \in N /\ n \notin G /\ G \subseteq Nat /\ n \in Nat /\ \A i \in G : i < n
    BY <1>2, <1>4
<1>10. r2[n] = x /\ \A i \in G : r2[i] = r[i]
    BY <1>2, <1>4
<1> HIDE DEF G, N, P, N2, G2, n
<1>11. \A i \in N2 : g[i] = g0[i + 1] /\ i + 1 \in N /\ V[i] = U[i + 1] /\ i \in Int /\ 1 < i + 1
    BY <1>1, <1>3
<1>12. f[n] = g0[1] /\ \A i \in G : f[i] = f0[i]
    BY <1>9
<1> HIDE DEF g, f
<1>13. \A j \in N2 : g[j] \in P /\ a[g[j]].packet = V[j].packet
    BY <1>8, <1>11
<1>14. \A i \in G2 : f[i] \in P /\ a[f[i]].packet = r2[i].packet
  <2>1. f[n] \in P /\ a[f[n]].packet = r2[n].packet
      BY <1>8, <1>9, <1>10, <1>12
  <2>2. \A i \in G : f[i] \in P /\ a[f[i]].packet = r2[i].packet
      BY <1>8, <1>10, <1>12
  <2> QED
      BY <1>6, <2>1, <2>2
<1>15. Rising(g, N2)
  <2> SUFFICES ASSUME NEW i \in N2, NEW j \in N2, i < j
               PROVE  g[i] < g[j]
      BY DEF Rising
  <2>1. i + 1 < j + 1 /\ i + 1 \in N /\ j + 1 \in N
      BY <1>11
  <2>2. g0[i + 1] < g0[j + 1]
      BY <1>8, <2>1 DEF Rising
  <2> QED
      BY <1>11, <2>2
<1>16. Rising(f, G2)
  <2> SUFFICES ASSUME NEW i \in G2, NEW j \in G2, i < j
               PROVE  f[i] < f[j]
      BY DEF Rising
  <2>1. i \in G
    <3>0. n \in Nat /\ \A k \in G : k \in Nat /\ k <= n
        BY <1>9
    <3>1. j \in Nat /\ j <= n /\ n \in Nat
        BY <1>6, <3>0
    <3>2. i # n
        BY <3>1
    <3> QED
        BY <1>6, <3>2
  <2>2. CASE j \in G
      BY <1>8, <1>12, <2>1, <2>2 DEF Rising
  <2>3. CASE j = n
      BY <1>8, <1>9, <1>12, <2>1, <2>3
  <2> QED
      BY <1>6, <2>2, <2>3
<1>17. \A i \in G2, j \in N2 : f[i] < g[j]
  <2> SUFFICES ASSUME NEW i \in G2, NEW j \in N2
               PROVE  f[i] < g[j]
      OBVIOUS
  <2>1. j + 1 \in N /\ 1 < j + 1 /\ g[j] = g0[j + 1]
      BY <1>11
  <2>2. CASE i \in G
      BY <1>8, <1>12, <2>1, <2>2
  <2>3. CASE i = n
      BY <1>8, <1>9, <1>12, <2>1, <2>3 DEF Rising
  <2> QED
      BY <1>6, <2>2, <2>3
<1>18. \A k \in P : (\E i \in G2 : f[i] = k) \/ (\E j \in N2 : g[j] = k)
  <2>1. \A i \in G : i \in G2 /\ f[i] = f0[i]
      BY <1>6, <1>12
  <2>2. ASSUME NEW j \in N
        PROVE  (\E i \in G2 : f[i] = g0[j]) \/ (\E i \in N2 : g[i] = g0[j])
    <3>1. CASE j = 1
        BY <1>6, <1>12, <3>1
    <3>2. CASE j # 1
      <4>1. j - 1 \in 1 .. Len(U) - 1 /\ (j - 1) + 1 = j
          BY <1>1, <1>4, <3>2
      <4>2. j - 1 \in N2
          BY <1>3, <4>1
      <4> QED
          BY <1>11, <4>1, <4>2
    <3> QED
        BY <3>1, <3>2
  <2> QED
      BY <1>8, <2>1, <2>2
<1>19. OrderedBy(f, g, r2, V, a, s, D)
    BY <1>13, <1>14, <1>15, <1>16, <1>17, <1>18, Zenon DEF OrderedBy, G2, N2, P
<1> QED
    BY <1>19 DEF InOrder, V, r2

(* A buffer that is no data of the signal joins the link.                  *)
LEMMA OrderOther ==
    ASSUME NEW r, NEW U \in Seq(Buffers), NEW a, NEW s, NEW D, InOrder(r, U, a, s, D),
           NEW b \in Buffers, b.signal # s \/ b.packet \notin Packets
    PROVE  InOrder(r, Append(U, b), a, s, D)
<1> DEFINE V == Append(U, b)
<1>1. /\ Len(U) \in Nat /\ Len(V) = Len(U) + 1
      /\ V[Len(U) + 1] = b /\ \A i \in 1 .. Len(U) : V[i] = U[i]
    BY AppendProperties, LenProperties
<1> HIDE DEF V
<1>2. \A i : i \in Nears(V, s, D) <=> i \in Nears(U, s, D)
    BY <1>1 DEF Nears
<1>3. \A i \in Nears(U, s, D) : U[i].packet \notin D /\ V[i] = U[i]
    BY <1>1 DEF Nears
<1>4. \A i \in Gets(r, s, D) : r[i].packet \notin D
    BY DEF Gets
<1>5. \A i \in Puts(a, D) : a[i].packet \notin D
    BY DEF Puts
<1>6. InOrder(r, V, a, s, D)
    BY <1>2, <1>3, <1>4, <1>5, OrderLess
<1> QED
    BY <1>6 DEF V

(* An event is added for the signal.                                       *)
LEMMA OrderEvent ==
    ASSUME NEW r, NEW U, NEW a \in Seq(Messages), NEW s, NEW D, InOrder(r, U, a, s, D),
           NEW e \in Messages, e.kind # "data"
    PROVE  InOrder(r, U, Append(a, e), s, D)
<1> DEFINE c == Append(a, e)
<1>1. /\ Len(a) \in Nat /\ Len(c) = Len(a) + 1
      /\ c[Len(a) + 1] = e /\ \A i \in 1 .. Len(a) : c[i] = a[i]
    BY AppendProperties, LenProperties
<1> HIDE DEF c
<1>2. \A i : i \in Puts(c, D) <=> i \in Puts(a, D)
    BY <1>1 DEF Puts
<1>3. \A i \in Puts(a, D) : a[i].packet \notin D /\ c[i] = a[i]
    BY <1>1 DEF Puts
<1>4. \A i \in Gets(r, s, D) : r[i].packet \notin D
    BY DEF Gets
<1>5. \A i \in Nears(U, s, D) : U[i].packet \notin D
    BY DEF Nears
<1>6. InOrder(r, U, c, s, D)
    BY <1>2, <1>3, <1>4, <1>5, OrderLess
<1> QED
    BY <1>6 DEF c

(* More packets turn out to have waited.                                   *)
LEMMA OrderDelay ==
    ASSUME NEW r, NEW U, NEW a, NEW s, NEW D, InOrder(r, U, a, s, D), NEW E, D \subseteq E
    PROVE  InOrder(r, U, a, s, E)
<1>1. \A i : i \in Gets(r, s, E) <=> i \in Gets(r, s, D) /\ r[i].packet \notin E
    BY DEF Gets
<1>2. \A i : i \in Nears(U, s, E) <=> i \in Nears(U, s, D) /\ U[i].packet \notin E
    BY DEF Nears
<1>3. \A i : i \in Puts(a, E) <=> i \in Puts(a, D) /\ a[i].packet \notin E
    BY DEF Puts
<1> QED
    BY <1>1, <1>2, <1>3, OrderLess

(* Items that are no data of the signal, or data of packets that had to    *)
(* wait, join the client's queue.                                          *)
LEMMA OrderItems ==
    ASSUME NEW r \in Seq(Items), NEW U, NEW a, NEW s, NEW D, InOrder(r, U, a, s, D),
           NEW q \in Seq(Items),
           \A i \in 1 .. Len(q) : q[i].kind = "data" => q[i].signal # s \/ q[i].packet \in D
    PROVE  InOrder(r \o q, U, a, s, D)
<1> DEFINE r2 == r \o q
<1>1. /\ Len(r) \in Nat /\ Len(q) \in Nat /\ Len(r2) = Len(r) + Len(q)
      /\ \A i \in 1 .. Len(r) + Len(q) : r2[i] = IF i <= Len(r) THEN r[i] ELSE q[i - Len(r)]
    BY ConcatProperties, LenProperties
<1> HIDE DEF r2
<1>2. \A i \in 1 .. Len(r) : i \in 1 .. Len(r2) /\ r2[i] = r[i]
    BY <1>1
<1>3. ASSUME NEW i \in 1 .. Len(r2), i \notin 1 .. Len(r)
      PROVE  i \notin Gets(r2, s, D)
  <2>1. i - Len(r) \in 1 .. Len(q) /\ r2[i] = q[i - Len(r)]
      BY <1>1, <1>3
  <2> QED
      BY <2>1 DEF Gets
<1>4. \A i : i \in Gets(r2, s, D) <=> i \in Gets(r, s, D)
    BY <1>2, <1>3 DEF Gets
<1>5. \A i \in Gets(r, s, D) : r[i].packet \notin D /\ r2[i] = r[i]
    BY <1>2 DEF Gets
<1>6. \A i \in Puts(a, D) : a[i].packet \notin D
    BY DEF Puts
<1>7. \A i \in Nears(U, s, D) : U[i].packet \notin D
    BY DEF Nears
<1>8. InOrder(r2, U, a, s, D)
    BY <1>4, <1>5, <1>6, <1>7, OrderLess
<1> QED
    BY <1>8 DEF r2

WaitersDelayed == \A d \in Packets : \A i \in DOMAIN waiting[d] : waiting[d][i].packet \in delayed
OrderInv ==
    /\ WaitersDelayed
    /\ \A s \in Signals : InOrder(received, Underway, addedTo[s], s, delayed)

(* addDaqPacket of the message e for the signal s, which queues b.         *)
LEMMA AddOrder ==
    ASSUME StreamInv, LossInv, OrderInv, NEW s \in Signals, NEW e \in Messages,
           NEW b \in Buffers, NEW ready \in SUBSET Packets, IsFiniteSet(ready),
           Queued(out.queue, b, ready, out'.queue),
           addedTo' = [addedTo EXCEPT ![s] = Append(@, e)],
           UNCHANGED <<wire, received, waiting, delayed>>,
           \/ e.kind # "data" /\ b.packet \notin Packets
           \/ b.signal = s /\ b.packet \in Packets /\ e = Data(b.packet)
    PROVE  OrderInv'
<1> DEFINE r == out'.queue
           U == Underway
<1>1. wire \in Seq(Buffers) /\ out.queue \in Seq(Buffers) /\ addedTo \in [Signals -> Seq(Messages)]
    BY DEF StreamInv, StreamTypes, LossInv
<1>2. Underway' = wire \o r /\ U = wire \o out.queue /\ U \in Seq(Buffers)
    BY <1>1, ConcatProperties DEF Underway
<1>3. PICK c \in Buffers :
        /\ SameButGroup(c, b)
        /\ IF ReleaseDue(ready)
           THEN \E x \in Buffers : SameButGroup(x, ReleaseBuffer(ready)) /\ r = Append(Append(out.queue, c), x)
           ELSE r = Append(out.queue, c)
    BY DEF Queued
<1>4. c.packet = b.packet /\ c.signal = b.signal
    BY <1>3 DEF SameButGroup
<1>5. wire \o Append(out.queue, c) = Append(U, c)
    BY <1>1, <1>2, ConcatAppend
<1> HIDE DEF r, U
<1>6. Append(U, c) \in Seq(Buffers) /\ Append(out.queue, c) \in Seq(Buffers)
    BY <1>1, <1>2, AppendProperties
<1>7. ASSUME NEW t \in Signals
      PROVE  InOrder(received, Append(U, c), addedTo'[t], t, delayed)
  <2>1. InOrder(received, U, addedTo[t], t, delayed) /\ addedTo[t] \in Seq(Messages)
      BY <1>1 DEF OrderInv, U
  <2>2. CASE t # s
    <3>1. addedTo'[t] = addedTo[t]
        BY <1>1, <2>2
    <3>2. c.signal # t \/ c.packet \notin Packets
        BY <1>4, <2>2
    <3> QED
        BY <1>2, <2>1, <3>1, <3>2, OrderOther
  <2>3. CASE t = s /\ e.kind # "data" /\ b.packet \notin Packets
    <3>1. addedTo'[t] = Append(addedTo[t], e)
        BY <1>1, <2>3
    <3>2. InOrder(received, U, Append(addedTo[t], e), t, delayed)
        BY <2>1, <2>3, OrderEvent
    <3>3. c.packet \notin Packets
        BY <1>4, <2>3
    <3> QED
        BY <1>2, <3>1, <3>2, <3>3, OrderOther
  <2>4. CASE t = s /\ b.signal = s /\ b.packet \in Packets /\ e = Data(b.packet)
    <3>1. addedTo'[t] = Append(addedTo[t], Data(c.packet))
        BY <1>1, <1>4, <2>4
    <3>2. c.signal = t /\ c.packet \in Packets
        BY <1>4, <2>4
    <3> QED
        BY <1>2, <2>1, <3>1, <3>2, OrderAdd
  <2> QED
      BY <2>2, <2>3, <2>4
<1>8. ASSUME NEW t \in Signals
      PROVE  InOrder(received, Underway', addedTo'[t], t, delayed)
  <2>1. CASE ReleaseDue(ready)
    <3>1. PICK x \in Buffers : SameButGroup(x, ReleaseBuffer(ready)) /\ r = Append(Append(out.queue, c), x)
        BY <1>3, <2>1
    <3>2. x.packet \notin Packets
      <4>1. ReleaseBuffer(ready).packet = NoPacket
          BY ReleaseMade
      <4> QED
          BY <3>1, <4>1, PacketStreamingAssumption DEF SameButGroup
    <3>3. Underway' = Append(Append(U, c), x)
      <4> DEFINE z == Append(out.queue, c)
      <4>1. z \in Seq(Buffers) /\ wire \o z = Append(U, c) /\ r = Append(z, x)
          BY <1>5, <1>6, <3>1
      <4> HIDE DEF z
      <4>2. wire \o Append(z, x) = Append(wire \o z, x)
          BY <1>1, <4>1, ConcatAppend
      <4> QED
          BY <1>2, <4>1, <4>2
    <3> DEFINE V == Append(U, c)
    <3>4. V \in Seq(Buffers) /\ InOrder(received, V, addedTo'[t], t, delayed)
        BY <1>6, <1>7
    <3> HIDE DEF V
    <3>5. InOrder(received, Append(V, x), addedTo'[t], t, delayed)
        BY <3>2, <3>4, OrderOther
    <3> QED
        BY <3>3, <3>5 DEF V
  <2>2. CASE ~ReleaseDue(ready)
    <3>1. Underway' = Append(U, c)
        BY <1>2, <1>3, <1>5, <2>2
    <3> QED
        BY <1>7, <3>1
  <2> QED
      BY <2>1, <2>2
<1>9. WaitersDelayed'
    BY DEF OrderInv, WaitersDelayed
<1> QED
    BY <1>8, <1>9 DEF OrderInv

(* addDaqPacket of an event.                                               *)
LEMMA AddEventOrder ==
    ASSUME StreamInv, LossInv, OrderInv, NEW s \in Signals, AddEventPacket(s)
    PROVE  OrderInv'
<1> DEFINE e == Head(pending[s])
           b == EventBuffer(s, e)
<1>1. StreamTypes /\ GroupsOK(out)
    BY DEF StreamInv
<1>2. /\ pending[s] # <<>> /\ e.kind = "event"
      /\ addedTo' = [addedTo EXCEPT ![s] = Append(@, e)]
      /\ UNCHANGED <<wire, received, waiting, delayed>>
    BY DEF AddEventPacket, clientVars
<1>3. Queued(out.queue, b, readyForRelease, out'.queue)
    BY <1>1, AddEventTypes
<1>4. b \in Buffers /\ Shaped(b) /\ b.type = "event" /\ e \in Messages
    BY <1>1, <1>2, FirstMessage, BuffersMade
<1>5. readyForRelease \in SUBSET Packets /\ IsFiniteSet(readyForRelease)
    BY <1>1 DEF StreamTypes
<1>6. b.packet \notin Packets
    BY <1>4, PacketStreamingAssumption DEF Shaped
<1> HIDE DEF b, e
<1> QED
    BY <1>2, <1>3, <1>4, <1>5, <1>6, AddOrder

(* What is added when a packet is given to addDaqPacket.                   *)
LEMMA AddedIs ==
    ASSUME StreamTypes, GroupsOK(out), NEW s \in Signals, NEW moved \in BOOLEAN, AddDataPacket(s, moved)
    PROVE  LET p == Head(pending[s]).packet
               b == Added(s, moved)
               ready == readyForRelease \cup Gone(s, moved)
           IN /\ p \in Packets /\ Data(p) \in Messages
              /\ b \in Buffers /\ Shaped(b) /\ b.packet = p /\ b.signal = s
              /\ b.type \in {"data", "alreadySent"}
              /\ ready \in SUBSET Packets /\ IsFiniteSet(ready)
              /\ Queued(out.queue, b, ready, out'.queue)
<1> DEFINE p0 == Head(pending[s]).packet
           m == Mark(s, moved)
           b == Added(s, moved)
           S == SentNow(s, moved)
           gone == Gone(s, moved)
           ready == readyForRelease \cup gone
<1>1. Queued(out.queue, b, ready, out'.queue) /\ gone \subseteq S /\ p0 \in Packets
    BY AddDataTypes
<1>2. /\ readyForRelease \subseteq Packets /\ IsFiniteSet(readyForRelease) /\ IsFiniteSet(sent)
      /\ sent \subseteq Packets
    BY DEF StreamTypes
<1>3. m \in BOOLEAN
    BY DEF Mark, OnlyReference, HeldDirectly
<1>4. b \in Buffers /\ Shaped(b) /\ b.packet = p0 /\ b.signal = s /\ b.type \in {"data", "alreadySent"}
  <2> HIDE DEF m
  <2>1. b = IF p0 \in sent THEN AlreadySentBuffer(s, p0, m) ELSE DataBuffer(s, p0, m)
      BY DEF Added, m
  <2> QED
      BY <1>1, <1>3, <2>1, BuffersMade
<1>5. S \subseteq sent \cup {p0}
    BY DEF SentNow, SentAfter
<1>6. Data(p0) \in Messages
    BY <1>1 DEF Messages
<1> HIDE DEF p0, m, b, S, gone
<1>7. ready \in SUBSET Packets /\ IsFiniteSet(ready)
  <2>1. IsFiniteSet(sent \cup {p0})
      BY <1>2, FS_AddElement
  <2>2. IsFiniteSet(gone)
      BY <1>1, <1>5, <2>1, FS_Subset
  <2>3. IsFiniteSet(ready)
      BY <1>2, <2>2, FS_Union
  <2> QED
      BY <1>1, <1>2, <1>5, <2>3
<1> QED
    BY <1>1, <1>4, <1>6, <1>7 DEF p0, b, gone

(* addDaqPacket of a data packet.                                          *)
LEMMA AddDataOrder ==
    ASSUME StreamInv, LossInv, OrderInv, NEW s \in Signals, NEW moved \in BOOLEAN, AddDataPacket(s, moved)
    PROVE  OrderInv'
<1> DEFINE p == Head(pending[s]).packet
           b == Added(s, moved)
           ready == readyForRelease \cup Gone(s, moved)
<1>1. StreamTypes /\ GroupsOK(out)
    BY DEF StreamInv
<1>2. /\ addedTo' = [addedTo EXCEPT ![s] = Append(@, Data(p))]
      /\ UNCHANGED <<wire, received, waiting, delayed>>
    BY DEF AddDataPacket, clientVars
<1>3. /\ p \in Packets /\ Data(p) \in Messages /\ b \in Buffers /\ b.packet = p /\ b.signal = s
      /\ ready \in SUBSET Packets /\ IsFiniteSet(ready) /\ Queued(out.queue, b, ready, out'.queue)
    BY <1>1, AddedIs
<1> HIDE DEF p, b, ready
<1> QED
    BY <1>2, <1>3, AddOrder

(* What a step of the client with the buffer b puts into its queue: the    *)
(* packet of the buffer, unless it has to wait, and then only packets that *)
(* had to.                                                                 *)
HandsOut(b, x) ==
    /\ x \in DataItems(Packets) /\ x.signal = b.signal /\ x.packet = b.packet
    /\ \/ b.type = "data" /\ x.descriptor = known[b.signal].value
       \/ b.packet \in DOMAIN referencedPackets /\ x.descriptor = referencedPackets[b.packet]
Arrived(b, q) ==
    /\ q \in Seq(Items)
    /\ \A i \in 1 .. Len(q) : q[i].kind = "data" => q[i].packet \in delayed'
    /\ \/ /\ b.packet \notin Packets \/ b.packet \in delayed'
          /\ received' = received \o q
       \/ \E x : HandsOut(b, x) /\ received' = Append(received, x) \o q
Passes(b) ==
    /\ delayed \subseteq delayed' /\ WaitersDelayed'
    /\ \A p \in DOMAIN referencedPackets' :
           \/ p \in delayed'
           \/ p \in DOMAIN referencedPackets /\ referencedPackets'[p] = referencedPackets[p]
           \/ b.type = "data" /\ p = b.packet /\ referencedPackets'[p] = known[b.signal].value
    /\ \E q : Arrived(b, q)

(* Nothing is put into the queue.                                          *)
LEMMA NothingArrives ==
    ASSUME ReceivedTypes, UNCHANGED received, NEW b, b.packet \notin Packets \/ b.packet \in delayed'
    PROVE  \E q : Arrived(b, q)
<1>1. received' = received \o <<>> /\ <<>> \in Seq(Items) /\ Len(<<>>) = 0
    BY ConcatEmptySeq DEF ReceivedTypes
<1>2. Arrived(b, <<>>)
    BY <1>1 DEF Arrived
<1> QED
    BY <1>2

(* addEventPacketBuffer.                                                   *)
LEMMA EventPasses ==
    ASSUME ReceivedTypes, WaitersDelayed, NEW b \in Buffers, Shaped(b), AddEventPacketBuffer(b)
    PROVE  Passes(b)
<1> DEFINE x == ReceivedEvent(b.signal, b.event)
<1>1. /\ UNCHANGED <<referencedPackets, waiting, delayed>> /\ b.type = "event" /\ b.signal \in Signals
      /\ received' = IF Forwarded(b.signal, b.event) THEN Append(received, x) ELSE received
    BY DEF AddEventPacketBuffer, Shaped
<1>2. b.packet \notin Packets
    BY <1>1, PacketStreamingAssumption DEF Shaped
<1>3. x \in Items /\ x.kind = "event" /\ received \in Seq(Items)
    BY <1>1 DEF Items, EventItems, ReceivedEvent, Buffers, Told, ReceivedTypes
<1> HIDE DEF x
<1>4. \E q : Arrived(b, q)
  <2>1. CASE received' = received
      BY <1>2, <2>1, NothingArrives
  <2>2. CASE received' = Append(received, x)
    <3>1. received' = received \o <<x>>
        BY <1>3, <2>2, AppendIsConcat
    <3>2. <<x>> \in Seq(Items) /\ \A i \in 1 .. Len(<<x>>) : <<x>>[i].kind # "data"
        BY <1>3
    <3>3. Arrived(b, <<x>>)
        BY <1>2, <3>1, <3>2 DEF Arrived
    <3> QED
        BY <3>3
  <2> QED
      BY <1>1, <2>1, <2>2
<1>5. WaitersDelayed'
    BY <1>1 DEF WaitersDelayed
<1> QED
    BY <1>1, <1>4, <1>5 DEF Passes

(* addReleasePacketBuffer.                                                 *)
LEMMA ReleasePasses ==
    ASSUME ClientTypes, ReceivedTypes, WaitersDelayed, NEW b \in Buffers, Shaped(b), AddReleasePacketBuffer(b)
    PROVE  Passes(b)
<1>1. UNCHANGED <<received, delayed>> /\ b.type = "release"
    BY DEF AddReleasePacketBuffer, Throw
<1>2. \E q : Arrived(b, q)
  <2>1. b.packet \notin Packets
      BY <1>1, PacketStreamingAssumption DEF Shaped
  <2> QED
      BY <1>1, <2>1, NothingArrives
<1>3. CASE UNCHANGED <<referencedPackets, waiting>>
    BY <1>1, <1>2, <1>3 DEF Passes, WaitersDelayed
<1>4. CASE /\ referencedPackets' = Forget(referencedPackets, b.ids)
           /\ waiting' = [d \in Packets |-> [i \in DOMAIN waiting[d] |->
                   IF waiting[d][i].packet \in b.ids \ DOMAIN referencedPackets
                   THEN [waiting[d][i] EXCEPT !.canRelease = ~@] ELSE waiting[d][i]]]
  <2>1. \A p \in DOMAIN referencedPackets' :
            p \in DOMAIN referencedPackets /\ referencedPackets'[p] = referencedPackets[p]
      BY <1>4 DEF Forget
  <2>2. ASSUME NEW d \in Packets, NEW i \in DOMAIN waiting'[d]
        PROVE  waiting'[d][i].packet \in delayed
    <3>1. i \in DOMAIN waiting[d]
        BY <1>4, <2>2
    <3>2. waiting'[d][i] = IF waiting[d][i].packet \in b.ids \ DOMAIN referencedPackets
                           THEN [waiting[d][i] EXCEPT !.canRelease = ~@] ELSE waiting[d][i]
        BY <1>4, <3>1
    <3>3. waiting[d][i] \in WaitEntries
        BY <3>1, WaitingTypes
    <3>4. waiting'[d][i].packet = waiting[d][i].packet
      <4> DEFINE w == waiting[d][i]
      <4>1. w \in WaitEntries
          BY <3>3
      <4> HIDE DEF w
      <4>2. [w EXCEPT !.canRelease = ~@].packet = w.packet
          BY <4>1 DEF WaitEntries
      <4> QED
          BY <3>2, <4>2 DEF w
    <3> QED
        BY <3>1, <3>4 DEF WaitersDelayed
  <2>3. WaitersDelayed'
      BY <1>1, <2>2 DEF WaitersDelayed
  <2> QED
      BY <1>1, <1>2, <2>1, <2>3 DEF Passes
<1> QED
    BY <1>3, <1>4 DEF AddReleasePacketBuffer, Throw

(* addDataPacketBuffer of a packet that waits.                             *)
LEMMA WaitPasses ==
    ASSUME ClientTypes, ReceivedTypes, WaitersDelayed, NEW b \in Buffers, Shaped(b), b.type = "data",
           DomainOf[b.packet] # NoPacket,
           waiting' = [waiting EXCEPT ![DomainOf[b.packet]] = Append(@, Wait(b))],
           delayed' = delayed \cup {b.packet}, UNCHANGED <<referencedPackets, received>>
    PROVE  Passes(b)
<1> DEFINE d == DomainOf[b.packet]
           w == Wait(b)
           ws == waiting[d]
<1>1. b.packet \in Packets /\ b.signal \in Signals
    BY DEF Shaped
<1>2. d \in Packets
    BY <1>1, PacketStreamingAssumption
<1>3. w \in WaitEntries /\ w.packet = b.packet
    BY <1>1 DEF Wait, WaitEntries, Buffers
<1>4. ws \in Seq(WaitEntries) /\ Len(ws) \in Nat /\ DOMAIN ws = 1 .. Len(ws)
    BY <1>2, WaitingTypes
<1>5. waiting \in [Packets -> Seq(WaitEntries)] /\ waiting' = [waiting EXCEPT ![d] = Append(ws, w)]
    BY DEF ClientTypes
<1> HIDE DEF w, d
<1>6. /\ DOMAIN Append(ws, w) = 1 .. Len(ws) + 1 /\ Append(ws, w)[Len(ws) + 1] = w
      /\ \A i \in 1 .. Len(ws) : Append(ws, w)[i] = ws[i]
  <2> HIDE DEF ws
  <2>1. Append(ws, w) \in Seq(WaitEntries) /\ Len(Append(ws, w)) = Len(ws) + 1
      BY <1>3, <1>4, AppendProperties
  <2> QED
      BY <1>3, <1>4, <2>1, AppendProperties, LenProperties
<1>7. ASSUME NEW c \in Packets, NEW i \in DOMAIN waiting'[c]
      PROVE  waiting'[c][i].packet \in delayed'
  <2>1. CASE c # d
    <3>1. waiting'[c] = waiting[c]
        BY <1>5, <2>1
    <3>2. i \in DOMAIN waiting[c]
        BY <1>7, <3>1
    <3>3. waiting[c][i].packet \in delayed
        BY <3>2 DEF WaitersDelayed
    <3>4. delayed \subseteq delayed'
        OBVIOUS
    <3> QED
        BY <3>1, <3>3, <3>4, Zenon
  <2>2. CASE c = d
    <3>1. waiting'[c] = Append(ws, w)
        BY <1>2, <1>5, <2>2
    <3>2. i \in 1 .. Len(ws) \/ i = Len(ws) + 1
        BY <1>4, <1>6, <1>7, <3>1
    <3>3. CASE i = Len(ws) + 1
        BY <1>3, <1>6, <3>1, <3>3
    <3>4. CASE i \in 1 .. Len(ws)
      <4>1. ws[i].packet \in delayed
          BY <1>2, <1>4, <3>4 DEF WaitersDelayed
      <4> QED
          BY <1>6, <3>1, <3>4, <4>1
    <3> QED
        BY <3>2, <3>3, <3>4
  <2> QED
      BY <2>1, <2>2
<1>8. WaitersDelayed'
    BY <1>7 DEF WaitersDelayed
<1>9. \E q : Arrived(b, q)
    BY NothingArrives
<1> QED
    BY <1>8, <1>9 DEF Passes

(* addDataPacketBuffer of a packet that need not wait.                     *)
LEMMA ProcessPasses ==
    ASSUME ClientTypes, ReceivedTypes, WaitersDelayed, NEW b \in Buffers, Shaped(b), b.type = "data",
           ProcessData(b), UNCHANGED delayed
    PROVE  Passes(b)
<1> DEFINE d == b.packet
           v == known[b.signal].value
           x == Received(b.signal, b.packet, v)
           ws == waiting[d]
<1>1. b.packet \in Packets /\ b.signal \in Signals
    BY DEF Shaped
<1>2. HandsOut(b, x)
    BY <1>1 DEF HandsOut, DataItems, Received, ClientTypes
<1>3. WaitingFor(d) \subseteq delayed
    BY <1>1 DEF WaitingFor, WaitersDelayed
<1>4. PICK q \in Seq(DataItems(Packets)) :
          received' = Append(received, x) \o q /\ q \in Seq(DataItems(WaitingFor(d)))
    BY <1>1, ProcessReceived
<1>5. Arrived(b, q)
  <2>1. q \in Seq(Items)
      BY DEF Items
  <2>2. \A i \in 1 .. Len(q) : q[i] \in DataItems(WaitingFor(d))
      BY <1>4, ElementOfSeq
  <2>3. \A i \in 1 .. Len(q) : q[i].packet \in delayed'
      BY <1>3, <2>2 DEF DataItems
  <2> QED
      BY <1>2, <1>4, <2>1, <2>3 DEF Arrived
<1>6. WaitersDelayed'
  <2>1. waiting' = [waiting EXCEPT ![d] = <<>>] /\ waiting \in [Packets -> Seq(WaitEntries)]
      BY DEF ProcessData, ClientTypes
  <2>2. ASSUME NEW c \in Packets, NEW i \in DOMAIN waiting'[c]
        PROVE  waiting'[c][i].packet \in delayed
    <3>1. c # d
        BY <1>1, <2>1, <2>2, EmptySeq
    <3>2. waiting'[c] = waiting[c]
        BY <2>1, <3>1
    <3> QED
        BY <2>2, <3>2 DEF WaitersDelayed
  <2> QED
      BY <2>2 DEF WaitersDelayed
<1>7. ASSUME NEW p \in DOMAIN referencedPackets'
      PROVE  \/ p \in delayed'
             \/ p \in DOMAIN referencedPackets /\ referencedPackets'[p] = referencedPackets[p]
             \/ p = b.packet /\ referencedPackets'[p] = v
  <2> DEFINE r1 == RememberWoken(referencedPackets, ws)
  <2>1. referencedPackets' = Remember(r1, d, v, b.canRelease)
      BY DEF ProcessData
  <2>2. \A o \in DOMAIN r1 : o \in WaitingFor(d)
                             \/ (o \in DOMAIN referencedPackets /\ r1[o] = referencedPackets[o])
      BY DEF RememberWoken, WaitingFor
  <2> HIDE DEF r1, v, d
  <2>3. \/ p \in DOMAIN r1 /\ referencedPackets'[p] = r1[p]
        \/ p = d /\ referencedPackets'[p] = v
      BY <1>7, <2>1 DEF Remember
  <2> QED
      BY <1>3, <2>2, <2>3 DEF d
<1> QED
    BY <1>5, <1>6, <1>7 DEF Passes

(* addAlreadySentPacketBuffer.                                             *)
LEMMA AlreadySentPasses ==
    ASSUME ClientTypes, ReceivedTypes, WaitersDelayed, NEW b \in Buffers, Shaped(b),
           AddAlreadySentPacketBuffer(b), failed' = FALSE
    PROVE  Passes(b)
<1>1. /\ b.type = "alreadySent" /\ b.packet \in Packets /\ b.signal \in Signals
      /\ Found(b) /\ (AlreadySentReferenced(b) \/ AlreadySentWaiting(b))
    BY DEF AddAlreadySentPacketBuffer, Shaped, Throw
<1>2. CASE AlreadySentReferenced(b)
  <2> DEFINE x == Received(b.signal, b.packet, referencedPackets[b.packet])
  <2>1. /\ b.packet \in DOMAIN referencedPackets /\ received' = Append(received, x)
        /\ UNCHANGED <<waiting, delayed>>
        /\ \A p \in DOMAIN referencedPackets' :
               p \in DOMAIN referencedPackets /\ referencedPackets'[p] = referencedPackets[p]
      BY <1>2 DEF AlreadySentReferenced, Forget
  <2>2. HandsOut(b, x)
      BY <1>1, <2>1 DEF HandsOut, DataItems, Received, ReceivedTypes
  <2> HIDE DEF x
  <2>3. x \in Items /\ Append(received, x) \in Seq(Items)
    <3>1. x \in Items
        BY <2>2 DEF HandsOut, Items
    <3> QED
        BY <3>1, AppendProperties DEF ReceivedTypes
  <2>4. received' = Append(received, x) \o <<>> /\ <<>> \in Seq(Items) /\ Len(<<>>) = 0
      BY <2>1, <2>3, ConcatEmptySeq
  <2>5. Arrived(b, <<>>)
      BY <2>2, <2>4 DEF Arrived
  <2>6. WaitersDelayed'
      BY <2>1 DEF WaitersDelayed
  <2> QED
      BY <2>1, <2>5, <2>6 DEF Passes
<1>3. CASE AlreadySentWaiting(b)
  <2>1. UNCHANGED <<referencedPackets, received, delayed>>
      BY <1>3 DEF AlreadySentWaiting
  <2>2. PICK d \in Packets : \E i \in DOMAIN waiting[d] :
               /\ d = DomainOf[b.packet] /\ waiting[d][i].packet = b.packet
               /\ waiting' = [waiting EXCEPT ![d] = [waiting[d] EXCEPT ![i] =
                      [waiting[d][i] EXCEPT !.more = Append(waiting[d][i].more, b.signal)]]]
      BY <1>1, <1>3, WaitingMore
  <2>3. PICK i \in DOMAIN waiting[d] :
               /\ waiting[d][i].packet = b.packet
               /\ waiting' = [waiting EXCEPT ![d] = [waiting[d] EXCEPT ![i] =
                      [waiting[d][i] EXCEPT !.more = Append(waiting[d][i].more, b.signal)]]]
      BY <2>2
  <2>4. b.packet \in delayed
      BY <2>3 DEF WaitersDelayed
  <2>5. \E q : Arrived(b, q)
      BY <2>1, <2>4, NothingArrives
  <2> DEFINE w == [waiting[d][i] EXCEPT !.more = Append(waiting[d][i].more, b.signal)]
             a == [waiting[d] EXCEPT ![i] = w]
  <2>6. waiting[d][i] \in WaitEntries /\ waiting \in [Packets -> Seq(WaitEntries)]
      BY WaitingTypes DEF ClientTypes
  <2>7. w.packet = b.packet
    <3> DEFINE o == waiting[d][i]
               m == Append(waiting[d][i].more, b.signal)
    <3>1. o \in WaitEntries /\ o.packet = b.packet /\ w = [o EXCEPT !.more = m]
        BY <2>3, <2>6
    <3> HIDE DEF o, m, w
    <3> QED
        BY <3>1 DEF WaitEntries
  <2>8. waiting' = [waiting EXCEPT ![d] = a]
      BY <2>3
  <2> HIDE DEF w
  <2>9. DOMAIN a = DOMAIN waiting[d] /\ \A k \in DOMAIN waiting[d] : a[k].packet \in delayed
      BY <2>4, <2>7 DEF WaitersDelayed
  <2> HIDE DEF a
  <2>10. ASSUME NEW c \in Packets, NEW k \in DOMAIN waiting'[c]
         PROVE  waiting'[c][k].packet \in delayed
    <3>1. CASE c = d
        BY <2>6, <2>8, <2>9, <2>10, <3>1
    <3>2. CASE c # d
        BY <2>6, <2>8, <2>10, <3>2 DEF WaitersDelayed
    <3> QED
        BY <3>1, <3>2
  <2>11. WaitersDelayed'
      BY <2>1, <2>10 DEF WaitersDelayed
  <2> QED
      BY <2>1, <2>5, <2>11 DEF Passes
<1> QED
    BY <1>1, <1>2, <1>3

(* Every buffer.                                                           *)
LEMMA ClientPasses ==
    ASSUME ClientTypes, ReceivedTypes, WaitersDelayed, NEW b \in Buffers, Shaped(b), failed' = FALSE,
           \/ AddEventPacketBuffer(b) \/ AddDataPacketBuffer(b)
           \/ AddReleasePacketBuffer(b) \/ AddAlreadySentPacketBuffer(b)
    PROVE  Passes(b)
<1>1. CASE AddDataPacketBuffer(b)
  <2>1. b.type = "data"
      BY <1>1 DEF AddDataPacketBuffer
  <2>2. CASE /\ Waits(b)
             /\ waiting' = [waiting EXCEPT ![DomainOf[b.packet]] = Append(@, Wait(b))]
             /\ delayed' = delayed \cup {b.packet}
             /\ UNCHANGED <<referencedPackets, received, failed, flagLost>>
    <3>1. DomainOf[b.packet] # NoPacket
        BY <2>2 DEF Waits
    <3> QED
        BY <2>1, <2>2, <3>1, WaitPasses
  <2>3. CASE ProcessData(b) /\ UNCHANGED <<failed, delayed, flagLost>>
      BY <2>1, <2>3, ProcessPasses
  <2> QED
      BY <1>1, <2>2, <2>3 DEF AddDataPacketBuffer, Throw
<1> QED
    BY <1>1, EventPasses, ReleasePasses, AlreadySentPasses

(* A step of the client with the buffer b keeps the order of the signal.   *)
LEMMA OrderPasses ==
    ASSUME received \in Seq(Items), received' \in Seq(Items), NEW U \in Seq(Buffers), U # <<>>, NEW a, NEW s,
           InOrder(received, U, a, s, delayed), Passes(U[1])
    PROVE  InOrder(received', Tail(U), a, s, delayed')
<1> DEFINE b == U[1]
           D == delayed'
<1>1. InOrder(received, U, a, s, D)
    BY OrderDelay DEF Passes
<1>2. PICK q : Arrived(b, q)
    BY DEF Passes
<1>3. q \in Seq(Items) /\ \A i \in 1 .. Len(q) : q[i].kind = "data" => q[i].signal # s \/ q[i].packet \in D
    BY <1>2 DEF Arrived
<1>4. 1 \in Nears(U, s, D) <=> b.signal = s /\ b.packet \in Packets /\ b.packet \notin D
  <2>1. 1 \in 1 .. Len(U)
      BY EmptySeq, LenProperties
  <2> QED
      BY <2>1 DEF Nears
<1> HIDE DEF D
<1>5. CASE (b.packet \notin Packets \/ b.packet \in D) /\ received' = received \o q
  <2>1. InOrder(received \o q, U, a, s, D)
      BY <1>1, <1>3, OrderItems
  <2>2. InOrder(received \o q, Tail(U), a, s, D)
      BY <1>4, <1>5, <2>1, OrderTail
  <2> QED
      BY <1>5, <2>2 DEF D
<1>6. ASSUME NEW x, HandsOut(b, x), received' = Append(received, x) \o q
      PROVE  InOrder(received', Tail(U), a, s, D)
  <2>1. x \in DataItems(Packets) /\ x.signal = b.signal /\ x.packet = b.packet /\ x \in Items
        /\ x.kind = "data" /\ x.packet \in Packets
      BY <1>6 DEF HandsOut, Items, DataItems
  <2> DEFINE r == Append(received, x)
  <2>2. r \in Seq(Items) /\ r = received \o <<x>> /\ <<x>> \in Seq(Items)
      BY <2>1, AppendProperties, AppendIsConcat
  <2>3. InOrder(r, Tail(U), a, s, D)
    <3>1. CASE 1 \in Nears(U, s, D)
        BY <1>1, <1>4, <2>1, <3>1, OrderTake
    <3>2. CASE 1 \notin Nears(U, s, D)
      <4>1. InOrder(received, Tail(U), a, s, D)
          BY <1>1, <3>2, OrderTail
      <4>2. x.signal # s \/ x.packet \in D
          BY <1>4, <2>1, <3>2
      <4>3. \A i \in 1 .. Len(<<x>>) : <<x>>[i].kind = "data" => <<x>>[i].signal # s \/ <<x>>[i].packet \in D
          BY <4>2
      <4>4. InOrder(received \o <<x>>, Tail(U), a, s, D)
          BY <2>2, <4>1, <4>3, OrderItems
      <4> QED
          BY <2>2, <4>4
    <3> QED
        BY <3>1, <3>2
  <2> HIDE DEF r
  <2>4. InOrder(r \o q, Tail(U), a, s, D)
      BY <1>3, <2>2, <2>3, OrderItems
  <2> QED
      BY <1>6, <2>4 DEF r
<1> QED
    BY <1>2, <1>5, <1>6 DEF Arrived, D

(* addPacketBuffer, in names.                                              *)
LEMMA HeadPasses ==
    ASSUME StreamInv, LossInv, WaitersDelayed, AddPacketBuffer, failed' = FALSE
    PROVE  LET b == Head(wire)
           IN /\ b \in Buffers /\ Shaped(b)
              /\ Underway \in Seq(Buffers) /\ Underway # <<>> /\ Underway[1] = b /\ Underway' = Tail(Underway)
              /\ \/ AddEventPacketBuffer(b) \/ AddDataPacketBuffer(b)
                 \/ AddReleasePacketBuffer(b) \/ AddAlreadySentPacketBuffer(b)
              /\ Passes(b) /\ received \in Seq(Items) /\ received' \in Seq(Items)
              /\ UNCHANGED <<pending, source, descriptorOf, addedTo>>
<1> DEFINE b == Head(wire)
           U == Underway
<1>1. StreamTypes /\ ClientTypes /\ ReceivedTypes
    BY DEF StreamInv, StreamTypes, ClientTypes, LossInv
<1>2. /\ wire # <<>> /\ wire' = Tail(wire)
      /\ \/ AddEventPacketBuffer(b) \/ AddDataPacketBuffer(b)
         \/ AddReleasePacketBuffer(b) \/ AddAlreadySentPacketBuffer(b)
      /\ UNCHANGED <<out, pending, source, descriptorOf, addedTo>>
    BY DEF AddPacketBuffer, serverVars, sourceVars
<1>3. b \in Buffers /\ Shaped(b) /\ b = wire[1]
    BY <1>1, <1>2, HeadOfWire
<1>4. wire \in Seq(Buffers) /\ out.queue \in Seq(Buffers)
    BY <1>1 DEF StreamTypes
<1>5. U \in Seq(Buffers) /\ U # <<>> /\ U[1] = b /\ Underway' = Tail(U)
  <2>1. U \in Seq(Buffers) /\ U # <<>> /\ U[1] = wire[1] /\ Tail(wire) \o out.queue = Tail(U)
      BY <1>2, <1>4, UnderwayTail DEF Underway
  <2> QED
      BY <1>2, <1>3, <2>1 DEF Underway
<1> HIDE DEF b
<1>6. Passes(b)
    BY <1>1, <1>2, <1>3, ClientPasses
<1>7. ReceivedTypes'
    BY <1>1, <1>2, <1>3, ItemsReceived
<1> QED
    BY <1>1, <1>2, <1>3, <1>5, <1>6, <1>7 DEF ReceivedTypes, b

(* addPacketBuffer.                                                        *)
LEMMA ClientOrder ==
    ASSUME StreamInv, LossInv, OrderInv, AddPacketBuffer, failed' = FALSE
    PROVE  OrderInv'
<1> DEFINE U == Underway
<1>1. /\ U \in Seq(Buffers) /\ U # <<>> /\ Underway' = Tail(U) /\ Passes(U[1])
      /\ received \in Seq(Items) /\ received' \in Seq(Items) /\ UNCHANGED addedTo
    BY HeadPasses DEF OrderInv
<1>2. \A s \in Signals : InOrder(received, U, addedTo[s], s, delayed)
    BY DEF OrderInv
<1> HIDE DEF U
<1>3. \A s \in Signals : InOrder(received', Tail(U), addedTo[s], s, delayed')
    BY <1>1, <1>2, OrderPasses
<1>4. WaitersDelayed'
    BY <1>1 DEF Passes
<1> QED
    BY <1>1, <1>3, <1>4 DEF OrderInv

(* Every step.                                                             *)
LEMMA NextOrder ==
    ASSUME StreamInv, LossInv, OrderInv, [StreamNext]_streamVars
    PROVE  OrderInv'
<1>1. StreamTypes /\ GroupsOK(out)
    BY DEF StreamInv
<1>2. failed' = FALSE
    BY NextStreamInv DEF StreamInv
<1>3. CASE Underway' = Underway /\ UNCHANGED <<received, waiting, addedTo, delayed>>
    BY <1>3 DEF OrderInv, WaitersDelayed
<1>4. CASE UNCHANGED streamVars
    BY <1>3, <1>4 DEF streamVars, serverVars, clientVars, Underway
<1>5. CASE GetStreamingWriteTask
  <2>1. Underway' = Underway
      BY <1>1, <1>5, TakeTypes
  <2> QED
      BY <1>3, <1>5, <2>1 DEF GetStreamingWriteTask, clientVars
<1>6. ASSUME NEW s \in Signals, NEW e \in LaterEvents, SetDescriptor(s, e)
      PROVE  OrderInv'
    BY <1>3, <1>6 DEF SetDescriptor, clientVars, serverVars, Underway
<1>7. ASSUME NEW p \in Packets, NEW s \in Signals, SendPacket(p, s)
      PROVE  OrderInv'
    BY <1>3, <1>7 DEF SendPacket, clientVars, serverVars, Underway
<1>8. ASSUME NEW p \in Packets, DropPacket(p)
      PROVE  OrderInv'
    BY <1>3, <1>8 DEF DropPacket, clientVars, serverVars, Underway
<1> QED
    BY <1>2, <1>4, <1>5, <1>6, <1>7, <1>8, AddEventOrder, AddDataOrder, ClientOrder DEF StreamNext

(* The n-th received is the n-th added.                                    *)
LEMMA OrderMeans ==
    ASSUME LossInv, OrderInv, NEW s \in Signals, NEW i \in Got(s)
    PROVE  \E j \in Put(s) : /\ addedTo[s][j].packet = received[i].packet
                             /\ UpTo(Got(s), i) = UpTo(Put(s), j)
<1> DEFINE a == addedTo[s]
           G == Gets(received, s, delayed)
           N == Nears(Underway, s, delayed)
           P == Puts(a, delayed)
<1>1. received \in Seq(Items) /\ a \in Seq(Messages)
    BY DEF LossInv, ReceivedTypes
<1>2. DOMAIN received = 1 .. Len(received) /\ DOMAIN a = 1 .. Len(a) /\ Len(a) \in Nat /\ Len(received) \in Nat
    BY <1>1, LenProperties
<1>3. Got(s) = G /\ Put(s) = P
    BY <1>2 DEF Got, Put, Gets, Puts
<1>4. PICK f, g : OrderedBy(f, g, received, Underway, a, s, delayed)
    BY DEF OrderInv, InOrder
<1>5. /\ \A k \in G : f[k] \in P /\ a[f[k]].packet = received[k].packet
      /\ Rising(f, G)
      /\ \A k \in G, j \in N : f[k] < g[j]
      /\ \A k \in P : (\E l \in G : f[l] = k) \/ (\E j \in N : g[j] = k)
      /\ \A j \in N : g[j] \in P
    BY <1>4, Zenon DEF OrderedBy
<1>6. G \subseteq 1 .. Len(received) /\ P \subseteq 1 .. Len(a) /\ i \in G
    BY <1>3 DEF Gets, Puts
<1> HIDE DEF G, N, P, a
<1> DEFINE A == {k \in G : k <= i}
           B == {k \in P : k <= f[i]}
           h == [k \in A |-> f[k]]
<1>7. ASSUME NEW k \in A
      PROVE  h[k] \in B
  <2>1. k \in G /\ k <= i /\ k \in Int /\ i \in Int /\ f[k] \in P /\ f[i] \in P
      BY <1>5, <1>6
  <2>2. f[k] <= f[i]
    <3>0. \A m \in P : m \in Int
        BY <1>6
    <3>1. f[k] \in Int /\ f[i] \in Int
        BY <2>1, <3>0
    <3>2. CASE k = i
        BY <3>1, <3>2
    <3>3. CASE k < i
      <4>1. f[k] < f[i]
          BY <1>5, <1>6, <2>1, <3>3 DEF Rising
      <4> QED
          BY <3>1, <4>1
    <3> QED
        BY <2>1, <3>2, <3>3
  <2> QED
      BY <2>1, <2>2
<1>8. ASSUME NEW k \in A, NEW l \in A, h[k] = h[l]
      PROVE  k = l
  <2>1. k \in G /\ l \in G /\ k \in Int /\ l \in Int /\ f[k] = f[l] /\ f[k] \in Int
    <3>1. k \in G /\ l \in G /\ f[k] \in P
        BY <1>5
    <3>2. (\A m \in P : m \in Int) /\ (\A m \in G : m \in Int)
        BY <1>6
    <3> QED
        BY <1>8, <3>1, <3>2
  <2>2. ~(k < l)
    <3>1. k < l => f[k] < f[l]
        BY <1>5, <2>1 DEF Rising
    <3> QED
        BY <2>1, <3>1
  <2>3. ~(l < k)
    <3>1. l < k => f[l] < f[k]
        BY <1>5, <2>1 DEF Rising
    <3> QED
        BY <2>1, <3>1
  <2> QED
      BY <2>1, <2>2, <2>3
<1>9. ASSUME NEW m \in B
      PROVE  \E k \in A : h[k] = m
  <2>1. m \in P /\ m <= f[i] /\ m \in Int /\ f[i] \in Int
      BY <1>5, <1>6
  <2>2. ~\E j \in N : g[j] = m
    <3> SUFFICES ASSUME NEW j \in N, g[j] = m
                 PROVE  FALSE
        OBVIOUS
    <3>1. f[i] < m
        BY <1>5, <1>6
    <3> QED
        BY <2>1, <3>1
  <2>3. PICK k \in G : f[k] = m
      BY <1>5, <2>1, <2>2
  <2>4. k <= i
    <3>1. k \in Int /\ i \in Int
        BY <1>6
    <3>2. i < k => f[i] < f[k]
        BY <1>5, <1>6 DEF Rising
    <3>3. ~(i < k)
        BY <2>1, <2>3, <3>2
    <3> QED
        BY <3>1, <3>3
  <2> QED
      BY <2>3, <2>4
<1>10. IsFiniteSet(A)
  <2>1. IsFiniteSet(1 .. Len(received))
      BY <1>2, FS_Interval
  <2> QED
      BY <1>6, <2>1, FS_Subset
<1>11. h \in Bijection(A, B)
  <2>1. h \in [A -> B]
      BY <1>7
  <2> HIDE DEF h, A, B
  <2> QED
      BY <1>8, <1>9, <2>1 DEF Bijection, Injection, Surjection, IsInjective
<1>12. Cardinality(A) = Cardinality(B)
  <2> HIDE DEF h, A, B
  <2> QED
      BY <1>10, <1>11, FS_Bijection DEF ExistsBijection
<1>13. UpTo(G, i) = UpTo(P, f[i])
    BY <1>12 DEF UpTo
<1> QED
    BY <1>3, <1>5, <1>6, <1>13 DEF a

--------------------------------------------------------------------------------
(***************************************************************************)
(* A packet is made with the descriptor it was sent with.  Along the link, *)
(* and then along what a signal's connection holds, every data packet      *)
(* comes when the descriptor told last is the one it was made with.        *)
(***************************************************************************)
(* The value told last by the first n of v is x, where w was told before.  *)
LastIs(v, n, w, x) ==
    \/ w = x /\ \A j \in 1 .. n : v[j] = Unchanged
    \/ \E j \in 1 .. n : v[j] = x /\ v[j] # Unchanged /\ \A i \in 1 .. n : v[i] # Unchanged => i <= j
ToldBy(U, s) ==
    [i \in 1 .. Len(U) |-> IF U[i].type = "event" /\ U[i].signal = s THEN U[i].event.value ELSE Unchanged]
SaidBy(q) == [i \in 1 .. Len(q) |-> IF q[i].kind = "event" THEN q[i].value ELSE Unchanged]

(* The values along the link, where k are the descriptors the client knows *)
(* and made is the descriptor of each packet.                              *)
LinkValues(U, k, made) ==
    \A i \in 1 .. Len(U) : U[i].type = "data" =>
        /\ made[U[i].packet] \in Descriptors
        /\ LastIs(ToldBy(U, U[i].signal), i - 1, k[U[i].signal].value, made[U[i].packet])
(* Those of a connection that follows w and ends with x.                   *)
PendingValues(q, w, x, made) ==
    /\ LastIs(SaidBy(q), Len(q), w, x)
    /\ \A i \in 1 .. Len(q) : q[i].kind = "data" =>
           made[q[i].packet] \in Descriptors /\ LastIs(SaidBy(q), i - 1, w, made[q[i].packet])
LinesMeet(U, k, q, s, x, made) ==
    \E w : LastIs(ToldBy(U, s), Len(U), k[s].value, w) /\ PendingValues(q, w, x, made)
MadeWith(p, x) == descriptorOf[p] = x /\ x \in Descriptors
ValueInv ==
    /\ source \in [Signals -> Descriptors] /\ descriptorOf \in [Packets -> Told]
    /\ LinkValues(Underway, known, descriptorOf)
    /\ \A s \in Signals : LinesMeet(Underway, known, pending[s], s, source[s], descriptorOf)
    /\ \A p \in DOMAIN referencedPackets : p \notin delayed => MadeWith(p, referencedPackets[p])
    /\ \A i \in 1 .. Len(received) : received[i].kind = "data" /\ received[i].packet \notin delayed
           => MadeWith(received[i].packet, received[i].descriptor)

(* Only the first n matter.                                                *)
LEMMA LastSame ==
    ASSUME NEW v, NEW u, NEW n, NEW w, NEW x, \A i \in 1 .. n : u[i] = v[i], LastIs(v, n, w, x)
    PROVE  LastIs(u, n, w, x)
    BY DEF LastIs

(* One more.                                                               *)
LEMMA LastMore ==
    ASSUME NEW v, NEW n \in Nat, NEW w, NEW x, LastIs(v, n, w, x)
    PROVE  LastIs(v, n + 1, w, IF v[n + 1] # Unchanged THEN v[n + 1] ELSE x)
<1>1. \A i : i \in 1 .. n + 1 <=> i \in 1 .. n \/ i = n + 1
    OBVIOUS
<1>2. CASE v[n + 1] # Unchanged
  <2>1. n + 1 \in 1 .. n + 1 /\ \A i \in 1 .. n + 1 : i <= n + 1
      OBVIOUS
  <2> QED
      BY <1>2, <2>1 DEF LastIs
<1>3. CASE v[n + 1] = Unchanged
  <2>1. CASE w = x /\ \A j \in 1 .. n : v[j] = Unchanged
      BY <1>1, <1>3, <2>1 DEF LastIs
  <2>2. ASSUME NEW j \in 1 .. n, v[j] = x, v[j] # Unchanged, \A i \in 1 .. n : v[i] # Unchanged => i <= j
        PROVE  LastIs(v, n + 1, w, x)
    <3>1. j \in 1 .. n + 1 /\ \A i \in 1 .. n + 1 : v[i] # Unchanged => i <= j
        BY <1>1, <1>3, <2>2
    <3> QED
        BY <2>2, <3>1 DEF LastIs
  <2> QED
      BY <1>3, <2>1, <2>2 DEF LastIs
<1> QED
    BY <1>2, <1>3

(* The first one has been heard.                                           *)
LEMMA LastShift ==
    ASSUME NEW v, NEW u, NEW n \in Nat, NEW w, NEW x, LastIs(v, n + 1, w, x), \A i \in 1 .. n : u[i] = v[i + 1]
    PROVE  LastIs(u, n, IF v[1] # Unchanged THEN v[1] ELSE w, x)
<1> DEFINE w2 == IF v[1] # Unchanged THEN v[1] ELSE w
<1>1. 1 \in 1 .. n + 1 /\ \A i \in 1 .. n : i + 1 \in 1 .. n + 1
    OBVIOUS
<1>2. CASE w = x /\ \A j \in 1 .. n + 1 : v[j] = Unchanged
    BY <1>1, <1>2 DEF LastIs
<1>3. ASSUME NEW j \in 1 .. n + 1, v[j] = x, v[j] # Unchanged, \A i \in 1 .. n + 1 : v[i] # Unchanged => i <= j
      PROVE  LastIs(u, n, w2, x)
  <2>1. CASE j = 1
    <3>1. \A i \in 1 .. n : u[i] = Unchanged
      <4> SUFFICES ASSUME NEW i \in 1 .. n
                   PROVE  v[i + 1] = Unchanged
          OBVIOUS
      <4>1. ~(i + 1 <= 1)
          OBVIOUS
      <4> QED
          BY <1>1, <1>3, <2>1, <4>1
    <3> QED
        BY <1>3, <2>1, <3>1 DEF LastIs
  <2>2. CASE j # 1
    <3>1. j - 1 \in 1 .. n /\ (j - 1) + 1 = j
        BY <2>2
    <3>2. u[j - 1] = v[j]
        BY <3>1
    <3>3. \A i \in 1 .. n : u[i] # Unchanged => i <= j - 1
      <4> SUFFICES ASSUME NEW i \in 1 .. n, u[i] # Unchanged
                   PROVE  i <= j - 1
          OBVIOUS
      <4>1. i + 1 <= j
          BY <1>1, <1>3
      <4> QED
          BY <4>1
    <3> QED
        BY <1>3, <3>1, <3>2, <3>3 DEF LastIs
  <2> QED
      BY <2>1, <2>2
<1> QED
    BY <1>2, <1>3 DEF LastIs

(* Nothing was told since.                                                 *)
LEMMA LastNone ==
    ASSUME NEW v, NEW w, NEW x
    PROVE  LastIs(v, 0, w, x) <=> w = x
    BY DEF LastIs

(* What the places of a longer link tell.                                  *)
LEMMA ToldAppend ==
    ASSUME NEW U \in Seq(Buffers), NEW c \in Buffers, NEW s
    PROVE  /\ Len(Append(U, c)) = Len(U) + 1 /\ Len(U) \in Nat
           /\ \A i \in 1 .. Len(U) : ToldBy(Append(U, c), s)[i] = ToldBy(U, s)[i]
           /\ ToldBy(Append(U, c), s)[Len(U) + 1]
                  = IF c.type = "event" /\ c.signal = s THEN c.event.value ELSE Unchanged
<1> DEFINE V == Append(U, c)
<1>1. /\ Len(U) \in Nat /\ Len(V) = Len(U) + 1
      /\ V[Len(U) + 1] = c /\ \A i \in 1 .. Len(U) : V[i] = U[i]
    BY AppendProperties, LenProperties
<1> HIDE DEF V
<1>2. /\ \A i \in 1 .. Len(U) : i \in 1 .. Len(V)
      /\ Len(U) + 1 \in 1 .. Len(V)
    BY <1>1
<1>3. \A i \in 1 .. Len(U) : ToldBy(V, s)[i] = ToldBy(U, s)[i]
    BY <1>1, <1>2 DEF ToldBy
<1>4. ToldBy(V, s)[Len(U) + 1] = IF c.type = "event" /\ c.signal = s THEN c.event.value ELSE Unchanged
    BY <1>1, <1>2 DEF ToldBy
<1> QED
    BY <1>1, <1>3, <1>4 DEF V

(* What those of a link without its first buffer tell.                     *)
LEMMA ToldTail ==
    ASSUME NEW U \in Seq(Buffers), U # <<>>, NEW s
    PROVE  /\ Len(U) \in Nat \ {0} /\ Len(Tail(U)) = Len(U) - 1
           /\ \A i \in 1 .. Len(U) - 1 : Tail(U)[i] = U[i + 1] /\ ToldBy(Tail(U), s)[i] = ToldBy(U, s)[i + 1]
           /\ ToldBy(U, s)[1] = IF U[1].type = "event" /\ U[1].signal = s THEN U[1].event.value ELSE Unchanged
<1> DEFINE V == Tail(U)
<1>1. /\ Len(U) \in Nat \ {0} /\ Len(V) = Len(U) - 1 /\ \A i \in 1 .. Len(U) - 1 : V[i] = U[i + 1]
    BY HeadTailProperties, LenProperties, EmptySeq
<1> HIDE DEF V
<1>2. 1 \in 1 .. Len(U) /\ \A i \in 1 .. Len(U) - 1 : i + 1 \in 1 .. Len(U) /\ i \in 1 .. Len(V)
    BY <1>1
<1>3. \A i \in 1 .. Len(U) - 1 : ToldBy(V, s)[i] = ToldBy(U, s)[i + 1]
    BY <1>1, <1>2 DEF ToldBy
<1>4. ToldBy(U, s)[1] = IF U[1].type = "event" /\ U[1].signal = s THEN U[1].event.value ELSE Unchanged
    BY <1>2 DEF ToldBy
<1> QED
    BY <1>1, <1>3, <1>4 DEF V

(* A buffer joins the link: data come with the descriptor told last.       *)
LEMMA LinkValuesAppend ==
    ASSUME NEW U \in Seq(Buffers), NEW c \in Buffers, NEW k, NEW made, LinkValues(U, k, made),
           c.type = "data" => /\ made[c.packet] \in Descriptors
                              /\ LastIs(ToldBy(U, c.signal), Len(U), k[c.signal].value, made[c.packet])
    PROVE  LinkValues(Append(U, c), k, made)
<1> DEFINE V == Append(U, c)
<1>1. /\ Len(U) \in Nat /\ Len(V) = Len(U) + 1
      /\ V[Len(U) + 1] = c /\ \A i \in 1 .. Len(U) : V[i] = U[i]
    BY AppendProperties, LenProperties
<1>2. \A s : \A i \in 1 .. Len(U) : ToldBy(V, s)[i] = ToldBy(U, s)[i]
    BY ToldAppend
<1> HIDE DEF V
<1>3. ASSUME NEW i \in 1 .. Len(V), V[i].type = "data"
      PROVE  /\ made[V[i].packet] \in Descriptors
             /\ LastIs(ToldBy(V, V[i].signal), i - 1, k[V[i].signal].value, made[V[i].packet])
  <2> DEFINE s == V[i].signal
             x == made[V[i].packet]
  <2>1. x \in Descriptors /\ LastIs(ToldBy(U, s), i - 1, k[s].value, x)
    <3>1. CASE i \in 1 .. Len(U)
      <4>1. V[i] = U[i]
          BY <1>1, <3>1
      <4> QED
          BY <1>3, <3>1, <4>1 DEF LinkValues
    <3>2. CASE i = Len(U) + 1
      <4>1. V[i] = c /\ i - 1 = Len(U)
          BY <1>1, <3>2
      <4> QED
          BY <1>3, <4>1
    <3> QED
        BY <1>1, <3>1, <3>2
  <2>2. \A j \in 1 .. i - 1 : ToldBy(V, s)[j] = ToldBy(U, s)[j]
    <3>1. \A j \in 1 .. i - 1 : j \in 1 .. Len(U)
        BY <1>1
    <3> QED
        BY <1>2, <3>1
  <2> HIDE DEF s, x
  <2>3. LastIs(ToldBy(V, s), i - 1, k[s].value, x)
      BY <2>1, <2>2, LastSame
  <2> QED
      BY <2>1, <2>3 DEF s, x
<1>4. LinkValues(V, k, made)
    BY <1>3 DEF LinkValues
<1> QED
    BY <1>4 DEF V

(* The first buffer is taken by the client, whose descriptors k2 are those *)
(* it was told.                                                            *)
LEMMA LinkValuesTail ==
    ASSUME NEW U \in Seq(Buffers), U # <<>>, \A i \in 1 .. Len(U) : U[i].type = "data" => U[i].signal \in Signals,
           NEW k, NEW k2, NEW made, LinkValues(U, k, made),
           \A s \in Signals : k2[s].value = IF ToldBy(U, s)[1] # Unchanged THEN ToldBy(U, s)[1] ELSE k[s].value
    PROVE  LinkValues(Tail(U), k2, made)
<1> DEFINE V == Tail(U)
<1>1. /\ Len(U) \in Nat \ {0} /\ Len(V) = Len(U) - 1 /\ \A i \in 1 .. Len(U) - 1 : V[i] = U[i + 1]
      /\ \A s : \A i \in 1 .. Len(U) - 1 : ToldBy(V, s)[i] = ToldBy(U, s)[i + 1]
    BY ToldTail
<1> HIDE DEF V
<1>2. ASSUME NEW i \in 1 .. Len(V), V[i].type = "data"
      PROVE  /\ made[V[i].packet] \in Descriptors
             /\ LastIs(ToldBy(V, V[i].signal), i - 1, k2[V[i].signal].value, made[V[i].packet])
  <2> DEFINE s == V[i].signal
             x == made[V[i].packet]
             n == i - 1
  <2>1. V[i] = U[i + 1] /\ i + 1 \in 1 .. Len(U) /\ n \in Nat /\ (i + 1) - 1 = n + 1
      BY <1>1
  <2>2. x \in Descriptors /\ LastIs(ToldBy(U, s), n + 1, k[s].value, x) /\ s \in Signals
    <3>1. U[i + 1].type = "data"
        BY <1>2, <2>1
    <3>2. /\ made[U[i + 1].packet] \in Descriptors /\ U[i + 1].signal \in Signals
          /\ LastIs(ToldBy(U, U[i + 1].signal), (i + 1) - 1, k[U[i + 1].signal].value, made[U[i + 1].packet])
        BY <2>1, <3>1 DEF LinkValues
    <3> QED
        BY <2>1, <3>2
  <2>3. \A j \in 1 .. n : ToldBy(V, s)[j] = ToldBy(U, s)[j + 1]
    <3>1. \A j \in 1 .. n : j \in 1 .. Len(U) - 1
        BY <1>1
    <3> QED
        BY <1>1, <3>1
  <2> HIDE DEF s, x, n
  <2>4. LastIs(ToldBy(V, s), n, IF ToldBy(U, s)[1] # Unchanged THEN ToldBy(U, s)[1] ELSE k[s].value, x)
      BY <2>1, <2>2, <2>3, LastShift
  <2>5. LastIs(ToldBy(V, s), n, k2[s].value, x)
      BY <2>2, <2>4
  <2> QED
      BY <2>2, <2>5 DEF s, x, n
<1>3. LinkValues(V, k2, made)
    BY <1>2 DEF LinkValues
<1> QED
    BY <1>3 DEF V

(* What the places of a longer connection say.                             *)
LEMMA SaidAppend ==
    ASSUME NEW q \in Seq(Messages), NEW m \in Messages
    PROVE  /\ Len(Append(q, m)) = Len(q) + 1 /\ Len(q) \in Nat
           /\ Append(q, m)[Len(q) + 1] = m /\ \A i \in 1 .. Len(q) : Append(q, m)[i] = q[i]
           /\ \A i \in 1 .. Len(q) : SaidBy(Append(q, m))[i] = SaidBy(q)[i]
           /\ SaidBy(Append(q, m))[Len(q) + 1] = IF m.kind = "event" THEN m.value ELSE Unchanged
<1> DEFINE V == Append(q, m)
<1>1. /\ Len(q) \in Nat /\ Len(V) = Len(q) + 1
      /\ V[Len(q) + 1] = m /\ \A i \in 1 .. Len(q) : V[i] = q[i]
    BY AppendProperties, LenProperties
<1> HIDE DEF V
<1>2. Len(q) + 1 \in 1 .. Len(V) /\ \A i \in 1 .. Len(q) : i \in 1 .. Len(V)
    BY <1>1
<1>3. \A i \in 1 .. Len(q) : SaidBy(V)[i] = SaidBy(q)[i]
    BY <1>1, <1>2 DEF SaidBy
<1>4. SaidBy(V)[Len(q) + 1] = IF m.kind = "event" THEN m.value ELSE Unchanged
    BY <1>1, <1>2 DEF SaidBy
<1> QED
    BY <1>1, <1>3, <1>4 DEF V

(* A signal sends the message m.                                           *)
LEMMA PendingValuesAppend ==
    ASSUME NEW q \in Seq(Messages), NEW m \in Messages, NEW w, NEW x, NEW made, PendingValues(q, w, x, made),
           m.kind = "data" => made[m.packet] = x /\ x \in Descriptors
    PROVE  PendingValues(Append(q, m), w, IF m.kind = "event" /\ m.value # Unchanged THEN m.value ELSE x, made)
<1> DEFINE V == Append(q, m)
           n == Len(q)
           y == IF m.kind = "event" /\ m.value # Unchanged THEN m.value ELSE x
<1>1. /\ Len(V) = n + 1 /\ n \in Nat /\ V[n + 1] = m /\ \A i \in 1 .. n : V[i] = q[i]
      /\ \A i \in 1 .. n : SaidBy(V)[i] = SaidBy(q)[i]
      /\ SaidBy(V)[n + 1] = IF m.kind = "event" THEN m.value ELSE Unchanged
    BY SaidAppend
<1>2. LastIs(SaidBy(q), n, w, x)
    BY DEF PendingValues
<1> HIDE DEF V, n
<1>3. LastIs(SaidBy(V), n, w, x)
    BY <1>1, <1>2, LastSame
<1>4. LastIs(SaidBy(V), n + 1, w, y)
  <2>1. LastIs(SaidBy(V), n + 1, w, IF SaidBy(V)[n + 1] # Unchanged THEN SaidBy(V)[n + 1] ELSE x)
      BY <1>1, <1>3, LastMore
  <2>2. (IF SaidBy(V)[n + 1] # Unchanged THEN SaidBy(V)[n + 1] ELSE x) = y
      BY <1>1
  <2> QED
      BY <2>1, <2>2
<1>5. ASSUME NEW i \in 1 .. n + 1, V[i].kind = "data"
      PROVE  made[V[i].packet] \in Descriptors /\ LastIs(SaidBy(V), i - 1, w, made[V[i].packet])
  <2>1. CASE i \in 1 .. n
    <3>1. V[i] = q[i] /\ i \in 1 .. Len(q)
        BY <1>1, <2>1 DEF n
    <3>2. made[q[i].packet] \in Descriptors /\ LastIs(SaidBy(q), i - 1, w, made[q[i].packet])
        BY <1>5, <3>1 DEF PendingValues
    <3>3. \A j \in 1 .. i - 1 : SaidBy(V)[j] = SaidBy(q)[j]
      <4>1. \A j \in 1 .. i - 1 : j \in 1 .. n
          BY <1>1, <2>1
      <4> QED
          BY <1>1, <4>1
    <3> DEFINE z == made[q[i].packet]
    <3> HIDE DEF z
    <3>4. LastIs(SaidBy(q), i - 1, w, z)
        BY <3>2 DEF z
    <3>5. LastIs(SaidBy(V), i - 1, w, z)
        BY <3>3, <3>4, LastSame
    <3> QED
        BY <3>1, <3>2, <3>5 DEF z
  <2>2. CASE i = n + 1
    <3>1. V[i] = m /\ i - 1 = n
        BY <1>1, <2>2
    <3> QED
        BY <1>3, <1>5, <3>1
  <2> QED
      BY <1>1, <2>1, <2>2
<1> HIDE DEF y
<1>6. PendingValues(V, w, y, made)
    BY <1>1, <1>4, <1>5 DEF PendingValues
<1> QED
    BY <1>6 DEF V, y

(* The server takes the first message.                                     *)
LEMMA PendingValuesTail ==
    ASSUME NEW q \in Seq(Messages), q # <<>>, NEW w, NEW x, NEW made, PendingValues(q, w, x, made)
    PROVE  LET m == Head(q)
           IN /\ PendingValues(Tail(q), IF m.kind = "event" /\ m.value # Unchanged THEN m.value ELSE w, x, made)
              /\ m.kind = "data" => made[m.packet] \in Descriptors /\ w = made[m.packet]
<1> DEFINE V == Tail(q)
           m == Head(q)
           n == Len(q) - 1
           y == IF m.kind = "event" /\ m.value # Unchanged THEN m.value ELSE w
<1>1. /\ n \in Nat /\ Len(V) = n /\ \A i \in 1 .. n : V[i] = q[i + 1]
      /\ m = q[1] /\ Len(q) = n + 1
    BY HeadTailProperties, LenProperties, EmptySeq
<1> HIDE DEF V, m
<1>2. 1 \in 1 .. Len(q) /\ \A i \in 1 .. n : i + 1 \in 1 .. Len(q) /\ i \in 1 .. Len(V)
    BY <1>1
<1>3. \A i \in 1 .. n : SaidBy(V)[i] = SaidBy(q)[i + 1]
    BY <1>1, <1>2 DEF SaidBy
<1>4. SaidBy(q)[1] = IF m.kind = "event" THEN m.value ELSE Unchanged
    BY <1>1, <1>2 DEF SaidBy
<1>5. y = IF SaidBy(q)[1] # Unchanged THEN SaidBy(q)[1] ELSE w
    BY <1>4
<1> HIDE DEF n, y
<1>6. ASSUME NEW l \in Nat, l <= n, NEW z, LastIs(SaidBy(q), l + 1, w, z)
      PROVE  LastIs(SaidBy(V), l, y, z)
  <2>1. \A i \in 1 .. l : SaidBy(V)[i] = SaidBy(q)[i + 1]
    <3>1. \A i \in 1 .. l : i \in 1 .. n
        BY <1>1, <1>6
    <3> QED
        BY <1>3, <3>1
  <2>2. LastIs(SaidBy(V), l, IF SaidBy(q)[1] # Unchanged THEN SaidBy(q)[1] ELSE w, z)
      BY <1>6, <2>1, LastShift
  <2> QED
      BY <1>5, <2>2
<1>7. LastIs(SaidBy(V), Len(V), y, x)
  <2>1. LastIs(SaidBy(q), n + 1, w, x)
      BY <1>1 DEF PendingValues
  <2>2. n <= n
      BY <1>1
  <2> QED
      BY <1>1, <1>6, <2>1, <2>2
<1>8. ASSUME NEW i \in 1 .. Len(V), V[i].kind = "data"
      PROVE  made[V[i].packet] \in Descriptors /\ LastIs(SaidBy(V), i - 1, y, made[V[i].packet])
  <2>1. V[i] = q[i + 1] /\ i + 1 \in 1 .. Len(q) /\ i - 1 \in Nat /\ i - 1 <= n /\ (i + 1) - 1 = (i - 1) + 1
      BY <1>1, <1>2
  <2>2. made[q[i + 1].packet] \in Descriptors /\ LastIs(SaidBy(q), (i + 1) - 1, w, made[q[i + 1].packet])
      BY <1>8, <2>1 DEF PendingValues
  <2> DEFINE z == made[V[i].packet]
  <2> HIDE DEF z
  <2>3. z \in Descriptors /\ LastIs(SaidBy(q), (i - 1) + 1, w, z)
      BY <2>1, <2>2 DEF z
  <2>4. LastIs(SaidBy(V), i - 1, y, z)
      BY <1>6, <2>1, <2>3
  <2> QED
      BY <2>3, <2>4 DEF z
<1>9. ASSUME m.kind = "data"
      PROVE  made[m.packet] \in Descriptors /\ w = made[m.packet]
  <2>1. made[q[1].packet] \in Descriptors /\ LastIs(SaidBy(q), 1 - 1, w, made[q[1].packet])
      BY <1>1, <1>2, <1>9 DEF PendingValues
  <2>2. 1 - 1 = 0
      OBVIOUS
  <2> QED
      BY <1>1, <2>1, <2>2, LastNone
<1>10. PendingValues(V, y, x, made)
    BY <1>7, <1>8 DEF PendingValues
<1> QED
    BY <1>9, <1>10 DEF V, m, y

(* Packets that had no descriptor yet get one.                             *)
LEMMA ValuesMade ==
    ASSUME NEW made, NEW made2, \A p \in Packets : made[p] \in Descriptors => made2[p] = made[p]
    PROVE  /\ \A U, k : LinkValues(U, k, made) /\ (\A i \in 1 .. Len(U) : U[i].type = "data" => U[i].packet \in Packets)
                            => LinkValues(U, k, made2)
           /\ \A q, w, x : PendingValues(q, w, x, made)
                               /\ (\A i \in 1 .. Len(q) : q[i].kind = "data" => q[i].packet \in Packets)
                               => PendingValues(q, w, x, made2)
<1>1. ASSUME NEW U, NEW k, LinkValues(U, k, made), \A i \in 1 .. Len(U) : U[i].type = "data" => U[i].packet \in Packets
      PROVE  LinkValues(U, k, made2)
  <2>1. ASSUME NEW i \in 1 .. Len(U), U[i].type = "data"
        PROVE  /\ made2[U[i].packet] \in Descriptors
               /\ LastIs(ToldBy(U, U[i].signal), i - 1, k[U[i].signal].value, made2[U[i].packet])
    <3>1. /\ made[U[i].packet] \in Descriptors
          /\ LastIs(ToldBy(U, U[i].signal), i - 1, k[U[i].signal].value, made[U[i].packet])
        BY <1>1, <2>1 DEF LinkValues
    <3>2. made2[U[i].packet] = made[U[i].packet]
        BY <1>1, <2>1, <3>1
    <3> QED
        BY <3>1, <3>2
  <2> QED
      BY <2>1 DEF LinkValues
<1>2. ASSUME NEW q, NEW w, NEW x, PendingValues(q, w, x, made),
             \A i \in 1 .. Len(q) : q[i].kind = "data" => q[i].packet \in Packets
      PROVE  PendingValues(q, w, x, made2)
  <2>1. ASSUME NEW i \in 1 .. Len(q), q[i].kind = "data"
        PROVE  made2[q[i].packet] \in Descriptors /\ LastIs(SaidBy(q), i - 1, w, made2[q[i].packet])
    <3>1. made[q[i].packet] \in Descriptors /\ LastIs(SaidBy(q), i - 1, w, made[q[i].packet])
        BY <1>2, <2>1 DEF PendingValues
    <3>2. made2[q[i].packet] = made[q[i].packet]
        BY <1>2, <2>1, <3>1
    <3> QED
        BY <3>1, <3>2
  <2> QED
      BY <1>2, <2>1 DEF PendingValues
<1> QED
    BY <1>1, <1>2

(* What was told last on a longer link.                                    *)
LEMMA ToldMore ==
    ASSUME NEW U \in Seq(Buffers), NEW c \in Buffers, NEW t, NEW w0, NEW w, LastIs(ToldBy(U, t), Len(U), w0, w)
    PROVE  LastIs(ToldBy(Append(U, c), t), Len(Append(U, c)), w0,
                  IF c.type = "event" /\ c.signal = t /\ c.event.value # Unchanged THEN c.event.value ELSE w)
<1> DEFINE V == Append(U, c)
           n == Len(U)
           v == ToldBy(V, t)
<1>1. /\ Len(V) = n + 1 /\ n \in Nat /\ \A i \in 1 .. n : v[i] = ToldBy(U, t)[i]
      /\ v[n + 1] = IF c.type = "event" /\ c.signal = t THEN c.event.value ELSE Unchanged
    BY ToldAppend
<1>2. LastIs(ToldBy(U, t), n, w0, w)
    OBVIOUS
<1> HIDE DEF v, n, V
<1>3. LastIs(v, n, w0, w)
    BY <1>1, <1>2, LastSame
<1>4. LastIs(v, n + 1, w0, IF v[n + 1] # Unchanged THEN v[n + 1] ELSE w)
    BY <1>1, <1>3, LastMore
<1>5. (IF v[n + 1] # Unchanged THEN v[n + 1] ELSE w)
          = IF c.type = "event" /\ c.signal = t /\ c.event.value # Unchanged THEN c.event.value ELSE w
    BY <1>1
<1> QED
    BY <1>1, <1>4, <1>5 DEF v, V

(* The values along the link and the connections.                          *)
AllValues(U, k, pend, src, made) ==
    /\ LinkValues(U, k, made)
    /\ \A t \in Signals : LinesMeet(U, k, pend[t], t, src[t], made)

(* A release joins the link.                                               *)
LEMMA QuietValues ==
    ASSUME NEW U \in Seq(Buffers), NEW c \in Buffers, c.type = "release", NEW k, NEW pend, NEW src, NEW made,
           AllValues(U, k, pend, src, made)
    PROVE  AllValues(Append(U, c), k, pend, src, made)
<1>1. LinkValues(Append(U, c), k, made)
    BY LinkValuesAppend DEF AllValues
<1>2. ASSUME NEW t \in Signals
      PROVE  LinesMeet(Append(U, c), k, pend[t], t, src[t], made)
  <2>1. PICK w : LastIs(ToldBy(U, t), Len(U), k[t].value, w) /\ PendingValues(pend[t], w, src[t], made)
      BY DEF AllValues, LinesMeet
  <2>2. LastIs(ToldBy(Append(U, c), t), Len(Append(U, c)), k[t].value,
               IF c.type = "event" /\ c.signal = t /\ c.event.value # Unchanged THEN c.event.value ELSE w)
      BY <2>1, ToldMore
  <2>3. LastIs(ToldBy(Append(U, c), t), Len(Append(U, c)), k[t].value, w)
      BY <2>2
  <2> QED
      BY <2>1, <2>3 DEF LinesMeet
<1> QED
    BY <1>1, <1>2 DEF AllValues

(* The first message of the signal s joins the link.                       *)
LEMMA MovedValues ==
    ASSUME NEW U \in Seq(Buffers), NEW c \in Buffers, NEW k, NEW src, NEW made,
           NEW pend \in [Signals -> Seq(Messages)], AllValues(U, k, pend, src, made),
           NEW s \in Signals, pend[s] # <<>>, c.signal = s,
           LET m == Head(pend[s])
           IN \/ m.kind = "event" /\ c.type = "event" /\ c.event = m
              \/ m.kind = "data" /\ c.type \in {"data", "alreadySent"} /\ c.packet = m.packet
    PROVE  AllValues(Append(U, c), k, [pend EXCEPT ![s] = Tail(@)], src, made)
<1> DEFINE m == Head(pend[s])
           V == Append(U, c)
           rest == [pend EXCEPT ![s] = Tail(@)]
<1>1. PICK w : LastIs(ToldBy(U, s), Len(U), k[s].value, w) /\ PendingValues(pend[s], w, src[s], made)
    BY DEF AllValues, LinesMeet
<1> DEFINE y == IF m.kind = "event" /\ m.value # Unchanged THEN m.value ELSE w
<1>2. pend[s] \in Seq(Messages)
    OBVIOUS
<1>3. /\ PendingValues(Tail(pend[s]), y, src[s], made)
      /\ m.kind = "data" => made[m.packet] \in Descriptors /\ w = made[m.packet]
    BY <1>1, <1>2, PendingValuesTail
<1>4. \/ m.kind = "event" /\ c.type = "event" /\ c.event = m
      \/ m.kind = "data" /\ c.type \in {"data", "alreadySent"} /\ c.packet = m.packet
    OBVIOUS
<1> HIDE DEF m
<1>5. LinkValues(V, k, made)
  <2>1. c.type = "data" => /\ made[c.packet] \in Descriptors
                           /\ LastIs(ToldBy(U, c.signal), Len(U), k[c.signal].value, made[c.packet])
      BY <1>1, <1>3, <1>4
  <2> QED
      BY <2>1, LinkValuesAppend DEF AllValues
<1>6. LastIs(ToldBy(V, s), Len(V), k[s].value, y)
  <2>1. LastIs(ToldBy(V, s), Len(V), k[s].value,
               IF c.type = "event" /\ c.signal = s /\ c.event.value # Unchanged THEN c.event.value ELSE w)
      BY <1>1, ToldMore
  <2>2. (IF c.type = "event" /\ c.signal = s /\ c.event.value # Unchanged THEN c.event.value ELSE w) = y
      BY <1>4
  <2> QED
      BY <2>1, <2>2
<1>7. rest[s] = Tail(pend[s]) /\ \A t \in Signals : t # s => rest[t] = pend[t]
    OBVIOUS
<1> HIDE DEF rest, y
<1>8. ASSUME NEW t \in Signals
      PROVE  LinesMeet(V, k, rest[t], t, src[t], made)
  <2>1. CASE t = s
      BY <1>3, <1>6, <1>7, <2>1 DEF LinesMeet
  <2>2. CASE t # s
    <3>1. PICK z : LastIs(ToldBy(U, t), Len(U), k[t].value, z) /\ PendingValues(pend[t], z, src[t], made)
        BY DEF AllValues, LinesMeet
    <3>2. LastIs(ToldBy(V, t), Len(V), k[t].value,
                 IF c.type = "event" /\ c.signal = t /\ c.event.value # Unchanged THEN c.event.value ELSE z)
        BY <3>1, ToldMore
    <3>3. LastIs(ToldBy(V, t), Len(V), k[t].value, z)
        BY <2>2, <3>2
    <3> QED
        BY <1>7, <2>2, <3>1, <3>3 DEF LinesMeet
  <2> QED
      BY <2>1, <2>2
<1> QED
    BY <1>5, <1>8 DEF AllValues, rest

(* addDaqPacket, which queues b.                                           *)
LEMMA AddValues ==
    ASSUME StreamTypes, ValueInv, NEW s \in Signals, pending[s] # <<>>,
           NEW b \in Buffers, NEW ready \in SUBSET Packets, IsFiniteSet(ready),
           Queued(out.queue, b, ready, out'.queue), b.signal = s,
           LET m == Head(pending[s])
           IN \/ m.kind = "event" /\ b.type = "event" /\ b.event = m
              \/ m.kind = "data" /\ b.type \in {"data", "alreadySent"} /\ b.packet = m.packet,
           pending' = [pending EXCEPT ![s] = Tail(@)],
           UNCHANGED <<wire, source, descriptorOf, known, referencedPackets, received, delayed>>
    PROVE  ValueInv'
<1> DEFINE r == out'.queue
           U == Underway
           rest == [pending EXCEPT ![s] = Tail(@)]
<1>1. wire \in Seq(Buffers) /\ out.queue \in Seq(Buffers) /\ pending \in [Signals -> Seq(Messages)]
    BY DEF StreamTypes
<1>2. Underway' = wire \o r /\ U = wire \o out.queue /\ U \in Seq(Buffers)
    BY <1>1, ConcatProperties DEF Underway
<1>3. PICK c \in Buffers :
        /\ SameButGroup(c, b)
        /\ IF ReleaseDue(ready)
           THEN \E x \in Buffers : SameButGroup(x, ReleaseBuffer(ready)) /\ r = Append(Append(out.queue, c), x)
           ELSE r = Append(out.queue, c)
    BY DEF Queued
<1>4. c.packet = b.packet /\ c.signal = b.signal /\ c.type = b.type /\ c.event = b.event
    BY <1>3 DEF SameButGroup
<1>5. wire \o Append(out.queue, c) = Append(U, c)
    BY <1>1, <1>2, ConcatAppend
<1>6. AllValues(U, known, pending, source, descriptorOf)
    BY DEF ValueInv, AllValues
<1> HIDE DEF r, U
<1>7. AllValues(Append(U, c), known, rest, source, descriptorOf)
    BY <1>1, <1>2, <1>4, <1>6, MovedValues
<1> HIDE DEF rest
<1>8. Append(U, c) \in Seq(Buffers) /\ Append(out.queue, c) \in Seq(Buffers)
    BY <1>1, <1>2, AppendProperties
<1>9. AllValues(Underway', known, rest, source, descriptorOf)
  <2>1. CASE ReleaseDue(ready)
    <3>1. PICK x \in Buffers : SameButGroup(x, ReleaseBuffer(ready)) /\ r = Append(Append(out.queue, c), x)
        BY <1>3, <2>1
    <3>2. x.type = "release"
      <4>1. ReleaseBuffer(ready).type = "release"
          BY ReleaseMade
      <4> QED
          BY <3>1, <4>1 DEF SameButGroup
    <3>3. Underway' = Append(Append(U, c), x)
      <4> DEFINE z == Append(out.queue, c)
      <4>1. z \in Seq(Buffers) /\ wire \o z = Append(U, c) /\ r = Append(z, x)
          BY <1>5, <1>8, <3>1
      <4> HIDE DEF z
      <4>2. wire \o Append(z, x) = Append(wire \o z, x)
          BY <1>1, <4>1, ConcatAppend
      <4> QED
          BY <1>2, <4>1, <4>2
    <3> DEFINE V == Append(U, c)
    <3>4. V \in Seq(Buffers) /\ AllValues(V, known, rest, source, descriptorOf)
        BY <1>7, <1>8
    <3> HIDE DEF V
    <3>5. AllValues(Append(V, x), known, rest, source, descriptorOf)
        BY <3>2, <3>4, QuietValues
    <3> QED
        BY <3>3, <3>5 DEF V
  <2>2. CASE ~ReleaseDue(ready)
    <3>1. Underway' = Append(U, c)
        BY <1>2, <1>3, <1>5, <2>2
    <3> QED
        BY <1>7, <3>1
  <2> QED
      BY <2>1, <2>2
<1>10. /\ LinkValues(Underway', known, descriptorOf)
       /\ \A t \in Signals : LinesMeet(Underway', known, rest[t], t, source[t], descriptorOf)
    BY <1>9 DEF AllValues
<1>11. pending' = rest
    BY DEF rest
<1> QED
    BY <1>10, <1>11 DEF ValueInv, MadeWith

(* addDaqPacket of an event.                                               *)
LEMMA AddEventValues ==
    ASSUME StreamInv, ValueInv, NEW s \in Signals, AddEventPacket(s)
    PROVE  ValueInv'
<1> DEFINE e == Head(pending[s])
           b == EventBuffer(s, e)
<1>1. StreamTypes /\ GroupsOK(out)
    BY DEF StreamInv
<1>2. /\ pending[s] # <<>> /\ e.kind = "event" /\ pending' = [pending EXCEPT ![s] = Tail(@)]
      /\ UNCHANGED <<wire, source, descriptorOf, known, referencedPackets, received, delayed>>
    BY DEF AddEventPacket, clientVars
<1>3. Queued(out.queue, b, readyForRelease, out'.queue)
    BY <1>1, AddEventTypes
<1>4. b \in Buffers /\ b.type = "event" /\ b.signal = s /\ b.event = e
    BY <1>1, <1>2, FirstMessage, BuffersMade
<1>5. readyForRelease \in SUBSET Packets /\ IsFiniteSet(readyForRelease)
    BY <1>1 DEF StreamTypes
<1> HIDE DEF b
<1> QED
    BY <1>1, <1>2, <1>3, <1>4, <1>5, AddValues

(* addDaqPacket of a data packet.                                          *)
LEMMA AddDataValues ==
    ASSUME StreamInv, ValueInv, NEW s \in Signals, NEW moved \in BOOLEAN, AddDataPacket(s, moved)
    PROVE  ValueInv'
<1> DEFINE b == Added(s, moved)
           ready == readyForRelease \cup Gone(s, moved)
<1>1. StreamTypes /\ GroupsOK(out)
    BY DEF StreamInv
<1>2. /\ pending[s] # <<>> /\ Head(pending[s]).kind = "data" /\ pending' = [pending EXCEPT ![s] = Tail(@)]
      /\ UNCHANGED <<wire, source, descriptorOf, known, referencedPackets, received, delayed>>
    BY DEF AddDataPacket, clientVars
<1>3. /\ b \in Buffers /\ b.packet = Head(pending[s]).packet /\ b.signal = s /\ b.type \in {"data", "alreadySent"}
      /\ ready \in SUBSET Packets /\ IsFiniteSet(ready) /\ Queued(out.queue, b, ready, out'.queue)
    BY <1>1, AddedIs
<1> HIDE DEF b, ready
<1> QED
    BY <1>1, <1>2, <1>3, AddValues

(* What is under way is well-shaped.                                       *)
LEMMA UnderwayShaped ==
    ASSUME StreamTypes
    PROVE  /\ Underway \in Seq(Buffers) /\ Len(Underway) \in Nat
           /\ \A i \in 1 .. Len(Underway) : Shaped(Underway[i])
<1> DEFINE w == wire
           q == out.queue
           U == w \o q
<1>1. w \in Seq(Buffers) /\ q \in Seq(Buffers) /\ AllShaped(w) /\ AllShaped(q)
    BY DEF StreamTypes
<1>2. /\ DOMAIN w = 1 .. Len(w) /\ DOMAIN q = 1 .. Len(q) /\ Len(w) \in Nat /\ Len(q) \in Nat
    BY <1>1, LenProperties
<1> HIDE DEF w, q
<1>3. /\ U \in Seq(Buffers) /\ Len(U) = Len(w) + Len(q)
      /\ \A i \in 1 .. Len(w) + Len(q) : U[i] = IF i <= Len(w) THEN w[i] ELSE q[i - Len(w)]
    BY <1>1, ConcatProperties
<1> HIDE DEF U
<1>4. ASSUME NEW i \in 1 .. Len(w) + Len(q)
      PROVE  Shaped(U[i])
  <2>1. CASE i <= Len(w)
    <3>1. i \in 1 .. Len(w) /\ U[i] = w[i]
        BY <1>2, <1>3, <2>1
    <3> QED
        BY <1>1, <1>2, <3>1 DEF AllShaped
  <2>2. CASE ~(i <= Len(w))
    <3>1. i - Len(w) \in 1 .. Len(q) /\ U[i] = q[i - Len(w)]
        BY <1>2, <1>3, <2>2
    <3> QED
        BY <1>1, <1>2, <3>1 DEF AllShaped
  <2> QED
      BY <2>1, <2>2
<1>5. Underway = U
    BY DEF Underway, U, w, q
<1> QED
    BY <1>2, <1>3, <1>4, <1>5

(* A signal changes its descriptor, or sends a packet made with it.        *)
LEMMA SourceValues ==
    ASSUME StreamTypes, ReceivedTypes, ValueInv,
           \/ \E s \in Signals, e \in LaterEvents : SetDescriptor(s, e)
           \/ \E p \in Packets, s \in Signals : SendPacket(p, s)
    PROVE  ValueInv'
<1>1. /\ pending \in [Signals -> Seq(Messages)] /\ Underway \in Seq(Buffers)
      /\ \A i \in 1 .. Len(Underway) : Underway[i].type = "data" => Underway[i].packet \in Packets
    BY UnderwayShaped DEF StreamTypes, Shaped
<1>2. /\ source \in [Signals -> Descriptors] /\ descriptorOf \in [Packets -> Told]
      /\ LinkValues(Underway, known, descriptorOf)
      /\ \A s \in Signals : LinesMeet(Underway, known, pending[s], s, source[s], descriptorOf)
    BY DEF ValueInv
<1>3. ASSUME NEW s \in Signals, NEW e \in LaterEvents, SetDescriptor(s, e)
      PROVE  ValueInv'
  <2>1. /\ pending' = [pending EXCEPT ![s] = Append(@, e)]
        /\ source' = [source EXCEPT ![s] = IF e.value = Unchanged THEN @ ELSE e.value]
        /\ UNCHANGED <<descriptorOf, known, referencedPackets, received, delayed>> /\ Underway' = Underway
      BY <1>3 DEF SetDescriptor, serverVars, clientVars, Underway
  <2>2. e \in Messages /\ e.kind = "event" /\ e.value \in Told
      BY DEF LaterEvents, Event, Messages, Events, Told
  <2>3. source' \in [Signals -> Descriptors]
      BY <1>2, <2>1, <2>2 DEF Told
  <2>4. ASSUME NEW t \in Signals
        PROVE  LinesMeet(Underway, known, pending'[t], t, source'[t], descriptorOf)
    <3>1. PICK w : /\ LastIs(ToldBy(Underway, t), Len(Underway), known[t].value, w)
                   /\ PendingValues(pending[t], w, source[t], descriptorOf)
        BY <1>2 DEF LinesMeet
    <3>2. CASE t # s
      <4>1. pending'[t] = pending[t] /\ source'[t] = source[t]
          BY <1>1, <1>2, <2>1, <3>2
      <4> QED
          BY <1>2, <4>1
    <3>3. CASE t = s
      <4>1. /\ pending'[t] = Append(pending[t], e)
            /\ source'[t] = IF e.kind = "event" /\ e.value # Unchanged THEN e.value ELSE source[t]
          BY <1>1, <1>2, <2>1, <2>2, <3>3
      <4>2. pending[t] \in Seq(Messages) /\ e.kind # "data"
          BY <1>1, <2>2
      <4>3. PendingValues(Append(pending[t], e), w,
                          IF e.kind = "event" /\ e.value # Unchanged THEN e.value ELSE source[t], descriptorOf)
          BY <2>2, <3>1, <4>2, PendingValuesAppend
      <4>4. PendingValues(pending'[t], w, source'[t], descriptorOf)
          BY <4>1, <4>3
      <4> QED
          BY <3>1, <4>4 DEF LinesMeet
    <3> QED
        BY <3>2, <3>3
  <2> QED
      BY <1>2, <2>1, <2>3, <2>4 DEF ValueInv, MadeWith
<1>4. ASSUME NEW p \in Packets, NEW s \in Signals, SendPacket(p, s)
      PROVE  ValueInv'
  <2> DEFINE made == descriptorOf
             made2 == [descriptorOf EXCEPT ![p] = source[s]]
             m == Data(p)
  <2>1. /\ pending' = [pending EXCEPT ![s] = Append(@, m)] /\ descriptorOf' = made2
        /\ descriptorOf[p] \in {Unchanged, source[s]}
        /\ UNCHANGED <<source, known, referencedPackets, received, delayed>> /\ Underway' = Underway
      BY <1>4 DEF SendPacket, serverVars, clientVars, Underway
  <2>2. source[s] \in Descriptors /\ made2 \in [Packets -> Told] /\ made2[p] = source[s]
      BY <1>2 DEF Told
  <2>3. \A o \in Packets : made[o] \in Descriptors => made2[o] = made[o]
      BY <1>2, <2>1, PacketStreamingAssumption
  <2>4. m \in Messages /\ m.kind = "data" /\ m.packet = p
      BY DEF Data, Messages
  <2>5. ASSUME NEW o \in Packets, NEW x, MadeWith(o, x)
        PROVE  MadeWith(o, x)'
      BY <2>1, <2>3, <2>5 DEF MadeWith
  <2> HIDE DEF made2, made, m
  <2>6. LinkValues(Underway, known, made2)
    <3>1. LinkValues(Underway, known, made)
        BY <1>2 DEF made
    <3> QED
        BY <1>1, <2>3, <3>1, ValuesMade
  <2>7. ASSUME NEW t \in Signals
        PROVE  LinesMeet(Underway, known, pending'[t], t, source[t], made2)
    <3>1. PICK w : /\ LastIs(ToldBy(Underway, t), Len(Underway), known[t].value, w)
                   /\ PendingValues(pending[t], w, source[t], made)
        BY <1>2 DEF LinesMeet, made
    <3>2. pending[t] \in Seq(Messages) /\ \A i \in 1 .. Len(pending[t]) : pending[t][i] \in Messages
        BY <1>1, ElementOfSeq
    <3>3. \A i \in 1 .. Len(pending[t]) : pending[t][i].kind = "data" => pending[t][i].packet \in Packets
        BY <3>2 DEF Messages, Events, Data
    <3>4. PendingValues(pending[t], w, source[t], made2)
        BY <2>3, <3>1, <3>3, ValuesMade
    <3>5. CASE t # s
      <4>1. pending'[t] = pending[t]
          BY <1>1, <2>1, <3>5
      <4> QED
          BY <3>1, <3>4, <4>1 DEF LinesMeet
    <3>6. CASE t = s
      <4>1. pending'[t] = Append(pending[t], m)
          BY <1>1, <2>1, <3>6
      <4>2. m.kind = "data" => made2[m.packet] = source[t] /\ source[t] \in Descriptors
          BY <2>2, <2>4, <3>6
      <4>3. PendingValues(Append(pending[t], m), w,
                          IF m.kind = "event" /\ m.value # Unchanged THEN m.value ELSE source[t], made2)
          BY <2>4, <3>2, <3>4, <4>2, PendingValuesAppend
      <4>4. PendingValues(pending'[t], w, source[t], made2)
          BY <2>4, <4>1, <4>3
      <4> QED
          BY <3>1, <4>4 DEF LinesMeet
    <3> QED
        BY <3>5, <3>6
  <2>8. \A o \in DOMAIN referencedPackets : o \notin delayed => MadeWith(o, referencedPackets[o])'
    <3>1. \A o \in DOMAIN referencedPackets : o \in Packets
        BY DEF StreamTypes
    <3>2. \A o \in DOMAIN referencedPackets : o \notin delayed => MadeWith(o, referencedPackets[o])
        BY DEF ValueInv
    <3> QED
        BY <2>1, <2>3, <3>1, <3>2 DEF MadeWith, made
  <2>9. ASSUME NEW i \in 1 .. Len(received), received[i].kind = "data", received[i].packet \notin delayed
        PROVE  MadeWith(received[i].packet, received[i].descriptor)'
    <3>1. received[i] \in Items
        BY ElementOfSeq DEF ReceivedTypes
    <3>2. received[i].packet \in Packets
        BY <2>9, <3>1 DEF Items, DataItems, EventItems
    <3>3. MadeWith(received[i].packet, received[i].descriptor)
        BY <2>9 DEF ValueInv
    <3> QED
        BY <2>1, <2>3, <3>2, <3>3 DEF MadeWith, made
  <2>10. /\ \A o \in DOMAIN referencedPackets' : o \notin delayed' => MadeWith(o, referencedPackets[o])'
         /\ \A i \in 1 .. Len(received') : received'[i].kind = "data" /\ received'[i].packet \notin delayed'
               => MadeWith(received[i].packet, received[i].descriptor)'
      BY <2>1, <2>8, <2>9
  <2> QED
      BY <1>2, <2>1, <2>2, <2>6, <2>7, <2>10 DEF ValueInv
<1> QED
    BY <1>3, <1>4

(* The items of r that did not wait are made as they should be.            *)
GoodItems(r, D) ==
    \A i \in 1 .. Len(r) : r[i].kind = "data" /\ r[i].packet \notin D => MadeWith(r[i].packet, r[i].descriptor)

(* Items of two lists.                                                     *)
LEMMA GoodConcat ==
    ASSUME NEW r \in Seq(Items), NEW q \in Seq(Items), NEW D, GoodItems(r, D), GoodItems(q, D)
    PROVE  GoodItems(r \o q, D)
<1> DEFINE r2 == r \o q
<1>1. /\ Len(r) \in Nat /\ Len(q) \in Nat /\ Len(r2) = Len(r) + Len(q)
      /\ \A i \in 1 .. Len(r) + Len(q) : r2[i] = IF i <= Len(r) THEN r[i] ELSE q[i - Len(r)]
    BY ConcatProperties, LenProperties
<1> HIDE DEF r2
<1>2. ASSUME NEW i \in 1 .. Len(r2), r2[i].kind = "data", r2[i].packet \notin D
      PROVE  MadeWith(r2[i].packet, r2[i].descriptor)
  <2>1. CASE i <= Len(r)
    <3>1. i \in 1 .. Len(r) /\ r2[i] = r[i]
        BY <1>1, <2>1
    <3> QED
        BY <1>2, <3>1 DEF GoodItems
  <2>2. CASE ~(i <= Len(r))
    <3>1. i - Len(r) \in 1 .. Len(q) /\ r2[i] = q[i - Len(r)]
        BY <1>1, <2>2
    <3> QED
        BY <1>2, <3>1 DEF GoodItems
  <2> QED
      BY <2>1, <2>2
<1>3. GoodItems(r2, D)
    BY <1>2 DEF GoodItems
<1> QED
    BY <1>3 DEF r2

(* What the client knows after the buffer b.                               *)
LEMMA KnownAfter ==
    ASSUME ClientTypes, NEW b \in Buffers, Shaped(b), NEW s \in Signals,
           \/ AddEventPacketBuffer(b) \/ AddDataPacketBuffer(b)
           \/ AddReleasePacketBuffer(b) \/ AddAlreadySentPacketBuffer(b)
    PROVE  known'[s].value = IF b.type = "event" /\ b.signal = s /\ b.event.value # Unchanged
                             THEN b.event.value ELSE known[s].value
<1>1. known \in [Signals -> [value : Told, domain : Told]]
    BY DEF ClientTypes
<1>2. CASE AddEventPacketBuffer(b)
  <2> DEFINE e == b.event
  <2>1. /\ b.type = "event" /\ b.signal \in Signals
        /\ known' = [known EXCEPT
              ![b.signal].value = IF e.value = Unchanged THEN @ ELSE e.value,
              ![b.signal].domain = IF e.domain = Unchanged THEN @ ELSE e.domain]
      BY <1>2 DEF AddEventPacketBuffer, Shaped
  <2>2. known[s] \in [value : Told, domain : Told]
      BY <1>1
  <2> HIDE DEF e
  <2>3. known'[s].value = IF s = b.signal /\ e.value # Unchanged THEN e.value ELSE known[s].value
      BY <1>1, <2>1, <2>2
  <2> QED
      BY <2>1, <2>3 DEF e
<1>3. CASE AddDataPacketBuffer(b) \/ AddReleasePacketBuffer(b) \/ AddAlreadySentPacketBuffer(b)
  <2>1. b.type # "event" /\ UNCHANGED known
      BY <1>3 DEF AddDataPacketBuffer, AddReleasePacketBuffer, AddAlreadySentPacketBuffer
  <2> QED
      BY <2>1
<1> QED
    BY <1>2, <1>3

(* addPacketBuffer.                                                        *)
LEMMA ClientValues ==
    ASSUME StreamInv, LossInv, WaitersDelayed, ValueInv, AddPacketBuffer, failed' = FALSE
    PROVE  ValueInv'
<1> DEFINE b == Head(wire)
           U == Underway
           D == delayed'
<1>1. /\ b \in Buffers /\ Shaped(b)
      /\ U \in Seq(Buffers) /\ U # <<>> /\ U[1] = b /\ Underway' = Tail(U)
      /\ \/ AddEventPacketBuffer(b) \/ AddDataPacketBuffer(b)
         \/ AddReleasePacketBuffer(b) \/ AddAlreadySentPacketBuffer(b)
      /\ Passes(b) /\ received \in Seq(Items) /\ received' \in Seq(Items)
      /\ UNCHANGED <<pending, source, descriptorOf>>
    BY HeadPasses
<1>2. StreamTypes /\ ClientTypes
    BY DEF StreamInv, StreamTypes, ClientTypes
<1>3. \A i \in 1 .. Len(U) : Shaped(U[i])
    BY <1>2, UnderwayShaped
<1>4. /\ LinkValues(U, known, descriptorOf)
      /\ \A s \in Signals : LinesMeet(U, known, pending[s], s, source[s], descriptorOf)
      /\ \A p \in DOMAIN referencedPackets : p \notin delayed => MadeWith(p, referencedPackets[p])
      /\ GoodItems(received, delayed)
    BY DEF ValueInv, GoodItems
<1> HIDE DEF b, U
<1>5. /\ Len(U) \in Nat \ {0} /\ Len(Tail(U)) = Len(U) - 1
      /\ \A s : /\ \A i \in 1 .. Len(U) - 1 : ToldBy(Tail(U), s)[i] = ToldBy(U, s)[i + 1]
                /\ ToldBy(U, s)[1] = IF b.type = "event" /\ b.signal = s THEN b.event.value ELSE Unchanged
    BY <1>1, ToldTail
<1>6. \A s \in Signals : known'[s].value = IF ToldBy(U, s)[1] # Unchanged THEN ToldBy(U, s)[1] ELSE known[s].value
  <2> SUFFICES ASSUME NEW s \in Signals
               PROVE  known'[s].value = IF ToldBy(U, s)[1] # Unchanged THEN ToldBy(U, s)[1] ELSE known[s].value
      OBVIOUS
  <2>1. known'[s].value = IF b.type = "event" /\ b.signal = s /\ b.event.value # Unchanged
                          THEN b.event.value ELSE known[s].value
      BY <1>1, <1>2, KnownAfter
  <2> QED
      BY <1>5, <2>1
<1>7. LinkValues(Tail(U), known', descriptorOf)
  <2>1. \A i \in 1 .. Len(U) : U[i].type = "data" => U[i].signal \in Signals
      BY <1>3 DEF Shaped
  <2> QED
      BY <1>1, <1>4, <1>6, <2>1, LinkValuesTail
<1>8. ASSUME NEW s \in Signals
      PROVE  LinesMeet(Tail(U), known', pending[s], s, source[s], descriptorOf)
  <2> DEFINE n == Len(U) - 1
             v == ToldBy(U, s)
             u == ToldBy(Tail(U), s)
  <2>1. PICK w : LastIs(v, Len(U), known[s].value, w) /\ PendingValues(pending[s], w, source[s], descriptorOf)
      BY <1>4 DEF LinesMeet
  <2>2. n \in Nat /\ Len(U) = n + 1 /\ Len(Tail(U)) = n
      BY <1>5
  <2>3. \A i \in 1 .. n : u[i] = v[i + 1]
      BY <1>5
  <2>4. known'[s].value = IF v[1] # Unchanged THEN v[1] ELSE known[s].value
      BY <1>6
  <2> HIDE DEF n, u, v
  <2>5. LastIs(u, n, IF v[1] # Unchanged THEN v[1] ELSE known[s].value, w)
      BY <2>1, <2>2, <2>3, LastShift
  <2>6. LastIs(u, Len(Tail(U)), known'[s].value, w)
      BY <2>2, <2>4, <2>5
  <2> QED
      BY <2>1, <2>6 DEF LinesMeet, u
<1>9. b.type = "data" => MadeWith(b.packet, known[b.signal].value)
  <2> SUFFICES ASSUME b.type = "data"
               PROVE  MadeWith(b.packet, known[b.signal].value)
      OBVIOUS
  <2>1. 1 \in 1 .. Len(U) /\ 1 - 1 = 0
      BY <1>5
  <2>2. /\ descriptorOf[b.packet] \in Descriptors
        /\ LastIs(ToldBy(U, b.signal), 1 - 1, known[b.signal].value, descriptorOf[b.packet])
      BY <1>1, <1>4, <2>1 DEF LinkValues
  <2>3. known[b.signal].value = descriptorOf[b.packet]
      BY <2>1, <2>2, LastNone
  <2> QED
      BY <2>2, <2>3 DEF MadeWith
<1>10. delayed \subseteq D
    BY <1>1 DEF Passes
<1>11. ASSUME NEW p \in DOMAIN referencedPackets', p \notin D
       PROVE  MadeWith(p, referencedPackets'[p])
  <2>1. \/ p \in DOMAIN referencedPackets /\ referencedPackets'[p] = referencedPackets[p]
        \/ b.type = "data" /\ p = b.packet /\ referencedPackets'[p] = known[b.signal].value
      BY <1>1, <1>11 DEF Passes
  <2>2. CASE p \in DOMAIN referencedPackets /\ referencedPackets'[p] = referencedPackets[p]
      BY <1>4, <1>10, <1>11, <2>2
  <2>3. CASE b.type = "data" /\ p = b.packet /\ referencedPackets'[p] = known[b.signal].value
      BY <1>9, <2>3
  <2> QED
      BY <2>1, <2>2, <2>3
<1>12. GoodItems(received', D)
  <2>1. PICK q : Arrived(b, q)
      BY <1>1 DEF Passes
  <2>2. q \in Seq(Items) /\ GoodItems(q, D)
      BY <2>1 DEF Arrived, GoodItems
  <2>3. GoodItems(received, D)
      BY <1>4, <1>10 DEF GoodItems
  <2>4. CASE received' = received \o q
      BY <1>1, <2>2, <2>3, <2>4, GoodConcat
  <2>5. ASSUME NEW x, HandsOut(b, x), received' = Append(received, x) \o q
        PROVE  GoodItems(received', D)
    <3>1. x \in Items /\ x.packet = b.packet
        BY <2>5 DEF HandsOut, Items
    <3>2. x.packet \notin D => MadeWith(x.packet, x.descriptor)
        BY <1>4, <1>9, <1>10, <2>5 DEF HandsOut
    <3>3. <<x>> \in Seq(Items) /\ GoodItems(<<x>>, D)
        BY <3>1, <3>2 DEF GoodItems
    <3> DEFINE r == Append(received, x)
    <3>4. r = received \o <<x>> /\ r \in Seq(Items)
        BY <1>1, <3>1, AppendIsConcat, AppendProperties
    <3>5. GoodItems(received \o <<x>>, D)
        BY <1>1, <2>3, <3>3, GoodConcat
    <3> HIDE DEF r
    <3>6. GoodItems(r \o q, D)
        BY <2>2, <3>4, <3>5, GoodConcat
    <3> QED
        BY <2>5, <3>6 DEF r
  <2> QED
      BY <2>1, <2>4, <2>5 DEF Arrived
<1>13. source \in [Signals -> Descriptors] /\ descriptorOf \in [Packets -> Told]
    BY DEF ValueInv
<1>14. /\ \A p \in DOMAIN referencedPackets' : p \notin delayed' => MadeWith(p, referencedPackets[p])'
       /\ \A i \in 1 .. Len(received') : received'[i].kind = "data" /\ received'[i].packet \notin delayed'
             => MadeWith(received[i].packet, received[i].descriptor)'
    BY <1>1, <1>11, <1>12 DEF GoodItems, MadeWith
<1> QED
    BY <1>1, <1>7, <1>8, <1>13, <1>14 DEF ValueInv

(* Every step.                                                             *)
LEMMA NextValues ==
    ASSUME StreamInv, LossInv, OrderInv, ValueInv, [StreamNext]_streamVars
    PROVE  ValueInv'
<1>1. StreamTypes /\ GroupsOK(out) /\ ReceivedTypes /\ WaitersDelayed
    BY DEF StreamInv, LossInv, OrderInv
<1>2. failed' = FALSE
    BY NextStreamInv DEF StreamInv
<1>3. CASE Underway' = Underway
           /\ UNCHANGED <<pending, source, descriptorOf, known, referencedPackets, received, delayed>>
    BY <1>3 DEF ValueInv, MadeWith
<1>4. CASE UNCHANGED streamVars
    BY <1>3, <1>4 DEF streamVars, sourceVars, serverVars, clientVars, Underway
<1>5. CASE GetStreamingWriteTask
  <2>1. Underway' = Underway
      BY <1>1, <1>5, TakeTypes
  <2> QED
      BY <1>3, <1>5, <2>1 DEF GetStreamingWriteTask, sourceVars, clientVars
<1>6. ASSUME NEW p \in Packets, DropPacket(p)
      PROVE  ValueInv'
    BY <1>3, <1>6 DEF DropPacket, clientVars, serverVars, Underway
<1>7. CASE AddPacketBuffer
    BY <1>1, <1>2, <1>7, ClientValues
<1> QED
    BY <1>1, <1>4, <1>5, <1>6, <1>7, AddEventValues, AddDataValues, SourceValues DEF StreamNext

(* At the start nothing was received, added or put on the link, and every  *)
(* connection holds the first descriptor.                                  *)
LEMMA InitOrder ==
    ASSUME StreamInit
    PROVE  OrderInv /\ ValueInv
<1>1. /\ received = <<>> /\ DOMAIN referencedPackets = {} /\ wire = <<>> /\ out.queue = <<>>
      /\ \A d \in Packets : waiting[d] = <<>>
      /\ \A s \in Signals : addedTo[s] = <<>> /\ source[s] = FirstDescriptor /\ known[s].value = Unchanged
      /\ \A s \in Signals : pending[s] = <<Event(FirstDescriptor, FirstDescriptor)>>
      /\ source = [s \in Signals |-> FirstDescriptor] /\ descriptorOf = [p \in Packets |-> Unchanged]
    BY DEF StreamInit
<1>2. Underway = <<>>
    BY <1>1 DEF Underway
<1>3. Len(<<>>) = 0 /\ 1 .. 0 = {} /\ DOMAIN <<>> = {}
    OBVIOUS
<1>4. WaitersDelayed
    BY <1>1, <1>3 DEF WaitersDelayed
<1>5. ASSUME NEW s \in Signals
      PROVE  InOrder(received, Underway, addedTo[s], s, delayed)
  <2>1. /\ Gets(received, s, delayed) = {} /\ Nears(Underway, s, delayed) = {}
        /\ Puts(addedTo[s], delayed) = {}
      BY <1>1, <1>2, <1>3 DEF Gets, Nears, Puts
  <2>2. OrderedBy(<<>>, <<>>, received, Underway, addedTo[s], s, delayed)
      BY <2>1, Zenon DEF OrderedBy, Rising
  <2> QED
      BY <2>2 DEF InOrder
<1>6. LinkValues(Underway, known, descriptorOf)
    BY <1>2, <1>3 DEF LinkValues
<1>7. ASSUME NEW s \in Signals
      PROVE  LinesMeet(Underway, known, pending[s], s, source[s], descriptorOf)
  <2> DEFINE e == Event(FirstDescriptor, FirstDescriptor)
             q == <<e>>
             f == FirstDescriptor
  <2>1. LastIs(ToldBy(Underway, s), Len(Underway), known[s].value, Unchanged)
      BY <1>1, <1>2, <1>3, LastNone
  <2>2. e.kind = "event" /\ e.value = f /\ f # Unchanged /\ f \in Descriptors
      BY PacketStreamingAssumption DEF Event
  <2> HIDE DEF e, f
  <2>3. Len(q) = 1 /\ q[1] = e /\ 1 .. 1 = {1}
      OBVIOUS
  <2>4. SaidBy(q)[1] = f
      BY <2>2, <2>3 DEF SaidBy
  <2>5. LastIs(SaidBy(q), Len(q), Unchanged, f)
      BY <2>2, <2>3, <2>4 DEF LastIs
  <2>6. \A i \in 1 .. Len(q) : q[i].kind # "data"
      BY <2>2, <2>3
  <2>7. PendingValues(q, Unchanged, f, descriptorOf)
      BY <2>5, <2>6 DEF PendingValues
  <2>8. pending[s] = q /\ source[s] = f
      BY <1>1 DEF e, f
  <2> QED
      BY <2>1, <2>7, <2>8 DEF LinesMeet
<1>8. source \in [Signals -> Descriptors] /\ descriptorOf \in [Packets -> Told]
    BY <1>1, PacketStreamingAssumption DEF Told
<1>9. OrderInv
    BY <1>4, <1>5 DEF OrderInv
<1>10. ValueInv
    BY <1>1, <1>3, <1>6, <1>7, <1>8 DEF ValueInv
<1> QED
    BY <1>9, <1>10

(* A signal's packets are in the client's queue as they were given to      *)
(* addDaqPacket: the n-th received is the n-th added, made with the        *)
(* descriptor its signal had when it was sent.  Grouping of the buffers,   *)
(* packets that cross the link by id alone and descriptors that change     *)
(* meanwhile do not disturb that; only the packets that had to wait for    *)
(* their domain packet are exempt.                                         *)
THEOREM ArriveAsSent == StreamSpec => []ReceivedAsSent
<1>1. StreamInit => StreamInv /\ LossInv /\ OrderInv /\ ValueInv
    BY InitStreamInv, InitLoss, InitOrder
<1>2. StreamInv /\ LossInv /\ OrderInv /\ ValueInv /\ [StreamNext]_streamVars
          => StreamInv' /\ LossInv' /\ OrderInv' /\ ValueInv'
    BY NextStreamInv, NextLoss, NextOrder, NextValues
<1>3. LossInv /\ OrderInv /\ ValueInv => ReceivedAsSent
  <2> SUFFICES ASSUME LossInv, OrderInv, ValueInv
               PROVE  ReceivedAsSent
      OBVIOUS
  <2>1. ASSUME NEW s \in Signals, NEW i \in Got(s)
        PROVE  \E j \in Put(s) : /\ addedTo[s][j].packet = received[i].packet
                                 /\ UpTo(Got(s), i) = UpTo(Put(s), j)
      BY OrderMeans
  <2>2. DOMAIN received = 1 .. Len(received)
      BY LenProperties DEF LossInv, ReceivedTypes
  <2>3. ASSUME NEW i \in DOMAIN received, received[i].kind = "data", received[i].packet \notin delayed
        PROVE  received[i].descriptor = descriptorOf[received[i].packet]
    <3>1. MadeWith(received[i].packet, received[i].descriptor)
        BY <2>2, <2>3 DEF ValueInv
    <3> QED
        BY <3>1 DEF MadeWith
  <2> QED
      BY <2>1, <2>3 DEF ReceivedAsSent
<1> QED
    BY <1>1, <1>2, <1>3, PTL DEF StreamSpec
=============================================================================
