--------------------------- MODULE ConnectionProofs ---------------------------
(***************************************************************************)
(* Proofs about Connection for every value of its constants: the counters  *)
(* of ConnectionImpl never go below zero and never fall behind the queue;  *)
(* first in first out, descriptors in force where they were announced,     *)
(* gaps marked where they are, and exact answers about events.             *)
(***************************************************************************)
EXTENDS Connection, SequenceTheorems, FiniteSetTheorems, TLAPS

--------------------------------------------------------------------------------
(***************************************************************************)
(* Counting packets and samples of a queue is additive.                    *)
(***************************************************************************)

(* The packets of given kinds in a queue can be counted.                   *)
LEMMA PacketCountType ==
    ASSUME NEW q \in Seq(Packet), NEW K
    PROVE  /\ IsFiniteSet(PlacesOf(q, K))
           /\ PacketCount(q, K) \in Nat
<1>1. IsFiniteSet(1 .. Len(q))
    BY FS_Interval
<1>2. PlacesOf(q, K) \in SUBSET (1 .. Len(q))
    BY DEF PlacesOf
<1> QED
    BY <1>1, <1>2, FS_Subset, FS_CardinalityType DEF PacketCount

(* Counting packets of a concatenation: the sum of the counts.             *)
LEMMA PacketCountConcat ==
    ASSUME NEW s \in Seq(Packet), NEW t \in Seq(Packet), NEW K
    PROVE  PacketCount(s \o t, K) = PacketCount(s, K) + PacketCount(t, K)
<1> DEFINE A == PlacesOf(s, K)
           B == PlacesOf(t, K)
           C == {i \in PlacesOf(s \o t, K) : i > Len(s)}
           f == [i \in B |-> i + Len(s)]
<1>1. /\ \A i \in 1 .. Len(s) : (s \o t)[i] = s[i]
      /\ \A i \in 1 .. Len(t) : (s \o t)[i + Len(s)] = t[i]
      /\ DOMAIN (s \o t) = 1 .. Len(s) + Len(t)
      /\ DOMAIN s = 1 .. Len(s) /\ Len(s) \in Nat
      /\ DOMAIN t = 1 .. Len(t) /\ Len(t) \in Nat
    OBVIOUS
<1>2. PlacesOf(s \o t, K) = A \cup C
    BY <1>1 DEF PlacesOf
<1>3. A \cap C = {}
    BY <1>1 DEF PlacesOf
<1>4. f \in Bijection(B, C)
  <2>1. f \in [B -> C]
      BY <1>1 DEF PlacesOf
  <2>2. \A i, j \in B : f[i] = f[j] => i = j
      BY <1>1 DEF PlacesOf
  <2>3. ASSUME NEW c \in C
        PROVE  \E i \in B : f[i] = c
    <3>1. c - Len(s) \in B
        BY <1>1 DEF PlacesOf
    <3>2. f[c - Len(s)] = c
        BY <3>1, <1>1 DEF PlacesOf
    <3> QED
        BY <3>1, <3>2
  <2> QED
      BY <2>1, <2>2, <2>3 DEF Bijection, Injection, Surjection, IsInjective
<1>5. IsFiniteSet(A) /\ IsFiniteSet(B)
    BY PacketCountType
<1>6. IsFiniteSet(C) /\ Cardinality(C) = Cardinality(B)
    BY <1>4, <1>5, FS_Bijection DEF ExistsBijection
<1>7. Cardinality(A \cup C) = Cardinality(A) + Cardinality(C) - Cardinality(A \cap C)
    BY <1>5, <1>6, FS_Union
<1>8. Cardinality(A \cap C) = 0
    BY <1>3, FS_EmptySet
<1>9. Cardinality(A) \in Nat /\ Cardinality(B) \in Nat
    BY <1>5, FS_CardinalityType
<1> HIDE DEF C
<1> QED
    BY <1>2, <1>6, <1>7, <1>8, <1>9 DEF PacketCount

(* The samples of a queue can be counted.                                  *)
LEMMA SampleCountType ==
    ASSUME NEW q \in Seq(Packet)
    PROVE  /\ IsFiniteSet(SamplesOf(q))
           /\ SampleCount(q) \in Nat
<1> DEFINE f == [i \in 1 .. Len(q) |-> {i} \X (1 .. q[i].count)]
           R == {{i} \X (1 .. q[i].count) : i \in DOMAIN q}
<1>1. f \in Surjection(1 .. Len(q), R)
  <2>1. DOMAIN q = 1 .. Len(q)
      OBVIOUS
  <2>2. \A i \in 1 .. Len(q) : f[i] \in R
      BY <2>1, Zenon
  <2>3. \A T \in R : \E i \in 1 .. Len(q) : f[i] = T
      BY <2>1, Zenon
  <2> QED
      BY <2>2, <2>3, Zenon DEF Surjection
<1>2. IsFiniteSet(R)
    BY <1>1, FS_Interval, FS_Surjection
<1>3. \A i \in 1 .. Len(q) : IsFiniteSet({i} \X (1 .. q[i].count))
  <2> HIDE DEF f, R
  <2> TAKE i \in 1 .. Len(q)
  <2>0. q[i] \in Packet
      BY ElementOfSeq
  <2>1. q[i].count \in Nat
      BY <2>0 DEF Packet
  <2>2. IsFiniteSet(1 .. q[i].count)
    <3>1. q[i].count \in Int /\ 1 \in Int
        BY <2>1
    <3> QED
        BY <3>1, FS_Interval, Zenon
  <2> QED
      BY <2>2, FS_Singleton, FS_Product
<1>4. \A T \in R : IsFiniteSet(T)
    BY <1>3, DOMAIN q = 1 .. Len(q), Zenon
<1>5. IsFiniteSet(UNION R)
    BY <1>2, <1>4, FS_UNION
<1> QED
    BY <1>5, FS_CardinalityType DEF SamplesOf, SampleCount

(* A sample is a place of the queue and a number within the packet there.  *)
LEMMA SampleIsPair ==
    ASSUME NEW q \in Seq(Packet), NEW x
    PROVE  x \in SamplesOf(q) <=>
               \E i \in 1 .. Len(q) : \E j \in 1 .. q[i].count : x = <<i, j>>
<1>1. DOMAIN q = 1 .. Len(q)
    OBVIOUS
<1>2. x \in SamplesOf(q) <=> \E i \in 1 .. Len(q) : x \in {i} \X (1 .. q[i].count)
    BY <1>1, Zenon DEF SamplesOf
<1>3. \A i : x \in {i} \X (1 .. q[i].count) <=> \E j \in 1 .. q[i].count : x = <<i, j>>
    OBVIOUS
<1> QED
    BY <1>2, <1>3, Zenon

(* Counting samples of a concatenation: the sum of the counts.             *)
LEMMA SampleCountConcat ==
    ASSUME NEW s \in Seq(Packet), NEW t \in Seq(Packet)
    PROVE  SampleCount(s \o t) = SampleCount(s) + SampleCount(t)
<1> DEFINE n == Len(s)
           A == SamplesOf(s)
           B == SamplesOf(t)
           C == {x \in SamplesOf(s \o t) : x[1] > n}
           f == [x \in B |-> <<x[1] + n, x[2]>>]
<1>1. /\ s \o t \in Seq(Packet)
      /\ Len(s \o t) = n + Len(t)
      /\ n \in Nat /\ Len(t) \in Nat
      /\ \A i \in 1 .. n : (s \o t)[i] = s[i]
      /\ \A i \in 1 .. Len(t) : (s \o t)[i + n] = t[i]
    OBVIOUS
<1>2. /\ \A i, j : <<i, j>> \in A <=> i \in 1 .. n /\ j \in 1 .. s[i].count
      /\ \A x \in A : \E i, j : x = <<i, j>>
    BY SampleIsPair
<1>3. /\ \A i, j : <<i, j>> \in B <=> i \in 1 .. Len(t) /\ j \in 1 .. t[i].count
      /\ \A x \in B : \E i, j : x = <<i, j>>
    BY SampleIsPair
<1>4. /\ \A i, j : <<i, j>> \in SamplesOf(s \o t) <=>
                       i \in 1 .. n + Len(t) /\ j \in 1 .. (s \o t)[i].count
      /\ \A x \in SamplesOf(s \o t) : \E i, j : x = <<i, j>>
  <2> DEFINE u == s \o t
  <2>1. u \in Seq(Packet) /\ Len(u) = n + Len(t)
      BY <1>1
  <2> HIDE DEF u, n
  <2>2. /\ \A i, j : <<i, j>> \in SamplesOf(u) <=>
                         i \in 1 .. n + Len(t) /\ j \in 1 .. u[i].count
        /\ \A x \in SamplesOf(u) : \E i, j : x = <<i, j>>
      BY <2>1, SampleIsPair
  <2> QED
      BY <2>2 DEF u
<1> HIDE DEF n, A, B
<1>5. SamplesOf(s \o t) = A \cup C
  <2>1. ASSUME NEW x \in SamplesOf(s \o t) PROVE x \in A \cup C
    <3>1. PICK i, j : x = <<i, j>>
        BY <1>4
    <3>2. i \in 1 .. n + Len(t) /\ j \in 1 .. (s \o t)[i].count
        BY <3>1, <1>4
    <3>3. CASE i > n
        BY <3>1, <3>3
    <3>4. CASE ~(i > n)
        BY SMTT(40), <3>1, <3>2, <3>4, <1>1, <1>2
    <3> QED
        BY <3>3, <3>4
  <2>2. ASSUME NEW x \in A PROVE x \in SamplesOf(s \o t)
    <3>1. PICK i, j : x = <<i, j>>
        BY <1>2
    <3>2. i \in 1 .. n /\ j \in 1 .. s[i].count
        BY <3>1, <1>2
    <3> QED
        BY <3>1, <3>2, <1>1, <1>4
  <2> QED
      BY <2>1, <2>2
<1>6. A \cap C = {}
    BY <1>1, <1>2
<1>7. f \in Bijection(B, C)
  <2>1. ASSUME NEW x \in B
        PROVE  /\ x = <<x[1], x[2]>>
               /\ x[1] \in 1 .. Len(t)
               /\ <<x[1] + n, x[2]>> \in C
    <3>1. PICK i, j : x = <<i, j>>
        BY <1>3
    <3>2. i \in 1 .. Len(t) /\ j \in 1 .. t[i].count
        BY <3>1, <1>3
    <3>3. i + n \in 1 .. n + Len(t) /\ i + n > n /\ (s \o t)[i + n] = t[i]
        BY <3>2, <1>1
    <3> QED
        BY <3>1, <3>2, <3>3, <1>4
  <2>2. f \in [B -> C]
      BY <2>1
  <2>3. ASSUME NEW x \in B, NEW y \in B, f[x] = f[y]
        PROVE  x = y
    <3>1. x[1] + n = y[1] + n /\ x[2] = y[2]
        BY <2>3
    <3>2. x[1] \in 1 .. Len(t) /\ y[1] \in 1 .. Len(t) /\ x = <<x[1], x[2]>> /\ y = <<y[1], y[2]>>
        BY <2>1, Zenon
    <3> HIDE DEF C, f
    <3>3. x[1] \in Int /\ y[1] \in Int /\ n \in Int
        BY <3>2, <1>1
    <3>4. x[1] = y[1]
        BY <3>1, <3>3
    <3> QED
        BY <3>1, <3>2, <3>4, Zenon
  <2>4. ASSUME NEW c \in C
        PROVE  \E x \in B : f[x] = c
    <3>1. PICK i, j : c = <<i, j>>
        BY <1>4
    <3>2. i \in 1 .. n + Len(t) /\ j \in 1 .. (s \o t)[i].count /\ i > n
        BY <3>1, <1>4
    <3>3. i - n \in 1 .. Len(t) /\ (i - n) + n = i /\ (s \o t)[i] = t[i - n]
        BY <3>2, <1>1
    <3>4. <<i - n, j>> \in B
        BY <3>2, <3>3, <1>3
    <3>5. f[<<i - n, j>>] = c
        BY <3>1, <3>3, <3>4
    <3> QED
        BY <3>4, <3>5
  <2> QED
      BY <2>2, <2>3, <2>4, Zenon DEF Bijection, Injection, Surjection, IsInjective
<1>8. IsFiniteSet(A) /\ IsFiniteSet(B)
    BY SampleCountType DEF A, B
<1>9. IsFiniteSet(C) /\ Cardinality(C) = Cardinality(B)
    BY <1>7, <1>8, FS_Bijection DEF ExistsBijection
<1> HIDE DEF C
<1>10. Cardinality(A \cup C) = Cardinality(A) + Cardinality(C) - Cardinality(A \cap C)
    BY <1>8, <1>9, FS_Union
<1>11. Cardinality(A \cap C) = 0
    BY <1>6, FS_EmptySet
<1>12. Cardinality(A) \in Nat /\ Cardinality(B) \in Nat
    BY <1>8, FS_CardinalityType
<1> QED
    BY <1>5, <1>9, <1>10, <1>11, <1>12 DEF SampleCount, A, B

(* What an empty queue and a queue of one packet hold.                     *)
LEMMA CountEmpty ==
    /\ SampleCount(<<>>) = 0
    /\ \A K : PacketCount(<<>>, K) = 0
<1>1. SamplesOf(<<>>) = {} /\ \A K : PlacesOf(<<>>, K) = {}
    BY DEF SamplesOf, PlacesOf
<1> QED
    BY <1>1, FS_EmptySet DEF SampleCount, PacketCount

(* The samples and packets of one packet.                                  *)
LEMMA CountSingle ==
    ASSUME NEW p \in Packet
    PROVE  /\ SampleCount(<<p>>) = p.count
           /\ \A K : PacketCount(<<p>>, K) = IF p.kind \in K THEN 1 ELSE 0
<1>1. SamplesOf(<<p>>) = {1} \X (1 .. p.count)
    BY DOMAIN <<p>> = {1}, <<p>>[1] = p DEF SamplesOf
<1>2. p.count \in Nat
    BY DEF Packet
<1>3. IsFiniteSet(1 .. p.count) /\ Cardinality(1 .. p.count) = p.count
    BY SMTT(40), <1>2, FS_Interval
<1>4. IsFiniteSet({1}) /\ Cardinality({1}) = 1
    BY FS_Singleton
<1>5. Cardinality({1} \X (1 .. p.count)) = 1 * p.count
    BY ZenonT(40), <1>3, <1>4, FS_Product
<1>6. ASSUME NEW K
      PROVE  PacketCount(<<p>>, K) = IF p.kind \in K THEN 1 ELSE 0
  <2>1. PlacesOf(<<p>>, K) = IF p.kind \in K THEN {1} ELSE {}
      BY DEF PlacesOf
  <2> QED
      BY <2>1, <1>4, FS_EmptySet DEF PacketCount
<1>7. 1 * p.count = p.count
    BY <1>2
<1> QED
    BY <1>1, <1>5, <1>6, <1>7, Zenon DEF SampleCount

(* Taking the first k packets off leaves the rest of the counts.           *)
LEMMA CountSplit ==
    ASSUME NEW q \in Seq(Packet), NEW k \in 0 .. Len(q)
    PROVE  /\ SubSeq(q, 1, k) \in Seq(Packet)
           /\ SubSeq(q, k + 1, Len(q)) \in Seq(Packet)
           /\ SampleCount(q) = SampleCount(SubSeq(q, 1, k))
                               + SampleCount(SubSeq(q, k + 1, Len(q)))
           /\ \A K : PacketCount(q, K) = PacketCount(SubSeq(q, 1, k), K)
                                         + PacketCount(SubSeq(q, k + 1, Len(q)), K)
<1>1. SubSeq(q, 1, k) \in Seq(Packet) /\ SubSeq(q, k + 1, Len(q)) \in Seq(Packet)
    OBVIOUS
<1>2. SubSeq(q, 1, k) \o SubSeq(q, k + 1, Len(q)) = q
  <2>1. 1 \in 1 .. Len(q) + 1 /\ k \in 1 - 1 .. Len(q) /\ Len(q) \in k .. Len(q)
      OBVIOUS
  <2>2. SubSeq(q, 1, k) \o SubSeq(q, k + 1, Len(q)) = SubSeq(q, 1, Len(q))
      BY <2>1, ConcatAdjacentSubSeq, Zenon
  <2> QED
      BY <2>2, SubSeqFull, Zenon
<1> DEFINE s == SubSeq(q, 1, k)
           t == SubSeq(q, k + 1, Len(q))
<1>3. /\ SampleCount(s \o t) = SampleCount(s) + SampleCount(t)
      /\ \A K : PacketCount(s \o t, K) = PacketCount(s, K) + PacketCount(t, K)
    BY <1>1, SampleCountConcat, PacketCountConcat, Zenon
<1> QED
    BY <1>1, <1>2, <1>3, Zenon

(* What counting loses with the head of a queue.                           *)
LEMMA CountTail ==
    ASSUME NEW q \in Seq(Packet), q # <<>>
    PROVE  /\ Head(q) \in Packet /\ Tail(q) \in Seq(Packet)
           /\ SampleCount(q) = Head(q).count + SampleCount(Tail(q))
           /\ \A K : PacketCount(q, K) = (IF Head(q).kind \in K THEN 1 ELSE 0)
                                         + PacketCount(Tail(q), K)
<1>1. Head(q) \in Packet /\ Tail(q) \in Seq(Packet)
    BY HeadTailProperties
<1> DEFINE u == <<Head(q)>> \o Tail(q)
<1>a. <<Head(q)>> \in Seq(Packet)
    BY <1>1
<1>b. u \in Seq(Packet) /\ Len(u) = Len(q) /\ \A i \in 1 .. Len(q) : u[i] = q[i]
  <2>1. Len(q) \in Nat /\ Len(q) # 0 /\ Len(Tail(q)) = Len(q) - 1
      BY HeadTailProperties, EmptySeq
  <2>2. \A i \in 1 .. Len(q) - 1 : Tail(q)[i] = q[i + 1]
      BY HeadTailProperties
  <2> QED
      BY <1>1, <1>a, <2>1, <2>2
<1>c. q = u
    BY <1>b, SeqEqual
<1>3. /\ SampleCount(<<Head(q)>> \o Tail(q)) = SampleCount(<<Head(q)>>) + SampleCount(Tail(q))
      /\ \A K : PacketCount(<<Head(q)>> \o Tail(q), K)
                = PacketCount(<<Head(q)>>, K) + PacketCount(Tail(q), K)
    BY <1>1, <1>a, SampleCountConcat, PacketCountConcat, Zenon
<1> QED
    BY <1>1, <1>3, <1>c, CountSingle, Zenon

(* A nonempty set of places has a last one.                                *)
LEMMA LastPlace ==
    ASSUME NEW n \in Nat, NEW T \in SUBSET (1 .. n), T # {}
    PROVE  \E x \in T : \A y \in T : y <= x
<1> DEFINE F == {(x + 1) .. n : x \in T}
<1>1. F \subseteq FiniteSubsetsOf(1 .. n)
  <2> SUFFICES ASSUME NEW x \in T
               PROVE  (x + 1) .. n \in FiniteSubsetsOf(1 .. n)
      BY Zenon
  <2>1. (x + 1) .. n \subseteq 1 .. n
      OBVIOUS
  <2>2. IsFiniteSet((x + 1) .. n)
      BY FS_Interval
  <2> QED
      BY <2>1, <2>2 DEF FiniteSubsetsOf
<1>2. F # {}
    BY Zenon
<1>3. IsWellFoundedOn(StrictSubsetOrdering(1 .. n), FiniteSubsetsOf(1 .. n))
    BY FS_StrictSubsetOrderingWellFounded
<1>4. \E U \in F : \A V \in F : <<V, U>> \notin StrictSubsetOrdering(1 .. n)
    BY <1>1, <1>2, <1>3, WFMin, Zenon
<1>5. PICK x \in T : \A y \in T :
          <<(y + 1) .. n, (x + 1) .. n>> \notin StrictSubsetOrdering(1 .. n)
    BY <1>4, Zenon
<1>6. ASSUME NEW y \in T, ~(y <= x)
      PROVE  FALSE
  <2>1. /\ (y + 1) .. n \subseteq (x + 1) .. n
        /\ y \in (x + 1) .. n /\ y \notin (y + 1) .. n
        /\ (x + 1) .. n \subseteq 1 .. n
      BY <1>6
  <2>2. <<(y + 1) .. n, (x + 1) .. n>> \in StrictSubsetOrdering(1 .. n)
      BY <2>1, Zenon DEF StrictSubsetOrdering
  <2> QED
      BY <1>5, <2>2
<1> QED
    BY <1>6

(* The descriptors LastValue and LastDomain find are descriptors.          *)
LEMMA LastDescriptorType ==
    ASSUME NEW q \in Seq(Packet),
           NEW v \in ValueDescriptors \cup {NoDescriptor}, NEW d \in DomainDescriptor
    PROVE  /\ LastValue(q, v) \in ValueDescriptors \cup {NoDescriptor}
           /\ LastDomain(q, d) \in DomainDescriptor
<1> DEFINE V == {i \in DOMAIN q : q[i].kind = "descriptor" /\ q[i].value # NoDescriptor}
           D == {i \in DOMAIN q : q[i].kind = "descriptor" /\ q[i].domain.rule # "unassigned"}
           last(S) == CHOOSE i \in S : \A j \in S : j <= i
<1>1. \A i \in 1 .. Len(q) : /\ q[i].value \in ValueDescriptors \cup {NoDescriptor}
                             /\ q[i].domain \in DomainDescriptor
  <2> TAKE i \in 1 .. Len(q)
  <2>1. q[i] \in Packet
      BY ElementOfSeq
  <2> QED
      BY <2>1 DEF Packet
<1>2. V \in SUBSET (1 .. Len(q)) /\ D \in SUBSET (1 .. Len(q)) /\ Len(q) \in Nat
    OBVIOUS
<1> HIDE DEF V, D
<1>3. \A S \in SUBSET (1 .. Len(q)) : S # {} => last(S) \in 1 .. Len(q)
  <2> SUFFICES ASSUME NEW S \in SUBSET (1 .. Len(q)), S # {}
               PROVE  last(S) \in S
      OBVIOUS
  <2>1. \E i \in S : \A j \in S : j <= i
      BY <1>2, LastPlace
  <2> QED
      BY <2>1, Zenon
<1>4. V # {} => q[last(V)].value \in ValueDescriptors \cup {NoDescriptor}
    BY <1>1, <1>2, <1>3, Zenon
<1>5. D # {} => q[last(D)].domain \in DomainDescriptor
    BY <1>1, <1>2, <1>3, Zenon
<1> QED
    BY <1>4, <1>5, Zenon DEF LastValue, LastDomain, V, D

(* More kinds, more packets.                                               *)
LEMMA PacketCountMono ==
    ASSUME NEW q \in Seq(Packet), NEW K, NEW L, K \subseteq L
    PROVE  PacketCount(q, K) <= PacketCount(q, L)
<1>1. PlacesOf(q, K) \in SUBSET PlacesOf(q, L)
    BY DEF PlacesOf
<1> QED
    BY <1>1, PacketCountType, FS_Subset DEF PacketCount

--------------------------------------------------------------------------------
(***************************************************************************)
(* The inductive invariant.  ConnTypeOK alone is not inductive:            *)
(* onPacketDequeued subtracts, so that the counters stay natural numbers   *)
(* has to be known from what is queued; and that no gap packet comes in    *)
(* uncounted rests on the gap check being disabled only by the port.       *)
(***************************************************************************)
ConnInv ==
    /\ ConnTypeOK
    /\ SamplesExact
    /\ CountersCover
    /\ (gapCheckState = "disabled") <=> ~GapChecking

(* The packets producers send are packets, and none is a gap packet that   *)
(* gets past the check uncounted.                                          *)
LEMMA SentPacketsType ==
    ASSUME ConnTypeOK
    PROVE  /\ DataPackets \subseteq Packet
           /\ SentPackets \subseteq Packet
           /\ \A p \in DataPackets : p.kind = "data"
           /\ \A p \in SentPackets : p.kind = "gap" => GapChecking
<1> USE ConnectionAssumption
<1>1. ASSUME NEW p \in DataPackets
      PROVE  p \in Packet /\ p.kind = "data"
  <2>1. PICK n \in SampleCounts, off \in Offsets :
            p = DataPacket(n, off, valueDataDescriptor, domainDataDescriptor)
      BY DEF DataPackets
  <2>2. n \in Nat /\ off \in Int /\ "data" \in Kinds
      BY <2>1 DEF Kinds
  <2> QED
      BY <2>1, <2>2 DEF DataPacket, Packet, ConnTypeOK
<1>2. ASSUME NEW p \in EventPackets
      PROVE  p \in Packet /\ p.kind \in EventIds
  <2>0. NoDomain \in DomainDescriptor
      BY DEF NoDomain, DomainDescriptor
  <2>1. PICK k \in EventIds :
            \E v \in ValueDescriptors \cup {NoDescriptor},
               d \in DomainDescriptors \cup {NoDomain} : p = EventPacket(k, v, d)
      BY DEF EventPackets
  <2>2. PICK v \in ValueDescriptors \cup {NoDescriptor},
             d \in DomainDescriptors \cup {NoDomain} : p = EventPacket(k, v, d)
      BY <2>1
  <2>3. k \in Kinds /\ d \in DomainDescriptor /\ 0 \in Nat /\ 0 \in Int
      BY <2>0, <2>1, <2>2
  <2> QED
      BY <2>2, <2>3 DEF EventPacket, Packet
<1> QED
    BY <1>1, <1>2, Zenon DEF SentPackets

(* Numbering changes nothing but the number.                               *)
LEMMA NumberedType ==
    ASSUME NEW p \in Packet, NEW n \in Nat
    PROVE  /\ Numbered(p, n) \in Packet
           /\ Numbered(p, n).kind = p.kind /\ Numbered(p, n).count = p.count
           /\ Numbered(p, n).seq = n
BY DEF Numbered, Packet

(* A gap packet is a packet without samples.                               *)
LEMMA GapPacketType ==
    ASSUME NEW x \in Int
    PROVE  GapPacket(x) \in Packet /\ GapPacket(x).kind = "gap" /\ GapPacket(x).count = 0
<1>1. NoDomain \in DomainDescriptor /\ "gap" \in Kinds
    BY DEF NoDomain, DomainDescriptor, Kinds
<1> QED
    BY <1>1 DEF GapPacket, EventPacket, Packet

(* The gap check keeps its types and is never switched on or off.          *)
LEMMA GapCheckType ==
    ASSUME ConnTypeOK, NEW p \in Packet, checkForGaps(p)
    PROVE  /\ gapCheckState' \in GapCheckStates
           /\ nextExpectedPacketOffset' \in Int /\ delta' \in Nat
           /\ domainSampleType' \in {"Int64", "UInt64", "Float64", "invalid"}
           /\ (gapCheckState' = "disabled") <=> (gapCheckState = "disabled")
<1>1. /\ p.offset \in Int /\ p.count \in Nat
      /\ p.domain.sampleType \in {"Int64", "UInt64", "Float64", "invalid"}
      /\ p.domain.delta \in Nat
    BY DEF Packet, DomainDescriptor
<1>2. CASE gapCheckState # "disabled" /\ initGapCheck(p)
    BY <1>1, <1>2 DEF initGapCheck, ConnTypeOK, GapCheckStates
<1>3. CASE gapCheckState \in {"initialized", "running"} /\ ExpectAfter(p)
  <2>1. p.offset + p.count * delta \in Int
      BY <1>1 DEF ConnTypeOK
  <2> QED
      BY <1>3, <2>1 DEF ExpectAfter, ConnTypeOK, GapCheckStates
<1>4. CASE UNCHANGED gapVars
    BY <1>4 DEF gapVars, ConnTypeOK
<1> QED
    BY <1>2, <1>3, <1>4 DEF checkForGaps

--------------------------------------------------------------------------------
(***************************************************************************)
(* Every operation preserves the invariant.                                *)
(***************************************************************************)

(* enqueueInternal, with and without a gap packet in front.                *)
LEMMA EnqueueInv ==
    ASSUME ConnInv, NEW p \in SentPackets, Enqueue(p)
    PROVE  ConnInv'
<1> DEFINE gap == IF GapDetected(p) THEN <<GapPacket(GapDiff(p))>> ELSE <<>>
           own == <<Numbered(p, sent + 1)>>
           ev == Kinds \ {"data"}
<1>1. p \in Packet /\ (p.kind = "gap" => GapChecking)
    BY SentPacketsType DEF ConnInv
<1>2. /\ packets' = (packets \o gap) \o own
      /\ gapPacketsCnt' = gapPacketsCnt + Len(gap)
    BY DEF Enqueue
<1>3. p.kind # "gap"
    BY <1>1 DEF Enqueue, Accepted, ThrowsOnGapCheck, ConnInv
<1>4. /\ gap \in Seq(Packet) /\ Len(gap) \in Nat
      /\ SampleCount(gap) = 0
      /\ PacketCount(gap, {"gap"}) = Len(gap)
      /\ PacketCount(gap, {"descriptor", "other"}) = 0
  <2>1. GapDiff(p) \in Int
      BY <1>1 DEF GapDiff, ConnInv, ConnTypeOK, Packet
  <2>2. CASE GapDetected(p)
    <3> DEFINE g == GapPacket(GapDiff(p))
    <3>1. g \in Packet /\ g.kind = "gap" /\ g.count = 0
        BY <2>1, GapPacketType
    <3>2. gap = <<g>>
        BY <2>2
    <3> HIDE DEF g, gap
    <3> QED
        BY <3>1, <3>2, CountSingle
  <2>3. CASE ~GapDetected(p)
      BY <2>3, CountEmpty
  <2> QED
      BY <2>2, <2>3
<1>5. /\ own \in Seq(Packet) /\ SampleCount(own) = p.count
      /\ PacketCount(own, {"gap"}) = 0
      /\ PacketCount(own, {"descriptor", "other"}) = IF p.kind \in {"descriptor", "other"} THEN 1 ELSE 0
  <2> DEFINE m == Numbered(p, sent + 1)
  <2>1. m \in Packet /\ m.kind = p.kind /\ m.count = p.count
      BY <1>1, NumberedType DEF ConnInv, ConnTypeOK
  <2>2. own = <<m>>
      OBVIOUS
  <2> HIDE DEF m, own
  <2> QED
      BY <1>3, <2>1, <2>2, CountSingle
<1> HIDE DEF gap, own
<1>6. /\ packets \o gap \in Seq(Packet)
      /\ packets' \in Seq(Packet)
      /\ SampleCount(packets') = SampleCount(packets) + p.count
      /\ PacketCount(packets', {"gap"}) = PacketCount(packets, {"gap"}) + Len(gap)
      /\ PacketCount(packets', {"descriptor", "other"}) =
             PacketCount(packets, {"descriptor", "other"})
             + IF p.kind \in {"descriptor", "other"} THEN 1 ELSE 0
  <2>1. packets \in Seq(Packet) /\ packets \o gap \in Seq(Packet) /\ packets' \in Seq(Packet)
      BY <1>2, <1>4, <1>5, ConcatProperties DEF ConnInv, ConnTypeOK
  <2>2. /\ SampleCount(packets \o gap) = SampleCount(packets) + SampleCount(gap)
        /\ SampleCount(packets') = SampleCount(packets \o gap) + SampleCount(own)
      BY <1>2, <1>4, <1>5, <2>1, SampleCountConcat
  <2>3. \A K : /\ PacketCount(packets \o gap, K) = PacketCount(packets, K) + PacketCount(gap, K)
               /\ PacketCount(packets', K) = PacketCount(packets \o gap, K) + PacketCount(own, K)
    <3>1. ASSUME NEW K PROVE PacketCount(packets \o gap, K) = PacketCount(packets, K) + PacketCount(gap, K)
        BY ZenonT(40), <1>4, <2>1, PacketCountConcat
    <3>2. ASSUME NEW K
          PROVE  PacketCount((packets \o gap) \o own, K) = PacketCount(packets \o gap, K) + PacketCount(own, K)
        BY ZenonT(40), <1>5, <2>1, PacketCountConcat
    <3> QED
        BY <1>2, <3>1, <3>2, Zenon
  <2>4. SampleCount(packets) \in Nat /\ \A K : PacketCount(packets, K) \in Nat
      BY <2>1, SampleCountType, PacketCountType
  <2> QED
      BY <1>4, <1>5, <2>1, <2>2, <2>3, <2>4
<1>7. SampleCount(<<p>>) = p.count /\ p.count \in Nat
      /\ PacketCount(<<p>>, ev) = IF p.kind \in ev THEN 1 ELSE 0
    BY <1>1, CountSingle DEF Packet
<1>8. /\ samplesCnt' = samplesCnt + p.count
      /\ eventPacketsCnt' = eventPacketsCnt + IF p.kind \in ev THEN 1 ELSE 0
    BY <1>7 DEF Enqueue, onPacketsEnqueued
<1>9. SamplesExact'
    BY <1>6, <1>8 DEF SamplesExact, ConnInv
<1>10. CountersCover'
  <2>1. p.kind \in {"descriptor", "other"} => p.kind \in ev
      BY DEF Kinds
  <2>2. PacketCount(packets, {"gap"}) \in Nat /\ PacketCount(packets, {"descriptor", "other"}) \in Nat
      BY PacketCountType DEF ConnInv, ConnTypeOK
  <2> QED
      BY SMTT(40), <1>2, <1>4, <1>6, <1>8, <2>1, <2>2 DEF CountersCover, ConnInv, ConnTypeOK
<1>11. /\ valueDataDescriptor' \in ValueDescriptors \cup {NoDescriptor}
       /\ domainDataDescriptor' \in DomainDescriptor
  <2>1. <<p>> \in Seq(Packet)
      BY <1>1
  <2> QED
      BY <2>1, LastDescriptorType DEF Enqueue, onPacketsEnqueued, ConnInv, ConnTypeOK
<1>12. /\ gapCheckState' \in GapCheckStates
       /\ nextExpectedPacketOffset' \in Int /\ delta' \in Nat
       /\ domainSampleType' \in {"Int64", "UInt64", "Float64", "invalid"}
       /\ (gapCheckState' = "disabled") <=> (gapCheckState = "disabled")
    BY <1>1, GapCheckType DEF Enqueue, ConnInv
<1>13. ConnTypeOK'
  <2>1. samplesCnt' \in Nat /\ eventPacketsCnt' \in Nat /\ gapPacketsCnt' \in Nat
      BY <1>2, <1>4, <1>7, <1>8 DEF ConnTypeOK, ConnInv
  <2>2. /\ queueEmpty' = FALSE /\ active' = active /\ sent' = sent + 1
        /\ delivered' = delivered /\ readDescriptor' = readDescriptor /\ strays' = strays
      BY DEF Enqueue
  <2>3. sent' \in Nat
      BY <2>2 DEF ConnTypeOK, ConnInv
  <2> QED
      BY <1>6, <1>11, <1>12, <2>1, <2>2, <2>3, Zenon DEF ConnTypeOK, ConnInv
<1> QED
    BY <1>9, <1>10, <1>12, <1>13 DEF ConnInv

(* enqueueMultipleInternal: a list of data packets in any order.           *)
LEMMA EnqueueListInv ==
    ASSUME ConnInv, NEW ps \in Seq(Packet), EnqueueList(ps),
           \A i \in DOMAIN ps : ps[i].kind = "data"
    PROVE  ConnInv'
<1> DEFINE ev == Kinds \ {"data"}
<1>1. /\ packets \in Seq(Packet) /\ packets' = packets \o ps
      /\ samplesCnt' = samplesCnt + SampleCount(ps)
      /\ eventPacketsCnt' = eventPacketsCnt + PacketCount(ps, ev)
      /\ gapPacketsCnt' = gapPacketsCnt
    BY DEF EnqueueList, onPacketsEnqueued, ConnInv, ConnTypeOK
<1>2. packets' \in Seq(Packet)
    BY <1>1, ConcatProperties
<1>3. SampleCount(ps) \in Nat /\ \A K : PacketCount(ps, K) \in Nat /\ PacketCount(packets, K) \in Nat
    BY <1>1, SampleCountType, PacketCountType
<1>4. \A K : ~("data" \in K) => PacketCount(ps, K) = 0
  <2>1. \A K : ~("data" \in K) => PlacesOf(ps, K) = {}
      BY DEF PlacesOf
  <2> QED
      BY <2>1, FS_EmptySet, Zenon DEF PacketCount
<1>5. \A K : PacketCount(packets \o ps, K) = PacketCount(packets, K) + PacketCount(ps, K)
    BY <1>1, PacketCountConcat, Zenon
<1>6. SamplesExact'
    BY <1>1, SampleCountConcat DEF SamplesExact, ConnInv
<1>7. CountersCover'
  <2>1. /\ PacketCount(packets', {"descriptor", "other"}) = PacketCount(packets, {"descriptor", "other"}) + 0
        /\ PacketCount(packets', {"gap"}) = PacketCount(packets, {"gap"}) + 0
      BY <1>1, <1>4, <1>5
  <2> QED
      BY SMTT(40), <1>1, <1>3, <2>1 DEF CountersCover, ConnInv, ConnTypeOK
<1>8. /\ valueDataDescriptor' \in ValueDescriptors \cup {NoDescriptor}
      /\ domainDataDescriptor' \in DomainDescriptor
    BY LastDescriptorType DEF EnqueueList, onPacketsEnqueued, ConnInv, ConnTypeOK
<1>9. samplesCnt' \in Nat /\ eventPacketsCnt' \in Nat /\ gapPacketsCnt' \in Nat /\ sent' \in Nat
    BY <1>1, <1>3 DEF ConnInv, ConnTypeOK, EnqueueList
<1>10. /\ queueEmpty' = FALSE /\ active' = active
       /\ delivered' = delivered /\ readDescriptor' = readDescriptor /\ strays' = strays
       /\ UNCHANGED gapVars
    BY DEF EnqueueList
<1>11. ConnTypeOK' /\ ((gapCheckState' = "disabled") <=> ~GapChecking)
    BY <1>2, <1>8, <1>9, <1>10, Zenon DEF ConnInv, ConnTypeOK, gapVars
<1> QED
    BY <1>6, <1>7, <1>11 DEF ConnInv

(* enqueueMultiple and enqueueMultipleAndStealRef keep the invariant.      *)
LEMMA EnqueueMultipleInv ==
    ASSUME ConnInv, NEW ps \in Seq(DataPackets),
           EnqueueMultiple(ps) \/ EnqueueMultipleAndStealRef(ps)
    PROVE  ConnInv'
<1>1. DataPackets \subseteq Packet /\ \A p \in DataPackets : p.kind = "data"
    BY SentPacketsType DEF ConnInv
<1>2. \A p \in DataPackets, n \in Nat : Numbered(p, n) \in Packet /\ Numbered(p, n).kind = "data"
    BY ZenonT(40), <1>1, NumberedType
<1>3. sent \in Nat
    BY DEF ConnInv, ConnTypeOK
<1>4. CASE EnqueueMultiple(ps)
  <2> DEFINE u == [i \in DOMAIN ps |-> Numbered(ps[i], sent + i)]
  <2>1. DOMAIN ps = 1 .. Len(ps) /\ Len(ps) \in Nat
      OBVIOUS
  <2>2. \A i \in DOMAIN ps : u[i] \in Packet /\ u[i].kind = "data"
      BY <1>2, <1>3, <2>1
  <2>3. u \in Seq(Packet) /\ DOMAIN u = DOMAIN ps
      BY <2>1, <2>2, IsASeq
  <2>4. EnqueueList(u)
      BY <1>4 DEF EnqueueMultiple
  <2> HIDE DEF u
  <2> QED
      BY <2>2, <2>3, <2>4, EnqueueListInv
<1>5. CASE EnqueueMultipleAndStealRef(ps)
  <2> DEFINE u == [i \in DOMAIN ps |-> LET j == Len(ps) + 1 - i IN Numbered(ps[j], sent + j)]
  <2>1. DOMAIN ps = 1 .. Len(ps) /\ Len(ps) \in Nat
      OBVIOUS
  <2>2. ASSUME NEW i \in DOMAIN ps
        PROVE  u[i] \in Packet /\ u[i].kind = "data"
    <3>1. Len(ps) + 1 - i \in 1 .. Len(ps) /\ sent + (Len(ps) + 1 - i) \in Nat
        BY <1>3, <2>1
    <3>2. ps[Len(ps) + 1 - i] \in DataPackets
        BY <3>1
    <3> QED
        BY <1>2, <3>1, <3>2
  <2>3. u \in Seq(Packet) /\ DOMAIN u = DOMAIN ps
      BY <2>1, <2>2, IsASeq
  <2>4. EnqueueList(u)
      BY <1>5 DEF EnqueueMultipleAndStealRef
  <2> HIDE DEF u
  <2> QED
      BY <2>2, <2>3, <2>4, EnqueueListInv
<1> QED
    BY <1>4, <1>5

(* A descriptor event put in front of the queue.                           *)
LEMMA EnqueueLastDescriptorInv ==
    ASSUME ConnInv, EnqueueLastDescriptor
    PROVE  ConnInv'
<1> DEFINE e == EventPacket("descriptor", valueDataDescriptor, domainDataDescriptor)
<1>1. /\ packets \in Seq(Packet) /\ packets' = <<e>> \o packets
      /\ eventPacketsCnt' = eventPacketsCnt + 1
      /\ UNCHANGED <<queueEmpty, samplesCnt, gapPacketsCnt, gapVars, descVars, active, history>>
    BY DEF EnqueueLastDescriptor, ConnInv, ConnTypeOK
<1>2. e \in Packet /\ e.kind = "descriptor" /\ e.count = 0
    BY DEF EventPacket, Packet, Kinds, ConnInv, ConnTypeOK
<1> HIDE DEF e
<1>3. <<e>> \in Seq(Packet) /\ packets' \in Seq(Packet)
    BY <1>1, <1>2, ConcatProperties
<1>4. /\ SampleCount(<<e>>) = 0 /\ PacketCount(<<e>>, {"gap"}) = 0
      /\ PacketCount(<<e>>, {"descriptor", "other"}) = 1
    BY <1>2, CountSingle
<1>5. SampleCount(<<e>> \o packets) = SampleCount(<<e>>) + SampleCount(packets)
    BY <1>1, <1>3, SampleCountConcat, Zenon
<1>6. \A K : PacketCount(<<e>> \o packets, K) = PacketCount(<<e>>, K) + PacketCount(packets, K)
    BY <1>1, <1>3, PacketCountConcat, Zenon
<1>7. SampleCount(packets) \in Nat /\ \A K : PacketCount(packets, K) \in Nat
    BY <1>1, SampleCountType, PacketCountType
<1>8. SamplesExact'
    BY <1>1, <1>4, <1>5, <1>7 DEF SamplesExact, ConnInv
<1>9. CountersCover'
    BY <1>1, <1>4, <1>6, <1>7 DEF CountersCover, ConnInv, ConnTypeOK
<1>10. eventPacketsCnt' \in Nat
    BY <1>1 DEF ConnInv, ConnTypeOK
<1>11. ConnTypeOK' /\ ((gapCheckState' = "disabled") <=> ~GapChecking)
    BY <1>1, <1>3, <1>10, Zenon DEF ConnInv, ConnTypeOK, gapVars, descVars, history
<1> QED
    BY <1>8, <1>9, <1>11 DEF ConnInv

(* The history variables keep their types when packets are handed out.     *)
LEMMA HandOutType ==
    ASSUME ConnTypeOK, NEW q \in Seq(Packet), HandOut(q)
    PROVE  /\ delivered' \in Nat /\ sent' = sent /\ strays' \in Nat
           /\ readDescriptor' \in ValueDescriptors \cup {NoDescriptor}
<1> DEFINE own == {i \in DOMAIN q : q[i].seq # 0}
<1>1. own \in SUBSET (1 .. Len(q)) /\ Len(q) \in Nat
    OBVIOUS
<1>2. Cardinality(own) \in Nat
  <2> HIDE DEF own
  <2>1. IsFiniteSet(1 .. Len(q))
      BY FS_Interval
  <2> QED
      BY <1>1, <2>1, FS_Subset, FS_CardinalityType, Zenon
<1>3. NoDomain \in DomainDescriptor
    BY DEF NoDomain, DomainDescriptor
<1>4. LastValue(q, readDescriptor) \in ValueDescriptors \cup {NoDescriptor}
    BY <1>3, LastDescriptorType DEF ConnTypeOK
<1> DEFINE c == Cardinality(own)
<1>5. /\ delivered' = delivered + c /\ sent' = sent
      /\ readDescriptor' = LastValue(q, readDescriptor)
    BY DEF HandOut
<1> HIDE DEF c
<1>6. c \in Nat /\ delivered \in Nat
    BY <1>2 DEF c, ConnTypeOK
<1>7. delivered' \in Nat
    BY <1>5, <1>6
<1>8. strays' \in Nat
    BY PacketCountType DEF HandOut, ConnTypeOK
<1> QED
    BY <1>4, <1>5, <1>7, <1>8, Zenon

(* dequeue keeps the invariant.                                            *)
LEMMA DequeueInv ==
    ASSUME ConnInv, Dequeue
    PROVE  ConnInv'
<1> DEFINE h == Head(packets)
<1>1. /\ packets \in Seq(Packet) /\ packets # <<>> /\ packets' = Tail(packets)
      /\ samplesCnt' = samplesCnt - h.count
      /\ eventPacketsCnt' = eventPacketsCnt - (IF h.kind = "descriptor" THEN 1 ELSE 0)
      /\ gapPacketsCnt' = gapPacketsCnt - (IF h.kind = "gap" THEN 1 ELSE 0)
      /\ UNCHANGED <<queueEmpty, gapVars, descVars, active>>
    BY DEF Dequeue, onPacketDequeued, ConnInv, ConnTypeOK
<1>2. /\ h \in Packet /\ packets' \in Seq(Packet)
      /\ SampleCount(packets) = h.count + SampleCount(packets')
      /\ \A K : PacketCount(packets, K) = (IF h.kind \in K THEN 1 ELSE 0) + PacketCount(packets', K)
    BY <1>1, CountTail, Zenon
<1>3. h.count \in Nat /\ <<h>> \in Seq(Packet)
  <2> HIDE DEF h
  <2> QED
      BY <1>2 DEF Packet
<1>4. /\ delivered' \in Nat /\ sent' = sent /\ strays' \in Nat
      /\ readDescriptor' \in ValueDescriptors \cup {NoDescriptor}
    BY <1>3, HandOutType DEF Dequeue, ConnInv
<1> HIDE DEF h
<1>5. SampleCount(packets') \in Nat /\ \A K : PacketCount(packets', K) \in Nat
    BY <1>2, SampleCountType, PacketCountType
<1>6. SamplesExact' /\ samplesCnt' \in Nat
    BY <1>1, <1>2, <1>3, <1>5 DEF SamplesExact, ConnInv
<1>7. CountersCover' /\ eventPacketsCnt' \in Nat /\ gapPacketsCnt' \in Nat
  <2> DEFINE de == PacketCount(packets', {"descriptor", "other"})
             g == PacketCount(packets', {"gap"})
  <2>1. /\ PacketCount(packets, {"descriptor", "other"})
               = (IF h.kind \in {"descriptor", "other"} THEN 1 ELSE 0) + de
        /\ PacketCount(packets, {"gap"}) = (IF h.kind = "gap" THEN 1 ELSE 0) + g
      BY <1>2
  <2>2. de \in Nat /\ g \in Nat
      BY <1>5
  <2> HIDE DEF de, g
  <2>3. eventPacketsCnt' >= de /\ gapPacketsCnt' >= g /\ eventPacketsCnt' \in Nat /\ gapPacketsCnt' \in Nat
      BY <1>1, <2>1, <2>2 DEF CountersCover, ConnInv, ConnTypeOK
  <2> QED
      BY <2>3 DEF CountersCover, de, g
<1>8. ConnTypeOK' /\ ((gapCheckState' = "disabled") <=> ~GapChecking)
    BY <1>1, <1>2, <1>4, <1>6, <1>7, Zenon DEF ConnInv, ConnTypeOK, gapVars, descVars
<1> QED
    BY <1>6, <1>7, <1>8 DEF ConnInv

(* dequeue of an empty queue changes no counter.                           *)
LEMMA DequeueNothingInv ==
    ASSUME ConnInv, DequeueNothing
    PROVE  ConnInv'
BY Zenon DEF DequeueNothing, ConnInv, ConnTypeOK, SamplesExact, CountersCover,
             counters, gapVars, descVars, history

(* dequeueAll keeps the invariant, although it leaves gapPacketsCnt.       *)
LEMMA DequeueAllInv ==
    ASSUME ConnInv, DequeueAll
    PROVE  ConnInv'
<1>1. /\ packets' = <<>> /\ samplesCnt' = 0 /\ eventPacketsCnt' = 0
      /\ UNCHANGED <<queueEmpty, gapPacketsCnt, gapVars, descVars, active>>
    BY DEF DequeueAll
<1>2. /\ delivered' \in Nat /\ sent' = sent /\ strays' \in Nat
      /\ readDescriptor' \in ValueDescriptors \cup {NoDescriptor}
    BY HandOutType DEF DequeueAll, ConnInv, ConnTypeOK
<1>3. packets' \in Seq(Packet) /\ samplesCnt' \in Nat /\ eventPacketsCnt' \in Nat
    BY <1>1
<1>4. SamplesExact' /\ CountersCover'
    BY <1>1, CountEmpty DEF SamplesExact, CountersCover, ConnInv, ConnTypeOK
<1>5. ConnTypeOK' /\ ((gapCheckState' = "disabled") <=> ~GapChecking)
    BY <1>1, <1>2, <1>3, Zenon DEF ConnInv, ConnTypeOK, gapVars, descVars
<1> QED
    BY <1>4, <1>5 DEF ConnInv

(* dequeueUpTo keeps the invariant.                                        *)
LEMMA DequeueUpToInv ==
    ASSUME ConnInv, NEW n \in Nat, DequeueUpTo(n)
    PROVE  ConnInv'
<1> DEFINE k == IF n < Len(packets) THEN n ELSE Len(packets)
<1>1. packets \in Seq(Packet) /\ k \in 0 .. Len(packets)
    BY DEF ConnInv, ConnTypeOK
<1>2. /\ packets' = SubSeq(packets, k + 1, Len(packets))
      /\ samplesCnt' = SampleCount(packets')
      /\ eventPacketsCnt' = PacketCount(packets', Kinds \ {"data"})
      /\ HandOut(SubSeq(packets, 1, k))
      /\ UNCHANGED <<queueEmpty, gapPacketsCnt, gapVars, descVars, active>>
    BY DEF DequeueUpTo, countPackets
<1> HIDE DEF k
<1>3. /\ SubSeq(packets, 1, k) \in Seq(Packet) /\ packets' \in Seq(Packet)
      /\ \A K : PacketCount(packets, K)
                = PacketCount(SubSeq(packets, 1, k), K) + PacketCount(packets', K)
    BY <1>1, <1>2, CountSplit, Zenon
<1>4. /\ delivered' \in Nat /\ sent' = sent /\ strays' \in Nat
      /\ readDescriptor' \in ValueDescriptors \cup {NoDescriptor}
    BY <1>2, <1>3, HandOutType DEF ConnInv
<1>5. /\ SampleCount(packets') \in Nat
      /\ \A K : PacketCount(packets', K) \in Nat /\ PacketCount(SubSeq(packets, 1, k), K) \in Nat
    BY <1>3, SampleCountType, PacketCountType
<1>6. PacketCount(packets', {"descriptor", "other"}) <= PacketCount(packets', Kinds \ {"data"})
    BY <1>3, PacketCountMono DEF Kinds
<1>7. PacketCount(packets', {"gap"}) <= PacketCount(packets, {"gap"})
    BY <1>3, <1>5
<1>8. SamplesExact' /\ CountersCover' /\ samplesCnt' \in Nat /\ eventPacketsCnt' \in Nat
  <2>1. PacketCount(packets, {"gap"}) \in Nat
      BY <1>1, PacketCountType
  <2>2. gapPacketsCnt \in Nat /\ gapPacketsCnt >= PacketCount(packets, {"gap"})
      BY DEF ConnInv, ConnTypeOK, CountersCover
  <2> QED
      BY <1>2, <1>5, <1>6, <1>7, <2>1, <2>2 DEF SamplesExact, CountersCover
<1>9. ConnTypeOK' /\ ((gapCheckState' = "disabled") <=> ~GapChecking)
    BY <1>2, <1>3, <1>4, <1>8, Zenon DEF ConnInv, ConnTypeOK, gapVars, descVars
<1> QED
    BY <1>8, <1>9 DEF ConnInv

(* Switching the port on or off keeps the invariant.                       *)
LEMMA SetActiveInv ==
    ASSUME ConnInv, SetActive
    PROVE  ConnInv'
BY Zenon DEF SetActive, ConnInv, ConnTypeOK, SamplesExact, CountersCover,
             counters, gapVars, descVars, history

--------------------------------------------------------------------------------
(***************************************************************************)
(* The theorems.                                                           *)
(***************************************************************************)
LEMMA ConnInitInv == ConnInit => ConnInv
<1> SUFFICES ASSUME ConnInit PROVE ConnInv
    OBVIOUS
<1> USE DEF ConnInit
<1>1. NoDomain \in DomainDescriptor /\ GapChecking \in BOOLEAN
    BY ConnectionAssumption DEF NoDomain, DomainDescriptor
<1>2. SamplesExact /\ CountersCover
    BY CountEmpty DEF SamplesExact, CountersCover
<1>3. ConnTypeOK
    BY <1>1 DEF ConnTypeOK, GapCheckStates
<1>4. (gapCheckState = "disabled") <=> ~GapChecking
    BY <1>1
<1> QED
    BY <1>2, <1>3, <1>4 DEF ConnInv

(* Every step of the connection keeps the invariant.                       *)
LEMMA ConnNextInv == ConnInv /\ [ConnNext]_connVars => ConnInv'
<1> SUFFICES ASSUME ConnInv, [ConnNext]_connVars PROVE ConnInv'
    OBVIOUS
<1>1. ASSUME NEW p \in SentPackets, Enqueue(p) PROVE ConnInv'
    BY <1>1, EnqueueInv
<1>2. ASSUME NEW ps \in Batches, EnqueueMultiple(ps) \/ EnqueueMultipleAndStealRef(ps)
      PROVE  ConnInv'
  <2>1. PICK n \in 1 .. MaxBatch : ps \in [1 .. n -> DataPackets]
      BY DEF Batches
  <2>2. ps \in Seq(DataPackets)
      BY <2>1, ConnectionAssumption
  <2> QED
      BY <1>2, <2>2, EnqueueMultipleInv
<1>3. ASSUME EnqueueLastDescriptor PROVE ConnInv'
    BY <1>3, EnqueueLastDescriptorInv
<1>4. ASSUME Dequeue \/ DequeueNothing PROVE ConnInv'
    BY <1>4, DequeueInv, DequeueNothingInv
<1>5. ASSUME DequeueAll PROVE ConnInv'
    BY <1>5, DequeueAllInv
<1>6. ASSUME NEW n \in 1 .. MaxQueue, DequeueUpTo(n) PROVE ConnInv'
  <2>1. n \in Nat
      BY ConnectionAssumption
  <2> QED
      BY <1>6, <2>1, DequeueUpToInv
<1>7. ASSUME SetActive PROVE ConnInv'
    BY <1>7, SetActiveInv
<1>8. ASSUME UNCHANGED connVars PROVE ConnInv'
    BY <1>8, Zenon DEF connVars, ConnInv, ConnTypeOK, SamplesExact, CountersCover,
             counters, gapVars, descVars, history
<1> QED
    BY <1>1, <1>2, <1>3, <1>4, <1>5, <1>6, <1>7, <1>8, Zenon DEF ConnNext

(* Whatever the mix of producers and consumers: the counters and the other *)
(* state of ConnectionImpl keep their types; no SizeT counter wraps below  *)
(* zero.                                                                   *)
THEOREM ConnTypeCorrect == ConnSpec => []ConnTypeOK
<1>1. ConnInv => ConnTypeOK
    BY DEF ConnInv
<1> QED
    BY <1>1, ConnInitInv, ConnNextInv, PTL DEF ConnSpec

(* getAvailableSamples is exact with every mix of methods.                 *)
THEOREM AvailableSamplesExact == ConnSpec => []SamplesExact
<1>1. ConnInv => SamplesExact
    BY DEF ConnInv
<1> QED
    BY <1>1, ConnInitInv, ConnNextInv, PTL DEF ConnSpec

(* The event and gap counters never run behind the queue.                  *)
THEOREM CountersNeverBehind == ConnSpec => []CountersCover
<1>1. ConnInv => CountersCover
    BY DEF ConnInv
<1> QED
    BY <1>1, ConnInitInv, ConnNextInv, PTL DEF ConnSpec

(* Without a packet of the kinds, the walk of the queue goes to its end.   *)
LEMMA WalkToTheEnd ==
    ASSUME NEW q \in Seq(Packet), NEW K, PacketCount(q, K) = 0
    PROVE  SelectPrefix(q, K) = q
<1> DEFINE S == {n \in DOMAIN q : \A i \in 1 .. n : q[i].kind \notin K}
<1>1. PlacesOf(q, K) = {}
    BY PacketCountType, FS_EmptySet, Zenon DEF PacketCount
<1>2. S = 1 .. Len(q) /\ Len(q) \in Nat
  <2>1. \A i \in 1 .. Len(q) : q[i].kind \notin K
      BY <1>1 DEF PlacesOf
  <2>2. DOMAIN q = 1 .. Len(q) /\ Len(q) \in Nat
      OBVIOUS
  <2>3. \A n \in 1 .. Len(q) : \A i \in 1 .. n : i \in 1 .. Len(q)
      BY <2>2
  <2> QED
      BY <2>1, <2>2, <2>3, Zenon
<1>3. Cardinality(1 .. Len(q)) = Len(q)
  <2> HIDE DEF S
  <2>1. Cardinality(1 .. Len(q)) = IF 1 > Len(q) THEN 0 ELSE Len(q) - 1 + 1
      BY <1>2, FS_Interval
  <2> QED
      BY <1>2, <2>1
<1>4. SelectPrefix(q, K) = SubSeq(q, 1, Cardinality(S))
    BY DEF SelectPrefix
<1> HIDE DEF S
<1>5. SelectPrefix(q, K) = SubSeq(q, 1, Len(q))
    BY <1>2, <1>3, <1>4
<1> QED
    BY <1>5, SubSeqFull, Zenon

(* The shortcuts of the getSamplesUntilNext... methods give the answer of  *)
(* the walk in every reachable state: stale counters may cost a walk, they *)
(* never let a reader run over an event.                                   *)
THEOREM ShortcutsAreSafe == ConnSpec => []FastPathsRight
<1>1. ConnInv => FastPathsRight
  <2> SUFFICES ASSUME ConnInv PROVE FastPathsRight
      OBVIOUS
  <2>1. packets \in Seq(Packet) /\ samplesCnt = SampleCount(packets)
      BY DEF ConnInv, ConnTypeOK, SamplesExact
  <2>2. /\ \A K : PacketCount(packets, K) \in Nat
        /\ eventPacketsCnt \in Nat /\ gapPacketsCnt \in Nat
        /\ eventPacketsCnt >= PacketCount(packets, {"descriptor", "other"})
        /\ gapPacketsCnt >= PacketCount(packets, {"gap"})
      BY <2>1, PacketCountType DEF ConnInv, ConnTypeOK, CountersCover
  <2>3. \A K : PacketCount(packets, K) = 0 => samplesCnt = SamplesBefore(K)
      BY <2>1, WalkToTheEnd, Zenon DEF SamplesBefore
  <2>4. gapPacketsCnt = 0 => PacketCount(packets, {"gap"}) = 0
      BY <2>2
  <2>5. eventPacketsCnt = 0 => PacketCount(packets, {"descriptor", "other"}) = 0
      BY <2>2
  <2>6. eventPacketsCnt = 0 => PacketCount(packets, {"descriptor"}) = 0
    <3>1. PacketCount(packets, {"descriptor"}) <= PacketCount(packets, {"descriptor", "other"})
        BY <2>1, PacketCountMono
    <3> QED
        BY <2>2, <2>5, <3>1
  <2>7. ~hasEventPacket => PacketCount(packets, {"descriptor", "gap", "other"}) = 0
    <3> SUFFICES ASSUME ~hasEventPacket
                 PROVE  PacketCount(packets, {"descriptor", "gap", "other"}) = 0
        OBVIOUS
    <3>1. /\ PacketCount(packets, {"gap"}) = 0
          /\ PacketCount(packets, {"descriptor", "other"}) = 0
        BY <2>4, <2>5 DEF hasEventPacket
    <3>2. PlacesOf(packets, {"gap"}) = {} /\ PlacesOf(packets, {"descriptor", "other"}) = {}
        BY <2>1, <3>1, PacketCountType, FS_EmptySet, Zenon DEF PacketCount
    <3>3. PlacesOf(packets, {"descriptor", "gap", "other"}) = {}
        BY <3>2 DEF PlacesOf
    <3> QED
        BY <3>3, FS_EmptySet DEF PacketCount
  <2> QED
      BY <2>3, <2>4, <2>6, <2>7, Zenon DEF FastPathsRight, getSamplesUntilNextEventPacket,
          getSamplesUntilNextDescriptor, getSamplesUntilNextGapPacket
<1> QED
    BY <1>1, ConnInitInv, ConnNextInv, PTL DEF ConnSpec
--------------------------------------------------------------------------------
(***************************************************************************)
(* The value descriptor in force after the packets of a queue.             *)
(***************************************************************************)

(* The places of a queue that announce a value descriptor.                 *)
Announcing(q) == {i \in DOMAIN q : q[i].kind = "descriptor" /\ q[i].value # NoDescriptor}

(* Without an announcement the descriptor stays; otherwise the last one is *)
(* in force.                                                               *)
LEMMA LastValueIs ==
    ASSUME NEW q \in Seq(Packet), NEW v
    PROVE  /\ Announcing(q) = {} => LastValue(q, v) = v
           /\ \A i \in Announcing(q) : (\A j \in Announcing(q) : j <= i) => LastValue(q, v) = q[i].value
           /\ Announcing(q) # {} => \E i \in Announcing(q) : \A j \in Announcing(q) : j <= i
<1> DEFINE A == Announcing(q)
           last == CHOOSE i \in A : \A j \in A : j <= i
<1>1. A \in SUBSET (1 .. Len(q)) /\ Len(q) \in Nat
    BY DEF Announcing
<1>2. LastValue(q, v) = IF A = {} THEN v ELSE q[last].value
    BY Zenon DEF LastValue, Announcing
<1> HIDE DEF A
<1>3. ASSUME NEW i \in A, \A j \in A : j <= i
      PROVE  last = i
  <2>1. last \in A /\ \A j \in A : j <= last
      BY <1>3, Zenon
  <2>2. last <= i /\ i <= last
      BY <1>3, <2>1, Zenon
  <2> HIDE DEF last
  <2>3. last \in Int /\ i \in Int
      BY <1>1, <1>3, <2>1
  <2> QED
      BY <2>2, <2>3
<1>4. A # {} => \E i \in A : \A j \in A : j <= i
    BY <1>1, LastPlace
<1> HIDE DEF last
<1> QED
    BY <1>2, <1>3, <1>4, Zenon DEF A

(* The packets of s, then the packets of t.                                *)
LEMMA LastValueConcat ==
    ASSUME NEW s \in Seq(Packet), NEW t \in Seq(Packet), NEW v
    PROVE  LastValue(s \o t, v) = LastValue(t, LastValue(s, v))
<1> DEFINE u == s \o t
<1>1. /\ u \in Seq(Packet) /\ DOMAIN u = 1 .. Len(s) + Len(t)
      /\ Len(s) \in Nat /\ Len(t) \in Nat
      /\ DOMAIN s = 1 .. Len(s) /\ DOMAIN t = 1 .. Len(t)
      /\ \A i \in 1 .. Len(s) : u[i] = s[i]
      /\ \A i \in 1 .. Len(t) : u[i + Len(s)] = t[i]
    OBVIOUS
<1> HIDE DEF u
<1>2. \A i \in 1 .. Len(s) : i \in Announcing(u) <=> i \in Announcing(s)
    BY <1>1 DEF Announcing
<1>3. \A i \in 1 .. Len(t) : i + Len(s) \in Announcing(u) <=> i \in Announcing(t)
    BY <1>1 DEF Announcing
<1>4. \A i \in Announcing(u) : i > Len(s) => i - Len(s) \in Announcing(t)
    BY <1>1 DEF Announcing
<1>5. /\ Announcing(s) \subseteq 1 .. Len(s) /\ Announcing(t) \subseteq 1 .. Len(t)
      /\ Announcing(u) \subseteq 1 .. Len(s) + Len(t)
    BY <1>1, Zenon DEF Announcing
<1>6. CASE Announcing(t) = {}
  <2>1. LastValue(t, LastValue(s, v)) = LastValue(s, v)
      BY <1>6, LastValueIs
  <2>2. Announcing(u) = Announcing(s)
    <3>1. ASSUME NEW i \in Announcing(u) PROVE i \in Announcing(s)
      <4>1. ~(i > Len(s))
          BY <1>4, <1>6
      <4>2. i \in 1 .. Len(s)
          BY <4>1, <1>1, <1>5
      <4> QED
          BY <4>2, <1>2
    <3>2. ASSUME NEW i \in Announcing(s) PROVE i \in Announcing(u)
        BY <1>2, <1>5
    <3> QED
        BY <3>1, <3>2, Zenon
  <2>3. CASE Announcing(s) = {}
      BY <2>1, <2>2, <2>3, <1>1, LastValueIs, Zenon DEF u
  <2>4. CASE Announcing(s) # {}
    <3>1. PICK i \in Announcing(s) : \A j \in Announcing(s) : j <= i
        BY <2>4, LastValueIs, Zenon
    <3>2. LastValue(s, v) = s[i].value /\ LastValue(u, v) = u[i].value
        BY <3>1, <2>2, <1>1, LastValueIs, Zenon
    <3>3. u[i] = s[i]
        BY <1>1, <1>5, <3>1
    <3> QED
        BY <2>1, <3>2, <3>3, Zenon DEF u
  <2> QED
      BY <2>3, <2>4
<1>7. CASE Announcing(t) # {}
  <2>1. PICK i \in Announcing(t) : \A j \in Announcing(t) : j <= i
      BY <1>7, LastValueIs, Zenon
  <2>2. LastValue(t, LastValue(s, v)) = t[i].value
      BY <2>1, LastValueIs, Zenon
  <2>3. i \in 1 .. Len(t) /\ i + Len(s) \in Announcing(u)
      BY <1>3, <1>5, <2>1
  <2>4. \A j \in Announcing(u) : j <= i + Len(s)
      BY <1>1, <1>4, <1>5, <2>1, <2>3
  <2>5. LastValue(u, v) = u[i + Len(s)].value
      BY <2>3, <2>4, <1>1, LastValueIs, Zenon
  <2>6. u[i + Len(s)] = t[i]
      BY <1>1, <2>3
  <2> QED
      BY <2>2, <2>5, <2>6, Zenon DEF u
<1> QED
    BY <1>6, <1>7

(* A queue that announces nothing, and one of a single packet.             *)
LEMMA LastValueShort ==
    ASSUME NEW v
    PROVE  /\ LastValue(<<>>, v) = v
           /\ \A p \in Packet : LastValue(<<p>>, v) =
                  IF p.kind = "descriptor" /\ p.value # NoDescriptor THEN p.value ELSE v
           /\ \A q \in Seq(Packet) :
                  (\A i \in DOMAIN q : q[i].kind # "descriptor") => LastValue(q, v) = v
<1>1. <<>> \in Seq(Packet) /\ Announcing(<<>>) = {}
    BY DEF Announcing
<1>2. ASSUME NEW p \in Packet
      PROVE  LastValue(<<p>>, v) =
                 IF p.kind = "descriptor" /\ p.value # NoDescriptor THEN p.value ELSE v
  <2>1. /\ <<p>> \in Seq(Packet) /\ <<p>>[1] = p
        /\ Announcing(<<p>>) = IF p.kind = "descriptor" /\ p.value # NoDescriptor THEN {1} ELSE {}
      BY DEF Announcing
  <2>2. 1 <= 1
      OBVIOUS
  <2> DEFINE q == <<p>>
  <2>3. q \in Seq(Packet) /\ q[1] = p
        /\ Announcing(q) = IF p.kind = "descriptor" /\ p.value # NoDescriptor THEN {1} ELSE {}
      BY <2>1
  <2> HIDE DEF q
  <2>4. LastValue(q, v) = IF p.kind = "descriptor" /\ p.value # NoDescriptor THEN p.value ELSE v
      BY <2>2, <2>3, LastValueIs
  <2> QED
      BY <2>4 DEF q
<1>3. ASSUME NEW q \in Seq(Packet), \A i \in DOMAIN q : q[i].kind # "descriptor"
      PROVE  LastValue(q, v) = v
  <2>1. Announcing(q) = {}
      BY <1>3 DEF Announcing
  <2> QED
      BY <2>1, LastValueIs
<1> QED
    BY <1>1, <1>2, <1>3, LastValueIs, Zenon

--------------------------------------------------------------------------------
(***************************************************************************)
(* What each operation does to the queue, in terms of concatenation.       *)
(***************************************************************************)

(* enqueueInternal appends at most one gap packet and then the packet.     *)
LEMMA EnqueueShape ==
    ASSUME ConnInv, NEW p \in SentPackets, Enqueue(p)
    PROVE  \E gap \in Seq(Packet), m \in Packet :
               /\ packets' = (packets \o gap) \o <<m>>
               /\ packets \o gap \in Seq(Packet)
               /\ gap = IF GapDetected(p) THEN <<GapPacket(GapDiff(p))>> ELSE <<>>
               /\ GapPacket(GapDiff(p)) \in Packet /\ GapPacket(GapDiff(p)).kind = "gap"
               /\ GapPacket(GapDiff(p)).seq = 0 /\ GapPacket(GapDiff(p)).diff = GapDiff(p)
               /\ p \in Packet /\ p.kind # "gap"
               /\ m.kind = p.kind /\ m.value = p.value /\ m.domain = p.domain
               /\ m.offset = p.offset /\ m.count = p.count /\ m.seq = sent + 1
<1> DEFINE gap == IF GapDetected(p) THEN <<GapPacket(GapDiff(p))>> ELSE <<>>
           m == Numbered(p, sent + 1)
<1>1. p \in Packet /\ (p.kind = "gap" => GapChecking)
    BY SentPacketsType DEF ConnInv
<1>2. p.kind # "gap"
    BY <1>1 DEF Enqueue, Accepted, ThrowsOnGapCheck, ConnInv
<1>3. GapDiff(p) \in Int
    BY <1>1 DEF GapDiff, ConnInv, ConnTypeOK, Packet
<1>4. /\ GapPacket(GapDiff(p)) \in Packet /\ GapPacket(GapDiff(p)).kind = "gap"
      /\ GapPacket(GapDiff(p)).seq = 0 /\ GapPacket(GapDiff(p)).diff = GapDiff(p)
  <2>1. GapPacket(GapDiff(p)) \in Packet /\ GapPacket(GapDiff(p)).kind = "gap"
      BY <1>3, GapPacketType
  <2>2. GapPacket(GapDiff(p)).seq = 0 /\ GapPacket(GapDiff(p)).diff = GapDiff(p)
      BY DEF GapPacket, EventPacket
  <2> QED
      BY <2>1, <2>2
<1>5. m \in Packet /\ m.kind = p.kind /\ m.count = p.count /\ m.seq = sent + 1
    BY <1>1, NumberedType DEF ConnInv, ConnTypeOK
<1>6. m.value = p.value /\ m.domain = p.domain /\ m.offset = p.offset
    BY <1>1 DEF Numbered, Packet
<1>7. gap \in Seq(Packet)
    BY <1>4
<1>8. packets' = (packets \o gap) \o <<m>>
    BY DEF Enqueue
<1>9. packets \o gap \in Seq(Packet)
    BY <1>7, ConcatProperties DEF ConnInv, ConnTypeOK
<1> HIDE DEF m
<1> QED
    BY <1>1, <1>2, <1>4, <1>5, <1>6, <1>7, <1>8, <1>9, Zenon

(* The data packets a list holds carry the descriptors announced last.     *)
LEMMA DataPacketsUnder ==
    ASSUME NEW p \in DataPackets
    PROVE  p.kind = "data" /\ p.value = valueDataDescriptor /\ p.domain = domainDataDescriptor
<1>1. PICK n \in SampleCounts, off \in Offsets :
          p = DataPacket(n, off, valueDataDescriptor, domainDataDescriptor)
    BY DEF DataPackets
<1> QED
    BY <1>1 DEF DataPacket

(* An event packet announces nothing unless it is a descriptor event; and  *)
(* its id is one of the ids producers send.                                *)
LEMMA SentPacketsUnder ==
    ASSUME NEW p \in SentPackets
    PROVE  /\ p.kind = "data" => p \in DataPackets
           /\ p.kind # "data" => p.kind \in EventIds
<1> USE ConnectionAssumption
<1>1. ASSUME NEW q \in EventPackets PROVE q.kind \in EventIds
  <2>1. PICK k \in EventIds :
            \E v \in ValueDescriptors \cup {NoDescriptor},
               d \in DomainDescriptors \cup {NoDomain} : q = EventPacket(k, v, d)
      BY DEF EventPackets
  <2> QED
      BY <2>1 DEF EventPacket
<1>2. "data" \notin EventIds
    OBVIOUS
<1>3. \A q \in DataPackets : q.kind = "data"
    BY DataPacketsUnder
<1> QED
    BY <1>1, <1>2, <1>3, Zenon DEF SentPackets

(* A list is appended; its packets are data packets as sent.               *)
LEMMA ListShape ==
    ASSUME ConnInv, NEW ps \in Batches, EnqueueMultiple(ps) \/ EnqueueMultipleAndStealRef(ps)
    PROVE  \E u \in Seq(Packet) :
               /\ EnqueueList(u)
               /\ Len(u) = Len(ps) /\ DOMAIN u = 1 .. Len(ps)
               /\ \A i \in DOMAIN u : /\ u[i].kind = "data" /\ u[i].value = valueDataDescriptor
                                      /\ u[i].domain = domainDataDescriptor
               /\ EnqueueMultiple(ps) => \A i \in DOMAIN u : u[i].seq = sent + i
<1>0. PICK n \in 1 .. MaxBatch : ps \in [1 .. n -> DataPackets]
    BY DEF Batches
<1>1. n \in Nat /\ DOMAIN ps = 1 .. n /\ ps \in Seq(DataPackets) /\ Len(ps) = n
    BY <1>0, ConnectionAssumption
<1>2. DataPackets \subseteq Packet
    BY SentPacketsType DEF ConnInv
<1>3. ASSUME NEW p \in DataPackets, NEW k \in Nat
      PROVE  /\ Numbered(p, k) \in Packet /\ Numbered(p, k).kind = "data"
             /\ Numbered(p, k).value = valueDataDescriptor
             /\ Numbered(p, k).domain = domainDataDescriptor
             /\ Numbered(p, k).seq = k
  <2>1. p \in Packet
      BY <1>2
  <2>2. Numbered(p, k) \in Packet /\ Numbered(p, k).kind = p.kind /\ Numbered(p, k).seq = k
      BY <2>1, NumberedType
  <2>3. Numbered(p, k).value = p.value /\ Numbered(p, k).domain = p.domain
      BY <2>1 DEF Numbered, Packet
  <2> QED
      BY <2>2, <2>3, DataPacketsUnder
<1>4. sent \in Nat
    BY DEF ConnInv, ConnTypeOK
<1>5. CASE EnqueueMultiple(ps)
  <2> DEFINE u == [i \in DOMAIN ps |-> Numbered(ps[i], sent + i)]
  <2>1. ASSUME NEW i \in 1 .. n
        PROVE  ps[i] \in DataPackets /\ sent + i \in Nat /\ u[i] = Numbered(ps[i], sent + i)
      BY <1>0, <1>1, <1>4
  <2>2. DOMAIN u = 1 .. n
      BY <1>1
  <2>3. EnqueueList(u)
      BY <1>5 DEF EnqueueMultiple
  <2> HIDE DEF u
  <2>4. ASSUME NEW i \in 1 .. n
        PROVE  /\ u[i] \in Packet /\ u[i].kind = "data" /\ u[i].seq = sent + i
               /\ u[i].value = valueDataDescriptor /\ u[i].domain = domainDataDescriptor
    <3> DEFINE p == ps[i]
               k == sent + i
    <3>1. p \in DataPackets /\ k \in Nat /\ u[i] = Numbered(p, k)
        BY <2>1
    <3> HIDE DEF p
    <3>2. /\ Numbered(p, k) \in Packet /\ Numbered(p, k).kind = "data"
          /\ Numbered(p, k).value = valueDataDescriptor
          /\ Numbered(p, k).domain = domainDataDescriptor
          /\ Numbered(p, k).seq = k
        BY <3>1, <1>3, Zenon
    <3> QED
        BY <3>1, <3>2, Zenon
  <2>5. u \in [1 .. n -> Packet]
    <3>1. u = [i \in 1 .. n |-> u[i]]
        BY <2>2, <1>1 DEF u
    <3> QED
        BY <3>1, <2>4, Zenon
  <2>6. u \in Seq(Packet) /\ Len(u) = n
      BY <2>5, <1>1
  <2> QED
      BY <1>1, <2>2, <2>3, <2>4, <2>6, Zenon
<1>6. CASE EnqueueMultipleAndStealRef(ps) /\ ~EnqueueMultiple(ps)
  <2> DEFINE u == [i \in DOMAIN ps |-> LET j == Len(ps) + 1 - i IN Numbered(ps[j], sent + j)]
  <2>1. ASSUME NEW i \in 1 .. n
        PROVE  /\ n + 1 - i \in 1 .. n /\ sent + (n + 1 - i) \in Nat
               /\ ps[n + 1 - i] \in DataPackets
               /\ u[i] = Numbered(ps[n + 1 - i], sent + (n + 1 - i))
    <3>1. n + 1 - i \in 1 .. n /\ sent + (n + 1 - i) \in Nat
        BY <1>1, <1>4
    <3>2. ps[n + 1 - i] \in DataPackets
        BY <3>1, <1>0
    <3> QED
        BY <3>1, <3>2, <1>1
  <2>2. DOMAIN u = 1 .. n
      BY <1>1
  <2>3. EnqueueList(u)
      BY <1>6 DEF EnqueueMultipleAndStealRef
  <2> HIDE DEF u
  <2>4. ASSUME NEW i \in 1 .. n
        PROVE  /\ u[i] \in Packet /\ u[i].kind = "data"
               /\ u[i].value = valueDataDescriptor /\ u[i].domain = domainDataDescriptor
    <3> DEFINE p == ps[n + 1 - i]
               k == sent + (n + 1 - i)
    <3>1. p \in DataPackets /\ k \in Nat /\ u[i] = Numbered(p, k)
        BY <2>1
    <3> HIDE DEF p, k
    <3>2. /\ Numbered(p, k) \in Packet /\ Numbered(p, k).kind = "data"
          /\ Numbered(p, k).value = valueDataDescriptor
          /\ Numbered(p, k).domain = domainDataDescriptor
        BY <3>1, <1>3, Zenon
    <3> QED
        BY <3>1, <3>2, Zenon
  <2>5. u \in [1 .. n -> Packet]
    <3>1. u = [i \in 1 .. n |-> u[i]]
        BY <2>2, <1>1 DEF u
    <3> QED
        BY <3>1, <2>4, Zenon
  <2>6. u \in Seq(Packet) /\ Len(u) = n
      BY <2>5, <1>1
  <2> QED
      BY <1>1, <1>6, <2>2, <2>3, <2>4, <2>6, Zenon
<1> QED
    BY <1>5, <1>6

(* dequeue takes the first packet off, dequeueUpTo the first ones.         *)
LEMMA DequeueShape ==
    ASSUME ConnInv, Dequeue
    PROVE  /\ Head(packets) \in Packet /\ packets' \in Seq(Packet)
           /\ packets = <<Head(packets)>> \o packets'
           /\ packets # <<>> /\ packets' = Tail(packets)
           /\ HandOut(<<Head(packets)>>)
<1> DEFINE h == Head(packets)
<1>1. packets \in Seq(Packet) /\ packets # <<>> /\ packets' = Tail(packets) /\ HandOut(<<h>>)
    BY DEF Dequeue, ConnInv, ConnTypeOK
<1>2. h \in Packet /\ Tail(packets) \in Seq(Packet)
    BY <1>1, HeadTailProperties
<1> DEFINE u == <<h>> \o Tail(packets)
<1>3. <<h>> \in Seq(Packet)
    BY <1>2
<1>4. u \in Seq(Packet) /\ Len(u) = Len(packets) /\ \A i \in 1 .. Len(packets) : u[i] = packets[i]
  <2>1. /\ Len(packets) \in Nat /\ Len(packets) # 0 /\ Len(Tail(packets)) = Len(packets) - 1
        /\ h = packets[1]
      BY <1>1, HeadTailProperties, EmptySeq
  <2>2. \A i \in 1 .. Len(packets) - 1 : Tail(packets)[i] = packets[i + 1]
      BY <1>1, HeadTailProperties
  <2> HIDE DEF h
  <2> QED
      BY <1>2, <1>3, <2>1, <2>2
<1>5. packets = u
    BY <1>1, <1>4, SeqEqual
<1> QED
    BY <1>1, <1>2, <1>5, Zenon

(* dequeueUpTo hands out the front of the queue and keeps the rest.        *)
LEMMA DequeueUpToShape ==
    ASSUME ConnInv, NEW n \in 1 .. MaxQueue, DequeueUpTo(n)
    PROVE  \E s \in Seq(Packet) :
               packets' \in Seq(Packet) /\ packets = s \o packets' /\ HandOut(s)
<1> DEFINE k == IF n < Len(packets) THEN n ELSE Len(packets)
           s == SubSeq(packets, 1, k)
<1>1. packets \in Seq(Packet) /\ k \in 0 .. Len(packets)
    BY ConnectionAssumption DEF ConnInv, ConnTypeOK
<1>2. packets' = SubSeq(packets, k + 1, Len(packets)) /\ HandOut(s)
    BY DEF DequeueUpTo
<1> HIDE DEF k
<1>3. s \in Seq(Packet) /\ packets' \in Seq(Packet)
    BY <1>1, <1>2, CountSplit, Zenon
<1>4. s \o packets' = packets
  <2>1. 1 \in 1 .. Len(packets) + 1 /\ k \in 1 - 1 .. Len(packets) /\ Len(packets) \in k .. Len(packets)
      BY <1>1
  <2>2. s \o packets' = SubSeq(packets, 1, Len(packets))
      BY <1>1, <1>2, <2>1, ConcatAdjacentSubSeq, Zenon
  <2> QED
      BY <1>1, <2>2, SubSeqFull, Zenon
<1> QED
    BY <1>2, <1>3, <1>4, Zenon

--------------------------------------------------------------------------------
(***************************************************************************)
(* The descriptor announced last reaches the consumer.                     *)
(***************************************************************************)
KnownInv == ConnInv /\ LastDescriptorReachesConsumer

(* What a packet or a list appended does to the descriptor in force.       *)
LEMMA EnqueueKnown ==
    ASSUME KnownInv, NEW p \in SentPackets, Enqueue(p)
    PROVE  LastDescriptorReachesConsumer'
<1>1. PICK gap \in Seq(Packet), m \in Packet :
          /\ packets' = (packets \o gap) \o <<m>>
          /\ packets \o gap \in Seq(Packet)
          /\ gap = IF GapDetected(p) THEN <<GapPacket(GapDiff(p))>> ELSE <<>>
          /\ GapPacket(GapDiff(p)) \in Packet /\ GapPacket(GapDiff(p)).kind = "gap"
          /\ p \in Packet /\ m.kind = p.kind /\ m.value = p.value
    BY EnqueueShape, Zenon DEF KnownInv
<1>2. /\ packets \in Seq(Packet) /\ readDescriptor' = readDescriptor
      /\ valueDataDescriptor' = LastValue(<<p>>, valueDataDescriptor)
      /\ LastValue(packets, readDescriptor) = valueDataDescriptor
    BY DEF Enqueue, onPacketsEnqueued, KnownInv, ConnInv, ConnTypeOK, LastDescriptorReachesConsumer
<1>3. LastValue(gap, valueDataDescriptor) = valueDataDescriptor
    BY <1>1, LastValueShort
<1>4. <<m>> \in Seq(Packet)
    BY <1>1
<1>5. LastValue(packets \o gap, readDescriptor) = LastValue(gap, LastValue(packets, readDescriptor))
  <2>1. packets \in Seq(Packet) /\ gap \in Seq(Packet)
      BY <1>1, <1>2
  <2> QED
      BY ONLY <2>1, LastValueConcat, Zenon
<1>6. LastValue((packets \o gap) \o <<m>>, readDescriptor)
          = LastValue(<<m>>, LastValue(packets \o gap, readDescriptor))
  <2> DEFINE s == packets \o gap
             t == <<m>>
  <2>1. s \in Seq(Packet) /\ t \in Seq(Packet)
      BY <1>1, <1>4
  <2> HIDE DEF s, t
  <2>2. LastValue(s \o t, readDescriptor) = LastValue(t, LastValue(s, readDescriptor))
      BY <2>1, LastValueConcat, Zenon
  <2> QED
      BY <2>2, Zenon DEF s, t
<1>7. LastValue(<<m>>, valueDataDescriptor) = LastValue(<<p>>, valueDataDescriptor)
  <2>1. \A x \in Packet : LastValue(<<x>>, valueDataDescriptor) =
            IF x.kind = "descriptor" /\ x.value # NoDescriptor THEN x.value ELSE valueDataDescriptor
      BY LastValueShort
  <2>2. LastValue(<<m>>, valueDataDescriptor) =
            IF m.kind = "descriptor" /\ m.value # NoDescriptor THEN m.value ELSE valueDataDescriptor
      BY <2>1, Zenon
  <2>3. LastValue(<<p>>, valueDataDescriptor) =
            IF p.kind = "descriptor" /\ p.value # NoDescriptor THEN p.value ELSE valueDataDescriptor
      BY <1>1, <2>1, Zenon
  <2> QED
      BY <1>1, <2>2, <2>3
<1>8. LastValue(packets', readDescriptor') = LastValue(<<p>>, valueDataDescriptor)
    BY <1>1, <1>2, <1>3, <1>5, <1>6, <1>7, Zenon
<1> QED
    BY <1>2, <1>8 DEF LastDescriptorReachesConsumer

(* A list of data packets brings no descriptor.                            *)
LEMMA ListKnown ==
    ASSUME KnownInv, NEW u \in Seq(Packet), EnqueueList(u), \A i \in DOMAIN u : u[i].kind = "data"
    PROVE  LastDescriptorReachesConsumer'
<1>1. /\ packets \in Seq(Packet) /\ readDescriptor' = readDescriptor /\ packets' = packets \o u
      /\ valueDataDescriptor' = LastValue(u, valueDataDescriptor)
      /\ LastValue(packets, readDescriptor) = valueDataDescriptor
    BY DEF EnqueueList, onPacketsEnqueued, KnownInv, ConnInv, ConnTypeOK, LastDescriptorReachesConsumer
<1>2. LastValue(packets \o u, readDescriptor) = LastValue(u, LastValue(packets, readDescriptor))
    BY <1>1, LastValueConcat, Zenon
<1> QED
    BY <1>1, <1>2 DEF LastDescriptorReachesConsumer

(* The known descriptors in front of the queue: what the queue announces   *)
(* itself still comes last.                                                *)
LEMMA LastDescriptorKnown ==
    ASSUME KnownInv, EnqueueLastDescriptor
    PROVE  LastDescriptorReachesConsumer'
<1> DEFINE e == EventPacket("descriptor", valueDataDescriptor, domainDataDescriptor)
<1>1. /\ packets \in Seq(Packet) /\ packets' = <<e>> \o packets
      /\ readDescriptor' = readDescriptor /\ valueDataDescriptor' = valueDataDescriptor
      /\ LastValue(packets, readDescriptor) = valueDataDescriptor
    BY DEF EnqueueLastDescriptor, KnownInv, ConnInv, ConnTypeOK, LastDescriptorReachesConsumer,
           descVars, history
<1>2. e \in Packet /\ e.kind = "descriptor" /\ e.value = valueDataDescriptor
    BY DEF EventPacket, Packet, Kinds, KnownInv, ConnInv, ConnTypeOK
<1> HIDE DEF e
<1>3. <<e>> \in Seq(Packet)
    BY <1>2
<1>4. LastValue(<<e>> \o packets, readDescriptor) = LastValue(packets, LastValue(<<e>>, readDescriptor))
    BY <1>1, <1>3, LastValueConcat, Zenon
<1>5. LastValue(<<e>>, readDescriptor) =
          IF valueDataDescriptor = NoDescriptor THEN readDescriptor ELSE valueDataDescriptor
    BY <1>2, LastValueShort
<1>6. LastValue(packets, valueDataDescriptor) = valueDataDescriptor
  <2>1. CASE Announcing(packets) = {}
      BY <2>1, <1>1, LastValueIs
  <2>2. CASE Announcing(packets) # {}
    <3>1. PICK i \in Announcing(packets) : \A j \in Announcing(packets) : j <= i
        BY <2>2, <1>1, LastValueIs, Zenon
    <3>2. \A v : LastValue(packets, v) = packets[i].value
        BY <3>1, <1>1, LastValueIs, Zenon
    <3> QED
        BY <3>2, <1>1, Zenon
  <2> QED
      BY <2>1, <2>2
<1> QED
    BY <1>1, <1>4, <1>5, <1>6 DEF LastDescriptorReachesConsumer

(* Handing the first packets out moves their announcements to the reader.  *)
LEMMA HandOutKnown ==
    ASSUME KnownInv, NEW s \in Seq(Packet), packets' \in Seq(Packet),
           packets = s \o packets', HandOut(s), UNCHANGED valueDataDescriptor
    PROVE  LastDescriptorReachesConsumer'
<1>1. /\ readDescriptor' = LastValue(s, readDescriptor)
      /\ LastValue(packets, readDescriptor) = valueDataDescriptor
    BY DEF HandOut, KnownInv, LastDescriptorReachesConsumer
<1> DEFINE t == packets'
           r == readDescriptor
<1>2. t \in Seq(Packet) /\ packets = s \o t
    OBVIOUS
<1> HIDE DEF t, r
<1>3. LastValue(s \o t, r) = LastValue(t, LastValue(s, r))
    BY <1>2, LastValueConcat, Zenon
<1> QED
    BY <1>1, <1>2, <1>3, Zenon DEF LastDescriptorReachesConsumer, t, r

(* Every step.                                                             *)
LEMMA NextKnown == KnownInv /\ [ConnNext]_connVars => KnownInv'
<1> SUFFICES ASSUME KnownInv, [ConnNext]_connVars PROVE KnownInv'
    OBVIOUS
<1>0. ConnInv /\ ConnInv'
    BY ConnNextInv DEF KnownInv
<1> SUFFICES LastDescriptorReachesConsumer'
    BY <1>0 DEF KnownInv
<1>1. ASSUME NEW p \in SentPackets, Enqueue(p) PROVE LastDescriptorReachesConsumer'
    BY <1>1, EnqueueKnown
<1>2. ASSUME NEW ps \in Batches, EnqueueMultiple(ps) \/ EnqueueMultipleAndStealRef(ps)
      PROVE  LastDescriptorReachesConsumer'
  <2>1. PICK u \in Seq(Packet) : EnqueueList(u) /\ \A i \in DOMAIN u : u[i].kind = "data"
      BY <1>0, <1>2, ListShape, Zenon
  <2> QED
      BY <2>1, ListKnown
<1>3. ASSUME EnqueueLastDescriptor PROVE LastDescriptorReachesConsumer'
    BY <1>3, LastDescriptorKnown
<1>4. ASSUME Dequeue PROVE LastDescriptorReachesConsumer'
  <2>1. UNCHANGED valueDataDescriptor
      BY <1>4 DEF Dequeue, descVars
  <2>2. Head(packets) \in Packet
      BY <1>0, <1>4, DequeueShape
  <2> DEFINE s == <<Head(packets)>>
  <2>3. s \in Seq(Packet)
      BY <2>2
  <2>4. packets' \in Seq(Packet) /\ packets = s \o packets' /\ HandOut(s)
      BY <1>0, <1>4, DequeueShape, Zenon
  <2> HIDE DEF s
  <2> QED
      BY <2>1, <2>3, <2>4, HandOutKnown, Zenon
<1>5. ASSUME DequeueAll PROVE LastDescriptorReachesConsumer'
  <2>1. /\ packets' = <<>> /\ readDescriptor' = LastValue(packets, readDescriptor)
        /\ valueDataDescriptor' = valueDataDescriptor
      BY <1>5 DEF DequeueAll, HandOut, descVars
  <2>2. \A v : LastValue(<<>>, v) = v
      BY LastValueShort
  <2> QED
      BY <2>1, <2>2, Zenon DEF LastDescriptorReachesConsumer, KnownInv
<1>6. ASSUME NEW n \in 1 .. MaxQueue, DequeueUpTo(n) PROVE LastDescriptorReachesConsumer'
  <2>1. UNCHANGED valueDataDescriptor
      BY <1>6, Zenon DEF DequeueUpTo, descVars
  <2>2. PICK s \in Seq(Packet) : packets' \in Seq(Packet) /\ packets = s \o packets' /\ HandOut(s)
      BY <1>0, <1>6, DequeueUpToShape, Zenon
  <2> QED
      BY <2>1, <2>2, HandOutKnown, Zenon
<1>7. ASSUME DequeueNothing \/ SetActive \/ UNCHANGED connVars PROVE LastDescriptorReachesConsumer'
    BY <1>7, Zenon DEF DequeueNothing, SetActive, connVars, descVars, history, KnownInv,
                       LastDescriptorReachesConsumer
<1> QED
    BY <1>1, <1>2, <1>3, <1>4, <1>5, <1>6, <1>7, Zenon DEF ConnNext

(* The last descriptor reaches the consumer of a new connection.           *)
LEMMA InitKnown == ConnInit => KnownInv
<1> SUFFICES ASSUME ConnInit PROVE LastDescriptorReachesConsumer
    BY ConnInitInv DEF KnownInv
<1> QED
    BY LastValueShort, Zenon DEF ConnInit, LastDescriptorReachesConsumer

(* Whoever drains the queue ends with the value descriptor the connection  *)
(* remembers, whatever mix of enqueue and dequeue methods is used and      *)
(* however often setListener repeats the descriptors at the front.         *)
THEOREM DescriptorNeverLost == ConnSpec => []LastDescriptorReachesConsumer
<1>1. KnownInv => LastDescriptorReachesConsumer
    BY DEF KnownInv
<1> QED
    BY <1>1, InitKnown, NextKnown, PTL DEF ConnSpec

--------------------------------------------------------------------------------
(***************************************************************************)
(* Data is read under the descriptor it was sent with.                     *)
(***************************************************************************)

(* DescriptorInForce for any queue and any descriptor known before it.     *)
InForce(q, v) ==
    \A i \in DOMAIN q : q[i].kind = "data" => q[i].value = LastValue(SubSeq(q, 1, i - 1), v)

(* Data read through two stretches is read under the descriptor that the   *)
(* first one leaves in force.                                              *)
LEMMA InForceConcat ==
    ASSUME NEW s \in Seq(Packet), NEW t \in Seq(Packet), NEW v
    PROVE  InForce(s \o t, v) <=> InForce(s, v) /\ InForce(t, LastValue(s, v))
<1> DEFINE u == s \o t
<1>1. /\ u \in Seq(Packet) /\ DOMAIN u = 1 .. Len(s) + Len(t) /\ Len(u) = Len(s) + Len(t)
      /\ Len(s) \in Nat /\ Len(t) \in Nat
      /\ DOMAIN s = 1 .. Len(s) /\ DOMAIN t = 1 .. Len(t)
      /\ \A i \in 1 .. Len(s) : u[i] = s[i]
      /\ \A i \in 1 .. Len(t) : u[i + Len(s)] = t[i]
    OBVIOUS
<1>2. ASSUME NEW i \in 1 .. Len(s)
      PROVE  SubSeq(u, 1, i - 1) = SubSeq(s, 1, i - 1)
    BY <1>1
<1>3. ASSUME NEW i \in 1 .. Len(t)
      PROVE  LastValue(SubSeq(u, 1, i + Len(s) - 1), v)
                 = LastValue(SubSeq(t, 1, i - 1), LastValue(s, v))
  <2>1. SubSeq(t, 1, i - 1) \in Seq(Packet)
      BY <1>1
  <2>2. SubSeq(u, 1, i + Len(s) - 1) = s \o SubSeq(t, 1, i - 1)
      BY <1>1
  <2> DEFINE r == SubSeq(t, 1, i - 1)
  <2>3. r \in Seq(Packet)
      BY <2>1
  <2> HIDE DEF r
  <2>4. LastValue(s \o r, v) = LastValue(r, LastValue(s, v))
      BY <2>3, LastValueConcat, Zenon
  <2> QED
      BY <2>2, <2>4, Zenon DEF r
<1> HIDE DEF u
<1>4. ASSUME InForce(u, v) PROVE InForce(s, v)
  <2> SUFFICES ASSUME NEW i \in 1 .. Len(s), s[i].kind = "data"
               PROVE  s[i].value = LastValue(SubSeq(s, 1, i - 1), v)
      BY <1>1, Zenon DEF InForce
  <2>1. i \in DOMAIN u /\ u[i] = s[i]
      BY <1>1
  <2> QED
      BY <2>1, <1>2, <1>4, Zenon DEF InForce
<1>5. ASSUME InForce(u, v) PROVE InForce(t, LastValue(s, v))
  <2> SUFFICES ASSUME NEW i \in 1 .. Len(t), t[i].kind = "data"
               PROVE  t[i].value = LastValue(SubSeq(t, 1, i - 1), LastValue(s, v))
      BY <1>1, Zenon DEF InForce
  <2>1. i + Len(s) \in DOMAIN u /\ u[i + Len(s)] = t[i]
      BY <1>1
  <2> DEFINE k == i + Len(s)
  <2>2. u[k].value = LastValue(SubSeq(u, 1, k - 1), v)
      BY <2>1, <1>5, Zenon DEF InForce
  <2> QED
      BY <2>1, <2>2, <1>3
<1>6. ASSUME InForce(s, v), InForce(t, LastValue(s, v)) PROVE InForce(u, v)
  <2> SUFFICES ASSUME NEW i \in DOMAIN u, u[i].kind = "data"
               PROVE  u[i].value = LastValue(SubSeq(u, 1, i - 1), v)
      BY DEF InForce
  <2>1. CASE i <= Len(s)
    <3>1. i \in 1 .. Len(s) /\ u[i] = s[i] /\ i \in DOMAIN s
        BY <2>1, <1>1
    <3> QED
        BY <3>1, <1>2, <1>6, Zenon DEF InForce
  <2>2. CASE i > Len(s)
    <3>1. PICK j \in 1 .. Len(t) : i = j + Len(s)
      <4>1. i - Len(s) \in 1 .. Len(t) /\ i = (i - Len(s)) + Len(s)
          BY <2>2, <1>1
      <4> QED
          BY <4>1, Zenon
    <3>2. u[i] = t[j] /\ j \in DOMAIN t
        BY <3>1, <1>1
    <3>3. t[j].value = LastValue(SubSeq(t, 1, j - 1), LastValue(s, v))
        BY <3>2, <1>6, Zenon DEF InForce
    <3>4. LastValue(SubSeq(u, 1, j + Len(s) - 1), v)
              = LastValue(SubSeq(t, 1, j - 1), LastValue(s, v))
        BY <1>3, Zenon
    <3> QED
        BY <3>1, <3>2, <3>3, <3>4
  <2>3. i \in Nat
      BY <1>1
  <2> QED
      BY <2>1, <2>2, <2>3, <1>1
<1> QED
    BY <1>4, <1>5, <1>6, Zenon DEF u

(* A list of data packets, or a single packet that is one, sent under v.   *)
LEMMA InForceData ==
    ASSUME NEW q \in Seq(Packet), NEW v,
           \A i \in DOMAIN q : q[i].kind # "descriptor" /\ (q[i].kind = "data" => q[i].value = v)
    PROVE  InForce(q, v)
<1> SUFFICES ASSUME NEW i \in DOMAIN q, q[i].kind = "data"
             PROVE  q[i].value = LastValue(SubSeq(q, 1, i - 1), v)
    BY DEF InForce
<1> DEFINE r == SubSeq(q, 1, i - 1)
<1>1. r \in Seq(Packet) /\ \A j \in DOMAIN r : r[j] = q[j] /\ j \in DOMAIN q
    OBVIOUS
<1> HIDE DEF r
<1>2. LastValue(r, v) = v
    BY ZenonT(40), <1>1, LastValueShort
<1> QED
    BY <1>2 DEF r

(* One packet, data sent under v or an event.                              *)
LEMMA InForceSingle ==
    ASSUME NEW p \in Packet, NEW v, p.kind = "data" => p.value = v
    PROVE  InForce(<<p>>, v)
<1>1. SubSeq(<<p>>, 1, 1 - 1) = <<>> /\ DOMAIN <<p>> = {1} /\ <<p>>[1] = p
    OBVIOUS
<1>2. LastValue(<<>>, v) = v
    BY LastValueShort
<1> DEFINE q == <<p>>
<1>3. SubSeq(q, 1, 1 - 1) = <<>> /\ DOMAIN q = {1} /\ q[1] = p
    BY <1>1
<1> HIDE DEF q
<1>4. InForce(q, v)
    BY <1>2, <1>3, Zenon DEF InForce
<1> QED
    BY <1>4 DEF q

InForceInv == KnownInv /\ InForce(packets, readDescriptor)

(* A packet, with a gap packet in front of it or not.                      *)
LEMMA EnqueueInForce ==
    ASSUME InForceInv, NEW p \in SentPackets, Enqueue(p)
    PROVE  InForce(packets', readDescriptor')
<1> DEFINE r == readDescriptor
           v == valueDataDescriptor
<1>1. PICK gap \in Seq(Packet), m \in Packet :
          /\ packets' = (packets \o gap) \o <<m>>
          /\ packets \o gap \in Seq(Packet)
          /\ gap = IF GapDetected(p) THEN <<GapPacket(GapDiff(p))>> ELSE <<>>
          /\ GapPacket(GapDiff(p)) \in Packet /\ GapPacket(GapDiff(p)).kind = "gap"
          /\ p \in Packet /\ m.kind = p.kind /\ m.value = p.value
    BY EnqueueShape, Zenon DEF InForceInv, KnownInv
<1>2. /\ packets \in Seq(Packet) /\ readDescriptor' = r
      /\ LastValue(packets, r) = v /\ InForce(packets, r)
    BY DEF Enqueue, InForceInv, KnownInv, ConnInv, ConnTypeOK, LastDescriptorReachesConsumer
<1> HIDE DEF r, v
<1>3. \A i \in DOMAIN gap : gap[i].kind = "gap"
    BY <1>1
<1>4. LastValue(gap, v) = v /\ InForce(gap, v)
    BY <1>3, LastValueShort, InForceData
<1>5. InForce(packets \o gap, r) /\ LastValue(packets \o gap, r) = v
    BY <1>2, <1>4, InForceConcat, LastValueConcat
<1>6. m.kind = "data" => m.value = v
    BY <1>1, SentPacketsUnder, DataPacketsUnder DEF v
<1>7. InForce(<<m>>, v)
    BY <1>6, InForceSingle
<1> DEFINE s == packets \o gap
           t == <<m>>
<1>8. s \in Seq(Packet) /\ t \in Seq(Packet) /\ InForce(s, r) /\ LastValue(s, r) = v /\ InForce(t, v)
    BY <1>1, <1>5, <1>7
<1>9. packets' = s \o t
    BY <1>1
<1> HIDE DEF s, t
<1>10. InForce(s \o t, r)
    BY <1>8, InForceConcat
<1> QED
    BY <1>2, <1>9, <1>10, Zenon

(* A list of data packets.                                                 *)
LEMMA ListInForce ==
    ASSUME InForceInv, NEW u \in Seq(Packet), EnqueueList(u),
           \A i \in DOMAIN u : u[i].kind = "data" /\ u[i].value = valueDataDescriptor
    PROVE  InForce(packets', readDescriptor')
<1>1. /\ packets \in Seq(Packet) /\ readDescriptor' = readDescriptor /\ packets' = packets \o u
      /\ LastValue(packets, readDescriptor) = valueDataDescriptor
      /\ InForce(packets, readDescriptor)
    BY DEF EnqueueList, InForceInv, KnownInv, ConnInv, ConnTypeOK, LastDescriptorReachesConsumer
<1>2. InForce(u, valueDataDescriptor)
    BY InForceData
<1> QED
    BY <1>1, <1>2, InForceConcat

(* The first packets handed out.                                           *)
LEMMA HandOutInForce ==
    ASSUME InForceInv, NEW s \in Seq(Packet), packets' \in Seq(Packet),
           packets = s \o packets', HandOut(s)
    PROVE  InForce(packets', readDescriptor')
<1>1. readDescriptor' = LastValue(s, readDescriptor) /\ InForce(packets, readDescriptor)
    BY DEF HandOut, InForceInv
<1> DEFINE t == packets'
           r == readDescriptor
<1>2. t \in Seq(Packet) /\ packets = s \o t
    OBVIOUS
<1> HIDE DEF t, r
<1>3. InForce(s \o t, r) => InForce(t, LastValue(s, r))
    BY <1>2, InForceConcat
<1> QED
    BY <1>1, <1>2, <1>3, Zenon DEF t, r

(* Every step but enqueueLastDescriptor.                                   *)
LEMMA NextInForce ==
    ASSUME "enqueueLastDescriptor" \notin Producers
    PROVE  InForceInv /\ [ConnNext]_connVars => InForceInv'
<1> SUFFICES ASSUME InForceInv, [ConnNext]_connVars PROVE InForceInv'
    OBVIOUS
<1>0. ConnInv /\ KnownInv'
    BY NextKnown DEF InForceInv, KnownInv
<1> DEFINE G == InForce(packets', readDescriptor')
<1> SUFFICES G
    BY <1>0 DEF InForceInv
<1>1. ASSUME NEW p \in SentPackets, Enqueue(p) PROVE G
    BY <1>1, EnqueueInForce
<1>2. ASSUME NEW ps \in Batches, EnqueueMultiple(ps) \/ EnqueueMultipleAndStealRef(ps)
      PROVE  G
  <2>1. PICK u \in Seq(Packet) :
            EnqueueList(u) /\ \A i \in DOMAIN u : u[i].kind = "data" /\ u[i].value = valueDataDescriptor
      BY <1>0, <1>2, ListShape, Zenon
  <2> QED
      BY <2>1, ListInForce
<1>4. ASSUME Dequeue PROVE G
  <2>1. Head(packets) \in Packet
      BY <1>0, <1>4, DequeueShape
  <2> DEFINE s == <<Head(packets)>>
  <2>2. s \in Seq(Packet)
      BY <2>1
  <2>3. packets' \in Seq(Packet) /\ packets = s \o packets' /\ HandOut(s)
      BY <1>0, <1>4, DequeueShape, Zenon
  <2> HIDE DEF s
  <2> QED
      BY <2>2, <2>3, HandOutInForce, Zenon
<1>5. ASSUME DequeueAll PROVE G
  <2>1. packets' = <<>>
      BY <1>5 DEF DequeueAll
  <2> QED
      BY <2>1 DEF InForce
<1>6. ASSUME NEW n \in 1 .. MaxQueue, DequeueUpTo(n) PROVE G
  <2>1. PICK s \in Seq(Packet) : packets' \in Seq(Packet) /\ packets = s \o packets' /\ HandOut(s)
      BY <1>0, <1>6, DequeueUpToShape, Zenon
  <2> QED
      BY <2>1, HandOutInForce, Zenon
<1>7. ASSUME DequeueNothing \/ SetActive \/ UNCHANGED connVars PROVE G
  <2>1. packets' = packets /\ readDescriptor' = readDescriptor
      BY <1>7 DEF DequeueNothing, SetActive, connVars, history
  <2> QED
      BY <2>1, Zenon DEF InForceInv
<1> HIDE DEF G
<1> QED
    BY <1>1, <1>2, <1>4, <1>5, <1>6, <1>7, Zenon DEF ConnNext

(* As long as nobody asks for the known descriptors again at the front of  *)
(* the queue (setListener of the port does, and then queued data would be  *)
(* read under a newer descriptor), a consumer that follows the descriptor  *)
(* events reads every data packet under the descriptor it was sent with.   *)
THEOREM DataReadUnderItsDescriptor ==
    ASSUME "enqueueLastDescriptor" \notin Producers
    PROVE  ConnSpec => []DescriptorInForce
<1>1. ConnInit => InForceInv
  <2> SUFFICES ASSUME ConnInit PROVE InForce(packets, readDescriptor)
      BY InitKnown DEF InForceInv
  <2>1. packets = <<>>
      BY DEF ConnInit
  <2> QED
      BY <2>1 DEF InForce
<1>2. InForceInv /\ [ConnNext]_connVars => InForceInv'
    BY NextInForce
<1>3. InForceInv => DescriptorInForce
    BY Zenon DEF InForceInv, InForce, DescriptorInForce
<1> QED
    BY <1>1, <1>2, <1>3, PTL DEF ConnSpec

--------------------------------------------------------------------------------
(***************************************************************************)
(* The answers about events are exact for a consumer that uses dequeue.    *)
(***************************************************************************)
ExactInv ==
    /\ ConnInv
    /\ eventPacketsCnt = PacketCount(packets, {"descriptor"}) + PacketCount(packets, {"other"})
                         + strays
    /\ gapPacketsCnt = PacketCount(packets, {"gap"})

(* There is a packet of the kinds exactly if their count is not zero.      *)
LEMMA CountZero ==
    ASSUME NEW q \in Seq(Packet), NEW K
    PROVE  PacketCount(q, K) # 0 <=> \E i \in DOMAIN q : q[i].kind \in K
<1>1. PacketCount(q, K) = 0 <=> PlacesOf(q, K) = {}
    BY PacketCountType, FS_EmptySet, Zenon DEF PacketCount
<1> QED
    BY <1>1, Zenon DEF PlacesOf

(* A packet, with a gap packet in front of it or not.                      *)
LEMMA EnqueueExact ==
    ASSUME ExactInv, NEW p \in SentPackets, Enqueue(p)
    PROVE  /\ eventPacketsCnt' = PacketCount(packets', {"descriptor"})
                                  + PacketCount(packets', {"other"}) + strays'
           /\ gapPacketsCnt' = PacketCount(packets', {"gap"})
<1> DEFINE gaps == IF GapDetected(p) THEN <<GapPacket(GapDiff(p))>> ELSE <<>>
           g == GapPacket(GapDiff(p))
<1>1. PICK gap \in Seq(Packet), m \in Packet :
          /\ packets' = (packets \o gap) \o <<m>>
          /\ packets \o gap \in Seq(Packet)
          /\ gap = gaps
          /\ g \in Packet /\ g.kind = "gap"
          /\ p \in Packet /\ p.kind # "gap" /\ m.kind = p.kind
    BY EnqueueShape, Zenon DEF ExactInv
<1>2. /\ packets \in Seq(Packet) /\ eventPacketsCnt \in Nat /\ gapPacketsCnt \in Nat
      /\ eventPacketsCnt' = eventPacketsCnt + PacketCount(<<p>>, Kinds \ {"data"})
      /\ gapPacketsCnt' = gapPacketsCnt + Len(gaps)
      /\ strays \in Nat /\ strays' = strays
    BY DEF Enqueue, onPacketsEnqueued, ExactInv, ConnInv, ConnTypeOK
<1>3. p.kind \in {"data", "descriptor", "other"}
    BY <1>1 DEF Packet, Kinds
<1>4. /\ Len(gap) \in Nat /\ PacketCount(gap, {"gap"}) = Len(gap)
      /\ PacketCount(gap, {"descriptor"}) = 0 /\ PacketCount(gap, {"other"}) = 0
  <2>1. CASE GapDetected(p)
    <3>1. gap = <<g>>
        BY <1>1, <2>1
    <3> HIDE DEF g
    <3> QED
        BY <1>1, <3>1, CountSingle
  <2>2. CASE ~GapDetected(p)
    <3>1. gap = <<>>
        BY <1>1, <2>2
    <3> QED
        BY <3>1, CountEmpty
  <2> QED
      BY <2>1, <2>2
<1>5. Len(gaps) = Len(gap)
    BY <1>1
<1> HIDE DEF gaps, g
<1> DEFINE d == IF p.kind = "descriptor" THEN 1 ELSE 0
           o == IF p.kind = "other" THEN 1 ELSE 0
<1>6. /\ PacketCount(<<m>>, {"descriptor"}) = d /\ PacketCount(<<m>>, {"gap"}) = 0
      /\ PacketCount(<<m>>, {"other"}) = o
      /\ PacketCount(<<p>>, Kinds \ {"data"}) = d + o
    BY <1>1, <1>3, CountSingle DEF Kinds
<1>7. <<m>> \in Seq(Packet)
    OBVIOUS
<1>8. \A K : PacketCount(packets \o gap, K) = PacketCount(packets, K) + PacketCount(gap, K)
    BY <1>1, <1>2, PacketCountConcat, Zenon
<1>9. \A K : PacketCount((packets \o gap) \o <<m>>, K)
                 = PacketCount(packets \o gap, K) + PacketCount(<<m>>, K)
  <2> DEFINE s == packets \o gap
             t == <<m>>
  <2>1. s \in Seq(Packet) /\ t \in Seq(Packet)
      BY <1>1, <1>7
  <2> HIDE DEF s, t
  <2>2. \A K : PacketCount(s \o t, K) = PacketCount(s, K) + PacketCount(t, K)
      BY <2>1, PacketCountConcat, Zenon
  <2> QED
      BY <2>2 DEF s, t
<1>10. \A K : PacketCount(packets', K) = PacketCount(packets, K) + PacketCount(gap, K) + PacketCount(<<m>>, K)
    BY <1>1, <1>8, <1>9, Zenon
<1>11. /\ eventPacketsCnt = PacketCount(packets, {"descriptor"}) + PacketCount(packets, {"other"})
                            + strays
       /\ gapPacketsCnt = PacketCount(packets, {"gap"})
    BY DEF ExactInv
<1>12. /\ PacketCount(packets, {"descriptor"}) \in Nat /\ PacketCount(packets, {"gap"}) \in Nat
       /\ PacketCount(packets, {"other"}) \in Nat
    BY <1>2, PacketCountType
<1>13. d \in Nat /\ o \in Nat
    OBVIOUS
<1> HIDE DEF d, o
<1>14. /\ PacketCount(packets', {"descriptor"}) = PacketCount(packets, {"descriptor"}) + d
       /\ PacketCount(packets', {"other"}) = PacketCount(packets, {"other"}) + o
       /\ PacketCount(packets', {"gap"}) = PacketCount(packets, {"gap"}) + Len(gap)
    BY <1>4, <1>6, <1>10, <1>12, <1>13
<1>15. eventPacketsCnt' = eventPacketsCnt + d + o /\ gapPacketsCnt' = gapPacketsCnt + Len(gap)
    BY <1>2, <1>5, <1>6, <1>13
<1>16. gapPacketsCnt' = PacketCount(packets', {"gap"})
    BY <1>11, <1>14, <1>15
<1>17. eventPacketsCnt' = PacketCount(packets', {"descriptor"}) + PacketCount(packets', {"other"})
                          + strays
  <2> DEFINE e == PacketCount(packets, {"descriptor"})
             f == PacketCount(packets, {"other"})
             e1 == PacketCount(packets', {"descriptor"})
             f1 == PacketCount(packets', {"other"})
  <2>1. /\ e \in Nat /\ f \in Nat /\ strays \in Nat
        /\ e1 = e + d /\ f1 = f + o /\ eventPacketsCnt = e + f + strays
        /\ eventPacketsCnt' = eventPacketsCnt + d + o
      BY <1>2, <1>11, <1>12, <1>14, <1>15
  <2> HIDE DEF e, f, e1, f1
  <2>2. eventPacketsCnt' = e1 + f1 + strays
      BY <1>13, <2>1
  <2> QED
      BY <2>2 DEF e1, f1
<1> QED
    BY <1>2, <1>16, <1>17

(* A list of data packets.                                                 *)
LEMMA ListExact ==
    ASSUME ExactInv, NEW u \in Seq(Packet), EnqueueList(u), \A i \in DOMAIN u : u[i].kind = "data"
    PROVE  /\ eventPacketsCnt' = PacketCount(packets', {"descriptor"})
                                  + PacketCount(packets', {"other"}) + strays'
           /\ gapPacketsCnt' = PacketCount(packets', {"gap"})
<1>1. /\ packets \in Seq(Packet) /\ packets' = packets \o u
      /\ eventPacketsCnt \in Nat /\ gapPacketsCnt \in Nat
      /\ eventPacketsCnt' = eventPacketsCnt + PacketCount(u, Kinds \ {"data"})
      /\ gapPacketsCnt' = gapPacketsCnt /\ strays' = strays
    BY DEF EnqueueList, onPacketsEnqueued, ExactInv, ConnInv, ConnTypeOK
<1>2. \A K : "data" \notin K => PacketCount(u, K) = 0
  <2>1. \A K : "data" \notin K => PlacesOf(u, K) = {}
      BY DEF PlacesOf
  <2> QED
      BY <2>1, FS_EmptySet, Zenon DEF PacketCount
<1>3. \A K : PacketCount(packets', K) = PacketCount(packets, K) + PacketCount(u, K)
    BY <1>1, PacketCountConcat, Zenon
<1>4. /\ PacketCount(u, Kinds \ {"data"}) = 0 /\ PacketCount(u, {"descriptor"}) = 0
      /\ PacketCount(u, {"gap"}) = 0 /\ PacketCount(u, {"other"}) = 0
    BY <1>2
<1>5. /\ PacketCount(packets, {"descriptor"}) \in Nat /\ PacketCount(packets, {"gap"}) \in Nat
      /\ PacketCount(packets, {"other"}) \in Nat
    BY <1>1, PacketCountType
<1> QED
    BY <1>1, <1>3, <1>4, <1>5 DEF ExactInv

(* The known descriptors in front of the queue.                            *)
LEMMA LastDescriptorExact ==
    ASSUME ExactInv, EnqueueLastDescriptor
    PROVE  /\ eventPacketsCnt' = PacketCount(packets', {"descriptor"})
                                  + PacketCount(packets', {"other"}) + strays'
           /\ gapPacketsCnt' = PacketCount(packets', {"gap"})
<1> DEFINE e == EventPacket("descriptor", valueDataDescriptor, domainDataDescriptor)
<1>1. /\ packets \in Seq(Packet) /\ packets' = <<e>> \o packets
      /\ eventPacketsCnt \in Nat /\ gapPacketsCnt \in Nat
      /\ eventPacketsCnt' = eventPacketsCnt + 1 /\ gapPacketsCnt' = gapPacketsCnt
      /\ strays \in Nat /\ strays' = strays
    BY DEF EnqueueLastDescriptor, history, ExactInv, ConnInv, ConnTypeOK
<1>2. e \in Packet /\ e.kind = "descriptor"
    BY DEF EventPacket, Packet, Kinds, ExactInv, ConnInv, ConnTypeOK
<1> HIDE DEF e
<1>3. <<e>> \in Seq(Packet)
    BY <1>2
<1>4. \A K : PacketCount(<<e>> \o packets, K) = PacketCount(<<e>>, K) + PacketCount(packets, K)
    BY <1>1, <1>3, PacketCountConcat, Zenon
<1>5. /\ PacketCount(<<e>>, {"descriptor"}) = 1 /\ PacketCount(<<e>>, {"gap"}) = 0
      /\ PacketCount(<<e>>, {"other"}) = 0
    BY <1>2, CountSingle
<1>6. /\ PacketCount(packets, {"descriptor"}) \in Nat /\ PacketCount(packets, {"gap"}) \in Nat
      /\ PacketCount(packets, {"other"}) \in Nat
    BY <1>1, PacketCountType
<1>7. /\ PacketCount(packets', {"descriptor"}) = 1 + PacketCount(packets, {"descriptor"})
      /\ PacketCount(packets', {"other"}) = PacketCount(packets, {"other"})
      /\ PacketCount(packets', {"gap"}) = PacketCount(packets, {"gap"})
    BY <1>1, <1>4, <1>5, <1>6
<1> QED
    BY <1>1, <1>6, <1>7 DEF ExactInv

(* dequeue takes what it hands out off the right counter.                  *)
LEMMA DequeueExact ==
    ASSUME ExactInv, Dequeue
    PROVE  /\ eventPacketsCnt' = PacketCount(packets', {"descriptor"})
                                  + PacketCount(packets', {"other"}) + strays'
           /\ gapPacketsCnt' = PacketCount(packets', {"gap"})
<1> DEFINE h == Head(packets)
<1>1. /\ packets \in Seq(Packet) /\ packets # <<>> /\ packets' = Tail(packets)
      /\ eventPacketsCnt \in Nat /\ gapPacketsCnt \in Nat
      /\ eventPacketsCnt' = eventPacketsCnt - (IF h.kind = "descriptor" THEN 1 ELSE 0)
      /\ gapPacketsCnt' = gapPacketsCnt - (IF h.kind = "gap" THEN 1 ELSE 0)
      /\ strays \in Nat /\ strays' = strays + PacketCount(<<h>>, {"other"})
    BY DEF Dequeue, HandOut, onPacketDequeued, ExactInv, ConnInv, ConnTypeOK
<1>2. /\ packets' \in Seq(Packet)
      /\ \A K : PacketCount(packets, K) = (IF h.kind \in K THEN 1 ELSE 0) + PacketCount(packets', K)
    BY <1>1, CountTail, Zenon
<1> HIDE DEF h
<1>3. \A K : PacketCount(packets', K) \in Nat
    BY <1>2, PacketCountType
<1>4. /\ PacketCount(packets, {"descriptor"})
             = (IF h.kind = "descriptor" THEN 1 ELSE 0) + PacketCount(packets', {"descriptor"})
      /\ PacketCount(packets, {"gap"})
             = (IF h.kind = "gap" THEN 1 ELSE 0) + PacketCount(packets', {"gap"})
      /\ PacketCount(packets, {"other"})
             = (IF h.kind = "other" THEN 1 ELSE 0) + PacketCount(packets', {"other"})
    BY <1>2
<1>5. PacketCount(packets', {"descriptor"}) \in Nat /\ PacketCount(packets', {"gap"}) \in Nat
      /\ PacketCount(packets', {"other"}) \in Nat
    BY <1>3
<1>6. PacketCount(<<h>>, {"other"}) = IF h.kind = "other" THEN 1 ELSE 0
  <2>1. h \in Packet
      BY <1>1 DEF h
  <2> QED
      BY <2>1, CountSingle
<1> DEFINE d == IF h.kind = "descriptor" THEN 1 ELSE 0
           g == IF h.kind = "gap" THEN 1 ELSE 0
           o == IF h.kind = "other" THEN 1 ELSE 0
<1>7. d \in Nat /\ g \in Nat /\ o \in Nat
    OBVIOUS
<1>8. /\ eventPacketsCnt' = eventPacketsCnt - d /\ gapPacketsCnt' = gapPacketsCnt - g
      /\ strays' = strays + o
    BY <1>1, <1>6
<1>9. /\ PacketCount(packets, {"descriptor"}) = d + PacketCount(packets', {"descriptor"})
      /\ PacketCount(packets, {"gap"}) = g + PacketCount(packets', {"gap"})
      /\ PacketCount(packets, {"other"}) = o + PacketCount(packets', {"other"})
    BY <1>4
<1> HIDE DEF d, g, o
<1>10. /\ eventPacketsCnt = PacketCount(packets, {"descriptor"}) + PacketCount(packets, {"other"})
                             + strays
       /\ gapPacketsCnt = PacketCount(packets, {"gap"}) /\ strays \in Nat
    BY <1>1 DEF ExactInv
<1> QED
    BY <1>5, <1>7, <1>8, <1>9, <1>10

(* If the owner of the port reads with dequeue, hasGapPacket tells exactly *)
(* what is queued, however the packets came in, and so does hasEventPacket *)
(* until an event of another id has been handed out.                       *)
THEOREM EventAnswersExact ==
    ASSUME Consumers \subseteq {"dequeue"}
    PROVE  ConnSpec => []CountersExact
<1>1. ConnInit => ExactInv
    BY ConnInitInv, CountEmpty DEF ConnInit, ExactInv
<1>2. ASSUME ExactInv, [ConnNext]_connVars PROVE ExactInv'
  <2>0. ConnInv /\ ConnInv'
      BY <1>2, ConnNextInv DEF ExactInv
  <2> DEFINE G == /\ eventPacketsCnt' = PacketCount(packets', {"descriptor"})
                                         + PacketCount(packets', {"other"}) + strays'
                  /\ gapPacketsCnt' = PacketCount(packets', {"gap"})
  <2> SUFFICES G
      BY <2>0, Zenon DEF ExactInv
  <2>1. ASSUME NEW p \in SentPackets, Enqueue(p) PROVE G
      BY <1>2, <2>1, EnqueueExact
  <2>2. ASSUME NEW ps \in Batches, EnqueueMultiple(ps) \/ EnqueueMultipleAndStealRef(ps)
        PROVE  G
    <3>1. PICK u \in Seq(Packet) : EnqueueList(u) /\ \A i \in DOMAIN u : u[i].kind = "data"
        BY <2>0, <2>2, ListShape, Zenon
    <3> QED
        BY <1>2, <3>1, ListExact
  <2>3. ASSUME EnqueueLastDescriptor PROVE G
      BY <1>2, <2>3, LastDescriptorExact
  <2>4. ASSUME Dequeue PROVE G
      BY <1>2, <2>4, DequeueExact
  <2>5. ASSUME DequeueNothing \/ SetActive \/ UNCHANGED connVars PROVE G
    <3>1. UNCHANGED <<packets, eventPacketsCnt, gapPacketsCnt, strays>>
        BY <2>5 DEF DequeueNothing, SetActive, connVars, counters, history
    <3> QED
        BY <1>2, <3>1, Zenon DEF ExactInv
  <2>6. "dequeueAll" \notin Consumers /\ "dequeueUpTo" \notin Consumers
      OBVIOUS
  <2> HIDE DEF G
  <2> QED
      BY <1>2, <2>1, <2>2, <2>3, <2>4, <2>5, <2>6, Zenon DEF ConnNext
<1>3. ASSUME ExactInv PROVE CountersExact
  <2>1. packets \in Seq(Packet) /\ \A i \in DOMAIN packets : packets[i].kind \in Kinds
    <3>1. packets \in Seq(Packet)
        BY <1>3 DEF ExactInv, ConnInv, ConnTypeOK
    <3>2. \A i \in DOMAIN packets : packets[i] \in Packet
        BY <3>1
    <3> QED
        BY <3>1, <3>2 DEF Packet
  <2> DEFINE d == PacketCount(packets, {"descriptor"})
             o == PacketCount(packets, {"other"})
  <2>2. /\ d # 0 <=> \E i \in DOMAIN packets : packets[i].kind \in {"descriptor"}
        /\ o # 0 <=> \E i \in DOMAIN packets : packets[i].kind \in {"other"}
        /\ (gapPacketsCnt # 0) <=> \E i \in DOMAIN packets : packets[i].kind \in {"gap"}
      BY <1>3, <2>1, CountZero, Zenon DEF ExactInv
  <2>3. d \in Nat /\ o \in Nat
      BY <2>1, PacketCountType
  <2>4. eventPacketsCnt = d + o + strays /\ strays \in Nat
      BY <1>3 DEF ExactInv, ConnInv, ConnTypeOK
  <2> HIDE DEF d, o
  <2>5. eventPacketsCnt # 0 <=> d # 0 \/ o # 0 \/ strays > 0
      BY <2>3, <2>4
  <2> QED
      BY <2>1, <2>2, <2>5 DEF CountersExact, HasEventPacketRight, HasGapPacketRight, hasEventPacket,
                        hasGapPacket, IsEvent, Kinds
<1> QED
    BY <1>1, <1>2, <1>3, PTL DEF ConnSpec

--------------------------------------------------------------------------------
(***************************************************************************)
(* First in, first out.                                                    *)
(***************************************************************************)

(* The places of a queue that hold packets of the producers, how many they *)
(* are, and that they are numbered one by one from n + 1 on.               *)
Own(q) == {i \in DOMAIN q : q[i].seq # 0}
OwnCount(q) == Cardinality(Own(q))
NumberedFrom(q, n) == \A i \in Own(q) : q[i].seq = n + OwnCount(SubSeq(q, 1, i))

(* They can be counted.                                                    *)
LEMMA OwnType ==
    ASSUME NEW q \in Seq(Packet)
    PROVE  IsFiniteSet(Own(q)) /\ OwnCount(q) \in Nat
<1>1. IsFiniteSet(1 .. Len(q))
    BY FS_Interval
<1>2. Own(q) \in SUBSET (1 .. Len(q))
    BY DEF Own
<1> QED
    BY <1>1, <1>2, FS_Subset, FS_CardinalityType DEF OwnCount

(* Counting them in a concatenation: the sum of the counts.                *)
LEMMA OwnConcat ==
    ASSUME NEW s \in Seq(Packet), NEW t \in Seq(Packet)
    PROVE  OwnCount(s \o t) = OwnCount(s) + OwnCount(t)
<1> DEFINE A == Own(s)
           B == Own(t)
           C == {i \in Own(s \o t) : i > Len(s)}
           f == [i \in B |-> i + Len(s)]
<1>1. /\ \A i \in 1 .. Len(s) : (s \o t)[i] = s[i]
      /\ \A i \in 1 .. Len(t) : (s \o t)[i + Len(s)] = t[i]
      /\ DOMAIN (s \o t) = 1 .. Len(s) + Len(t)
      /\ DOMAIN s = 1 .. Len(s) /\ Len(s) \in Nat
      /\ DOMAIN t = 1 .. Len(t) /\ Len(t) \in Nat
    OBVIOUS
<1>2. Own(s \o t) = A \cup C
    BY <1>1 DEF Own
<1>3. A \cap C = {}
    BY <1>1 DEF Own
<1>4. f \in Bijection(B, C)
  <2>1. f \in [B -> C]
      BY <1>1 DEF Own
  <2>2. \A i, j \in B : f[i] = f[j] => i = j
      BY <1>1 DEF Own
  <2>3. ASSUME NEW c \in C
        PROVE  \E i \in B : f[i] = c
    <3>1. c - Len(s) \in B
        BY <1>1 DEF Own
    <3>2. f[c - Len(s)] = c
        BY <3>1, <1>1 DEF Own
    <3> QED
        BY <3>1, <3>2
  <2> QED
      BY <2>1, <2>2, <2>3 DEF Bijection, Injection, Surjection, IsInjective
<1>5. IsFiniteSet(A) /\ IsFiniteSet(B)
    BY OwnType
<1>6. IsFiniteSet(C) /\ Cardinality(C) = Cardinality(B)
    BY <1>4, <1>5, FS_Bijection DEF ExistsBijection
<1>7. Cardinality(A \cup C) = Cardinality(A) + Cardinality(C) - Cardinality(A \cap C)
    BY <1>5, <1>6, FS_Union
<1>8. Cardinality(A \cap C) = 0
    BY <1>3, FS_EmptySet
<1>9. Cardinality(A) \in Nat /\ Cardinality(B) \in Nat
    BY <1>5, FS_CardinalityType
<1> HIDE DEF C
<1> QED
    BY <1>2, <1>6, <1>7, <1>8, <1>9 DEF OwnCount

(* The queue of one packet and the one of no packet of the producers.      *)
LEMMA OwnShort ==
    ASSUME NEW q \in Seq(Packet)
    PROVE  /\ (\A i \in DOMAIN q : q[i].seq = 0) =>
                  (OwnCount(q) = 0 /\ \A n : NumberedFrom(q, n))
           /\ \A n \in Nat : (\A i \in DOMAIN q : q[i].seq = n + i) =>
                  (OwnCount(q) = Len(q) /\ NumberedFrom(q, n))
<1>1. ASSUME \A i \in DOMAIN q : q[i].seq = 0
      PROVE  OwnCount(q) = 0 /\ \A n : NumberedFrom(q, n)
  <2>1. Own(q) = {}
      BY <1>1 DEF Own
  <2> QED
      BY <2>1, FS_EmptySet DEF OwnCount, NumberedFrom
<1>2. ASSUME NEW n \in Nat, \A i \in DOMAIN q : q[i].seq = n + i
      PROVE  OwnCount(q) = Len(q) /\ NumberedFrom(q, n)
  <2>1. DOMAIN q = 1 .. Len(q) /\ Len(q) \in Nat
      OBVIOUS
  <2>2. Own(q) = 1 .. Len(q)
      BY <1>2, <2>1 DEF Own
  <2>3. \A k \in 0 .. Len(q) : Cardinality(1 .. k) = k
    <3> TAKE k \in 0 .. Len(q)
    <3>1. k \in Nat /\ Cardinality(1 .. k) = IF 1 > k THEN 0 ELSE k - 1 + 1
        BY <2>1, FS_Interval
    <3> QED
        BY <3>1
  <2>4. \A k \in 1 .. Len(q) : Own(SubSeq(q, 1, k)) = 1 .. k
    <3> TAKE k \in 1 .. Len(q)
    <3> DEFINE r == SubSeq(q, 1, k)
    <3>1. DOMAIN r = 1 .. k /\ \A i \in 1 .. k : r[i] = q[i] /\ i \in DOMAIN q
        BY <2>1
    <3> HIDE DEF r
    <3>2. \A i \in 1 .. k : r[i].seq # 0
        BY <1>2, <3>1, <2>1
    <3>3. Own(r) = 1 .. k
        BY <3>1, <3>2 DEF Own
    <3> QED
        BY <3>3 DEF r
  <2>5. \A k \in 1 .. Len(q) : OwnCount(SubSeq(q, 1, k)) = k
      BY <2>3, <2>4, <2>1 DEF OwnCount
  <2> QED
      BY <1>2, <2>1, <2>2, <2>3, <2>5 DEF OwnCount, NumberedFrom
<1> QED
    BY <1>1, <1>2

(* Numbering a concatenation: t goes on where s stops.                     *)
LEMMA NumberedConcat ==
    ASSUME NEW s \in Seq(Packet), NEW t \in Seq(Packet), NEW n \in Nat
    PROVE  NumberedFrom(s \o t, n) <=> NumberedFrom(s, n) /\ NumberedFrom(t, n + OwnCount(s))
<1> DEFINE u == s \o t
           c == OwnCount(s)
<1>0. c \in Nat
    BY OwnType
<1>1. /\ u \in Seq(Packet) /\ DOMAIN u = 1 .. Len(s) + Len(t) /\ Len(u) = Len(s) + Len(t)
      /\ Len(s) \in Nat /\ Len(t) \in Nat
      /\ DOMAIN s = 1 .. Len(s) /\ DOMAIN t = 1 .. Len(t)
      /\ \A i \in 1 .. Len(s) : u[i] = s[i]
      /\ \A i \in 1 .. Len(t) : u[i + Len(s)] = t[i]
    OBVIOUS
<1>2. ASSUME NEW i \in 1 .. Len(s)
      PROVE  OwnCount(SubSeq(u, 1, i)) = OwnCount(SubSeq(s, 1, i))
  <2>1. SubSeq(u, 1, i) = SubSeq(s, 1, i)
      BY <1>1
  <2> QED
      BY <2>1, Zenon
<1>3. ASSUME NEW i \in 1 .. Len(t)
      PROVE  /\ OwnCount(SubSeq(u, 1, i + Len(s))) = c + OwnCount(SubSeq(t, 1, i))
             /\ OwnCount(SubSeq(t, 1, i)) \in Nat
  <2> DEFINE r == SubSeq(t, 1, i)
  <2>1. r \in Seq(Packet)
      BY <1>1
  <2>2. SubSeq(u, 1, i + Len(s)) = s \o r
      BY <1>1
  <2> HIDE DEF r
  <2>3. OwnCount(s \o r) = c + OwnCount(r) /\ OwnCount(r) \in Nat
      BY <2>1, OwnConcat, OwnType
  <2> QED
      BY <2>2, <2>3, Zenon DEF r
<1> HIDE DEF u, c
<1>4. /\ \A i \in 1 .. Len(s) : i \in Own(u) <=> i \in Own(s)
      /\ \A i \in 1 .. Len(t) : i + Len(s) \in Own(u) <=> i \in Own(t)
      /\ \A i \in Own(u) : i \in 1 .. Len(s) \/ \E j \in 1 .. Len(t) : i = j + Len(s)
      /\ Own(s) \subseteq 1 .. Len(s) /\ Own(t) \subseteq 1 .. Len(t)
  <2>1. \A i \in 1 .. Len(s) + Len(t) : i \in 1 .. Len(s) \/ \E j \in 1 .. Len(t) : i = j + Len(s)
    <3> TAKE i \in 1 .. Len(s) + Len(t)
    <3>1. CASE i <= Len(s)
        BY <1>1, <3>1
    <3>2. CASE i > Len(s)
      <4>1. i - Len(s) \in 1 .. Len(t) /\ i = (i - Len(s)) + Len(s)
          BY <1>1, <3>2
      <4> QED
          BY <4>1, Zenon
    <3> QED
        BY <1>1, <3>1, <3>2
  <2>2. Own(u) \subseteq 1 .. Len(s) + Len(t)
      BY <1>1, Zenon DEF Own
  <2>3. \A i \in 1 .. Len(s) : i \in Own(u) <=> i \in Own(s)
      BY <1>1 DEF Own
  <2>4. \A i \in 1 .. Len(t) : i + Len(s) \in Own(u) <=> i \in Own(t)
      BY <1>1 DEF Own
  <2> QED
      BY <1>1, <2>1, <2>2, <2>3, <2>4, Zenon DEF Own
<1>5. ASSUME NumberedFrom(u, n) PROVE NumberedFrom(s, n)
  <2> SUFFICES ASSUME NEW i \in Own(s) PROVE s[i].seq = n + OwnCount(SubSeq(s, 1, i))
      BY DEF NumberedFrom
  <2>1. i \in 1 .. Len(s) /\ i \in Own(u)
      BY <1>4
  <2>2. u[i].seq = n + OwnCount(SubSeq(u, 1, i)) /\ u[i] = s[i]
      BY <2>1, <1>1, <1>5, Zenon DEF NumberedFrom
  <2> QED
      BY <2>1, <2>2, <1>2, Zenon
<1>6. ASSUME NumberedFrom(u, n) PROVE NumberedFrom(t, n + c)
  <2> SUFFICES ASSUME NEW i \in Own(t) PROVE t[i].seq = n + c + OwnCount(SubSeq(t, 1, i))
      BY Zenon DEF NumberedFrom
  <2> DEFINE k == i + Len(s)
  <2>1. i \in 1 .. Len(t) /\ k \in Own(u) /\ u[k] = t[i]
      BY <1>1, <1>4
  <2>2. u[k].seq = n + OwnCount(SubSeq(u, 1, k))
      BY <2>1, <1>6, Zenon DEF NumberedFrom
  <2>3. OwnCount(SubSeq(u, 1, k)) = c + OwnCount(SubSeq(t, 1, i)) /\ OwnCount(SubSeq(t, 1, i)) \in Nat
      BY <2>1, <1>3
  <2> HIDE DEF k
  <2> QED
      BY <1>0, <2>1, <2>2, <2>3
<1>7. ASSUME NumberedFrom(s, n), NumberedFrom(t, n + c) PROVE NumberedFrom(u, n)
  <2> SUFFICES ASSUME NEW i \in Own(u) PROVE u[i].seq = n + OwnCount(SubSeq(u, 1, i))
      BY DEF NumberedFrom
  <2>1. CASE i \in 1 .. Len(s)
    <3>1. i \in Own(s) /\ u[i] = s[i]
        BY <2>1, <1>1, <1>4
    <3>2. s[i].seq = n + OwnCount(SubSeq(s, 1, i))
        BY <3>1, <1>7, Zenon DEF NumberedFrom
    <3> QED
        BY <2>1, <3>1, <3>2, <1>2, Zenon
  <2>2. CASE \E j \in 1 .. Len(t) : i = j + Len(s)
    <3>1. PICK j \in 1 .. Len(t) : i = j + Len(s)
        BY <2>2
    <3>2. j \in Own(t) /\ u[i] = t[j]
        BY <3>1, <1>1, <1>4
    <3>3. t[j].seq = n + c + OwnCount(SubSeq(t, 1, j))
        BY <3>2, <1>7, Zenon DEF NumberedFrom
    <3>4. OwnCount(SubSeq(u, 1, i)) = c + OwnCount(SubSeq(t, 1, j)) /\ OwnCount(SubSeq(t, 1, j)) \in Nat
        BY <3>1, <1>3
    <3> QED
        BY <1>0, <3>2, <3>3, <3>4
  <2> QED
      BY <2>1, <2>2, <1>4, Zenon
<1> QED
    BY <1>5, <1>6, <1>7, Zenon DEF u, c

(* FifoWindow in terms of the two counts above.                            *)
WindowOf(q, n, m) == OwnCount(q) = m - n /\ NumberedFrom(q, n)
FifoInv == ConnInv /\ WindowOf(packets, delivered, sent)

(* The windows of two stretches in order make one, and a stretch keeps its *)
(* own window when the one before it is taken away.                        *)
LEMMA WindowConcat ==
    ASSUME NEW s \in Seq(Packet), NEW t \in Seq(Packet),
           NEW n \in Nat, NEW m \in Nat, NEW k \in Nat
    PROVE  /\ WindowOf(s, n, m) /\ WindowOf(t, m, k) => WindowOf(s \o t, n, k)
           /\ WindowOf(s \o t, n, k) => WindowOf(t, n + OwnCount(s), k)
<1>1. OwnCount(s \o t) = OwnCount(s) + OwnCount(t) /\ OwnCount(s) \in Nat /\ OwnCount(t) \in Nat
    BY OwnConcat, OwnType
<1>2. NumberedFrom(s \o t, n) <=> NumberedFrom(s, n) /\ NumberedFrom(t, n + OwnCount(s))
    BY NumberedConcat
<1>3. OwnCount(s) = m - n => n + OwnCount(s) = m
    BY <1>1
<1> QED
    BY SMTT(40), <1>1, <1>2, <1>3 DEF WindowOf

(* A packet, with a gap packet in front of it or not.                      *)
LEMMA EnqueueFifo ==
    ASSUME FifoInv, NEW p \in SentPackets, Enqueue(p)
    PROVE  WindowOf(packets', delivered', sent')
<1>1. PICK gap \in Seq(Packet), m \in Packet :
          /\ packets' = (packets \o gap) \o <<m>>
          /\ packets \o gap \in Seq(Packet)
          /\ gap = IF GapDetected(p) THEN <<GapPacket(GapDiff(p))>> ELSE <<>>
          /\ GapPacket(GapDiff(p)) \in Packet /\ GapPacket(GapDiff(p)).seq = 0
          /\ m.seq = sent + 1
    BY EnqueueShape, Zenon DEF FifoInv
<1>2. /\ packets \in Seq(Packet) /\ sent \in Nat /\ delivered \in Nat
      /\ delivered' = delivered /\ sent' = sent + 1 /\ WindowOf(packets, delivered, sent)
    BY DEF Enqueue, FifoInv, ConnInv, ConnTypeOK
<1>3. \A i \in DOMAIN gap : gap[i].seq = 0
    BY <1>1
<1>4. WindowOf(gap, sent, sent)
  <2>1. OwnCount(gap) = 0 /\ NumberedFrom(gap, sent)
      BY <1>3, OwnShort, Zenon
  <2> QED
      BY <2>1, <1>2 DEF WindowOf
<1>5. <<m>> \in Seq(Packet) /\ Len(<<m>>) = 1 /\ \A i \in DOMAIN <<m>> : <<m>>[i].seq = sent + i
    BY <1>1
<1> DEFINE s == packets \o gap
           t == <<m>>
<1>6. s \in Seq(Packet) /\ packets' = s \o t
    BY <1>1
<1>7. t \in Seq(Packet) /\ WindowOf(t, sent, sent + 1)
  <2>1. t \in Seq(Packet) /\ Len(t) = 1 /\ \A i \in DOMAIN t : t[i].seq = sent + i
      BY <1>5
  <2> HIDE DEF t
  <2>2. OwnCount(t) = 1 /\ NumberedFrom(t, sent)
      BY <2>1, <1>2, OwnShort
  <2> QED
      BY <2>1, <2>2, <1>2 DEF WindowOf
<1>8. WindowOf(s, delivered, sent)
    BY <1>2, <1>4, WindowConcat
<1>9. sent + 1 \in Nat
    BY <1>2
<1> HIDE DEF s, t
<1>10. WindowOf(s \o t, delivered, sent + 1)
    BY <1>2, <1>6, <1>7, <1>8, <1>9, WindowConcat
<1> QED
    BY <1>2, <1>6, <1>10, Zenon

(* A list appended in its own order.                                       *)
LEMMA ListFifo ==
    ASSUME FifoInv, NEW u \in Seq(Packet), EnqueueList(u),
           \A i \in DOMAIN u : u[i].seq = sent + i
    PROVE  WindowOf(packets', delivered', sent')
<1>1. /\ packets \in Seq(Packet) /\ sent \in Nat /\ delivered \in Nat /\ packets' = packets \o u
      /\ delivered' = delivered /\ sent' = sent + Len(u) /\ WindowOf(packets, delivered, sent)
    BY DEF EnqueueList, FifoInv, ConnInv, ConnTypeOK
<1>2. OwnCount(u) = Len(u) /\ NumberedFrom(u, sent) /\ Len(u) \in Nat
    BY <1>1, OwnShort
<1>3. WindowOf(u, sent, sent + Len(u)) /\ sent + Len(u) \in Nat
    BY <1>1, <1>2 DEF WindowOf
<1> QED
    BY <1>1, <1>3, WindowConcat

(* The known descriptors in front are no packet of a producer.             *)
LEMMA LastDescriptorFifo ==
    ASSUME FifoInv, EnqueueLastDescriptor
    PROVE  WindowOf(packets', delivered', sent')
<1> DEFINE e == EventPacket("descriptor", valueDataDescriptor, domainDataDescriptor)
           s == <<e>>
<1>1. /\ packets \in Seq(Packet) /\ sent \in Nat /\ delivered \in Nat
      /\ delivered' = delivered /\ sent' = sent /\ WindowOf(packets, delivered, sent)
      /\ packets' = s \o packets
    BY DEF EnqueueLastDescriptor, FifoInv, ConnInv, ConnTypeOK, history
<1>2. e \in Packet /\ e.seq = 0
    BY DEF EventPacket, Packet, Kinds, FifoInv, ConnInv, ConnTypeOK
<1> HIDE DEF e
<1>3. s \in Seq(Packet) /\ \A i \in DOMAIN s : s[i].seq = 0
    BY <1>2
<1> HIDE DEF s
<1>4. OwnCount(s) = 0 /\ NumberedFrom(s, delivered)
    BY <1>3, OwnShort, Zenon
<1>5. WindowOf(s, delivered, delivered)
    BY <1>1, <1>4 DEF WindowOf
<1> QED
    BY <1>1, <1>3, <1>5, WindowConcat

(* The first packets handed out.                                           *)
LEMMA HandOutFifo ==
    ASSUME FifoInv, NEW s \in Seq(Packet), packets' \in Seq(Packet),
           packets = s \o packets', HandOut(s)
    PROVE  WindowOf(packets', delivered', sent')
<1>1. /\ delivered' = delivered + OwnCount(s) /\ sent' = sent
      /\ WindowOf(packets, delivered, sent) /\ delivered \in Nat /\ sent \in Nat
    BY Zenon DEF HandOut, FifoInv, ConnInv, ConnTypeOK, OwnCount, Own
<1> DEFINE t == packets'
           n == delivered
           k == sent
<1>2. t \in Seq(Packet) /\ packets = s \o t
    OBVIOUS
<1>3. WindowOf(s \o t, n, k) => WindowOf(t, n + OwnCount(s), k)
  <2>1. n \in Nat /\ k \in Nat
      BY <1>1
  <2> HIDE DEF t, n, k
  <2> QED
      BY <1>2, <2>1, WindowConcat
<1> QED
    BY <1>1, <1>2, <1>3, Zenon

(* The queue holds exactly the packets accepted and not yet handed out, in *)
(* the order of the calls and of the lists, for every mix of methods but   *)
(* the overload that steals the references of a list (it takes the list    *)
(* from its end; a run shows what that does).                              *)
THEOREM FirstInFirstOut ==
    ASSUME "enqueueMultipleAndStealRef" \notin Producers
    PROVE  ConnSpec => []FifoWindow
<1>1. ASSUME ConnInit PROVE FifoInv
  <2>1. packets = <<>> /\ sent = 0 /\ delivered = 0
      BY <1>1 DEF ConnInit
  <2>2. OwnCount(<<>>) = 0 /\ NumberedFrom(<<>>, 0)
    <3>1. Own(<<>>) = {}
        BY DEF Own
    <3> QED
        BY <3>1, FS_EmptySet DEF OwnCount, NumberedFrom
  <2> QED
      BY <1>1, <2>1, <2>2, ConnInitInv DEF FifoInv, WindowOf
<1>2. ASSUME FifoInv, [ConnNext]_connVars PROVE FifoInv'
  <2>0. ConnInv /\ ConnInv'
      BY <1>2, ConnNextInv DEF FifoInv
  <2> DEFINE G == WindowOf(packets', delivered', sent')
  <2> SUFFICES G
      BY <2>0, Zenon DEF FifoInv, WindowOf
  <2>1. ASSUME NEW p \in SentPackets, Enqueue(p) PROVE G
      BY <1>2, <2>1, EnqueueFifo
  <2>2. ASSUME NEW ps \in Batches, EnqueueMultiple(ps) PROVE G
    <3>1. PICK u \in Seq(Packet) : EnqueueList(u) /\ \A i \in DOMAIN u : u[i].seq = sent + i
        BY <2>0, <2>2, ListShape, Zenon
    <3> QED
        BY <1>2, <3>1, ListFifo
  <2>3. ASSUME EnqueueLastDescriptor PROVE G
      BY <1>2, <2>3, LastDescriptorFifo
  <2>4. ASSUME Dequeue PROVE G
    <3>1. Head(packets) \in Packet
        BY <2>0, <2>4, DequeueShape
    <3> DEFINE s == <<Head(packets)>>
    <3>2. s \in Seq(Packet)
        BY <3>1
    <3>3. packets' \in Seq(Packet) /\ packets = s \o packets' /\ HandOut(s)
        BY <2>0, <2>4, DequeueShape, Zenon
    <3> HIDE DEF s
    <3> QED
        BY <1>2, <3>2, <3>3, HandOutFifo, Zenon
  <2>5. ASSUME DequeueAll PROVE G
    <3>1. packets' = <<>> /\ HandOut(packets) /\ packets \in Seq(Packet)
        BY <2>0, <2>5 DEF DequeueAll, ConnInv, ConnTypeOK
    <3>2. packets' \in Seq(Packet)
        BY <3>1
    <3>3. packets = packets \o packets'
        BY <3>1, ConcatEmptySeq
    <3> QED
        BY <1>2, <3>1, <3>2, <3>3, HandOutFifo, Zenon
  <2>6. ASSUME NEW n \in 1 .. MaxQueue, DequeueUpTo(n) PROVE G
    <3>1. PICK s \in Seq(Packet) : packets' \in Seq(Packet) /\ packets = s \o packets' /\ HandOut(s)
        BY <2>0, <2>6, DequeueUpToShape, Zenon
    <3> QED
        BY <1>2, <3>1, HandOutFifo, Zenon
  <2>7. ASSUME DequeueNothing \/ SetActive \/ UNCHANGED connVars PROVE G
    <3>1. UNCHANGED <<packets, delivered, sent>>
        BY <2>7 DEF DequeueNothing, SetActive, connVars, history
    <3> QED
        BY <1>2, <3>1, Zenon DEF FifoInv
  <2> HIDE DEF G
  <2> QED
      BY <1>2, <2>1, <2>2, <2>3, <2>4, <2>5, <2>6, <2>7, Zenon DEF ConnNext
<1>3. ASSUME FifoInv PROVE FifoWindow
  <2>1. packets \in Seq(Packet) /\ WindowOf(packets, delivered, sent)
      BY <1>3 DEF FifoInv, ConnInv, ConnTypeOK
  <2>2. \A i \in Own(packets) : {j \in Own(packets) : j <= i} = Own(SubSeq(packets, 1, i))
    <3> TAKE i \in Own(packets)
    <3> DEFINE r == SubSeq(packets, 1, i)
    <3>1. i \in 1 .. Len(packets) /\ DOMAIN packets = 1 .. Len(packets) /\ Len(packets) \in Nat
        BY <2>1 DEF Own
    <3>2. DOMAIN r = 1 .. i /\ \A j \in 1 .. i : r[j] = packets[j]
        BY <2>1, <3>1
    <3> HIDE DEF r
    <3>3. {j \in Own(packets) : j <= i} = Own(r)
        BY <3>1, <3>2 DEF Own
    <3> QED
        BY <3>3 DEF r
  <2> QED
      BY <2>1, <2>2, Zenon DEF FifoWindow, WindowOf, NumberedFrom, OwnCount, Own
<1> QED
    BY <1>1, <1>2, <1>3, PTL DEF ConnSpec

--------------------------------------------------------------------------------
(***************************************************************************)
(* Gaps are marked where they are.                                         *)
(***************************************************************************)

(* GapsMarked for the pair of places i, j of any queue.                    *)
PairIn(q, i, j) ==
    /\ i < j /\ q[i].kind = "data" /\ q[j].kind = "data"
    /\ \A k \in i + 1 .. j - 1 :
           /\ q[k].kind # "data"
           /\ q[k].kind = "descriptor" => q[k].domain.rule = "unassigned"
DistanceIn(q, i, j) == q[j].offset - (q[i].offset + q[i].count * q[j].domain.delta)
JumpIn(q, i, j) ==
    IF q[j].domain.sampleType = "Float64"
    THEN 10 * Abs(DistanceIn(q, i, j)) > q[j].domain.delta
    ELSE DistanceIn(q, i, j) # 0
MarkedAt(q, i, j) ==
    PairIn(q, i, j) /\ Checkable(q[j].domain) =>
        /\ (q[j - 1].kind = "gap") <=> JumpIn(q, i, j)
        /\ q[j - 1].kind = "gap" => q[j - 1].diff = DistanceIn(q, i, j)
MarkedIn(q) == \A i, j \in DOMAIN q : MarkedAt(q, i, j)

(* The last data packet of a queue, with the domain kept since.            *)
LastData(q, i) ==
    /\ i \in DOMAIN q /\ q[i].kind = "data"
    /\ \A k \in DOMAIN q :
           k > i => /\ q[k].kind # "data"
                    /\ q[k].kind = "descriptor" => q[k].domain.rule = "unassigned"

(* The inductive invariant: the gap check knows the domain announced last, *)
(* the offset it expects is the one after the last queued data packet, and *)
(* a gap packet never stands at the end of the queue.                      *)
DomainFollowed ==
    Checkable(domainDataDescriptor) =>
        /\ gapCheckState \in {"initialized", "running"}
        /\ delta = domainDataDescriptor.delta
        /\ domainSampleType = domainDataDescriptor.sampleType
OffsetFollowed ==
    \A i \in DOMAIN packets :
        LastData(packets, i) /\ Checkable(domainDataDescriptor) =>
            /\ gapCheckState = "running"
            /\ nextExpectedPacketOffset = packets[i].offset + packets[i].count * delta
NoGapAtEnd == \A i \in DOMAIN packets : packets[i].kind = "gap" => i + 1 \in DOMAIN packets
GapInv ==
    /\ ConnInv
    /\ DomainFollowed
    /\ OffsetFollowed
    /\ NoGapAtEnd
    /\ MarkedIn(packets)

(* GapsMarked, said of any queue.                                          *)
LEMMA MarkedInMeans == GapsMarked <=> MarkedIn(packets)
BY Zenon DEF GapsMarked, MarkedIn, MarkedAt, PairIn, Consecutive, DomainKept, DistanceIn, Distance,
             JumpIn, Discontinuous

(* A pair of places moves with its packets.                                *)
LEMMA PairMoves ==
    ASSUME NEW q \in Seq(Packet), NEW r \in Seq(Packet), NEW n \in Nat,
           NEW i \in 1 .. Len(r), NEW j \in 1 .. Len(r),
           \A k \in i .. j : r[k] = q[k + n]
    PROVE  MarkedAt(q, i + n, j + n) <=> MarkedAt(r, i, j)
<1>1. CASE ~(i < j)
  <2>1. ~(i + n < j + n)
      BY <1>1
  <2> QED
      BY <1>1, <2>1, Zenon DEF MarkedAt, PairIn
<1>2. CASE i < j
  <2>1. /\ i \in i .. j /\ j \in i .. j /\ j - 1 \in i .. j
        /\ (j - 1) + n = (j + n) - 1 /\ i + n < j + n
        /\ \A k \in i + 1 .. j - 1 : k \in i .. j /\ k + n \in (i + n) + 1 .. (j + n) - 1
        /\ \A k \in (i + n) + 1 .. (j + n) - 1 : k - n \in i + 1 .. j - 1 /\ (k - n) + n = k
      BY <1>2
  <2>2. r[i] = q[i + n] /\ r[j] = q[j + n] /\ r[j - 1] = q[(j + n) - 1]
      BY <2>1, Zenon
  <2> DEFINE P(x) == /\ x.kind # "data"
                     /\ x.kind = "descriptor" => x.domain.rule = "unassigned"
  <2>3. (\A k \in i + 1 .. j - 1 : P(r[k])) <=> (\A k \in (i + n) + 1 .. (j + n) - 1 : P(q[k]))
    <3> HIDE DEF P
    <3>1. ASSUME \A k \in i + 1 .. j - 1 : P(r[k]), NEW k \in (i + n) + 1 .. (j + n) - 1
          PROVE  P(q[k])
      <4>1. k - n \in i + 1 .. j - 1 /\ (k - n) + n = k /\ k - n \in i .. j
          BY <2>1, <3>1, Zenon
      <4>2. r[k - n] = q[(k - n) + n]
          BY <4>1, Zenon
      <4>3. P(r[k - n])
          BY <4>1, <3>1, Zenon
      <4> QED
          BY <4>1, <4>2, <4>3, Zenon
    <3>2. ASSUME \A k \in (i + n) + 1 .. (j + n) - 1 : P(q[k]), NEW k \in i + 1 .. j - 1
          PROVE  P(r[k])
      <4>1. k \in i .. j /\ k + n \in (i + n) + 1 .. (j + n) - 1
          BY <2>1, Zenon
      <4> QED
          BY <4>1, <3>2, Zenon
    <3> QED
        BY <3>1, <3>2, Zenon
  <2>4. PairIn(q, i + n, j + n) <=> PairIn(r, i, j)
      BY <1>2, <2>1, <2>2, <2>3, Zenon DEF PairIn
  <2> QED
      BY <2>2, <2>4, Zenon DEF MarkedAt, DistanceIn, JumpIn
<1> QED
    BY <1>1, <1>2

(* Taking packets off the front, or putting events there, changes nothing. *)
LEMMA FrontIrrelevant ==
    ASSUME NEW s \in Seq(Packet), NEW t \in Seq(Packet)
    PROVE  /\ MarkedIn(s \o t) => MarkedIn(t)
           /\ (\A i \in DOMAIN s : s[i].kind # "data") /\ MarkedIn(t) => MarkedIn(s \o t)
           /\ \A i \in DOMAIN t : LastData(t, i) <=> LastData(s \o t, i + Len(s))
<1> DEFINE q == s \o t
           n == Len(s)
<1>1. /\ q \in Seq(Packet) /\ DOMAIN q = 1 .. n + Len(t) /\ Len(q) = n + Len(t)
      /\ n \in Nat /\ Len(t) \in Nat
      /\ DOMAIN s = 1 .. n /\ DOMAIN t = 1 .. Len(t)
      /\ \A i \in 1 .. n : q[i] = s[i]
      /\ \A i \in 1 .. Len(t) : q[i + n] = t[i]
    OBVIOUS
<1> HIDE DEF q, n
<1>2. ASSUME NEW i \in 1 .. Len(t), NEW j \in 1 .. Len(t)
      PROVE  MarkedAt(q, i + n, j + n) <=> MarkedAt(t, i, j)
  <2>1. \A k \in i .. j : t[k] = q[k + n]
      BY <1>1
  <2> QED
      BY <1>1, <2>1, PairMoves
<1>3. ASSUME MarkedIn(q) PROVE MarkedIn(t)
  <2> SUFFICES ASSUME NEW i \in 1 .. Len(t), NEW j \in 1 .. Len(t) PROVE MarkedAt(t, i, j)
      BY <1>1, Zenon DEF MarkedIn
  <2>1. i + n \in DOMAIN q /\ j + n \in DOMAIN q
      BY <1>1
  <2> QED
      BY <2>1, <1>2, <1>3, Zenon DEF MarkedIn
<1>4. ASSUME \A i \in DOMAIN s : s[i].kind # "data", MarkedIn(t) PROVE MarkedIn(q)
  <2> SUFFICES ASSUME NEW i \in DOMAIN q, NEW j \in DOMAIN q, PairIn(q, i, j)
               PROVE  MarkedAt(q, i, j)
      BY Zenon DEF MarkedIn, MarkedAt
  <2>1. i < j /\ q[i].kind = "data"
      BY DEF PairIn
  <2>2. i > n /\ j > n
    <3>1. ASSUME i \in 1 .. n PROVE FALSE
        BY <2>1, <3>1, <1>1, <1>4
    <3> QED
        BY <2>1, <3>1, <1>1
  <2>3. PICK a \in 1 .. Len(t) : i = a + n
    <3>1. i - n \in 1 .. Len(t) /\ i = (i - n) + n
        BY <2>2, <1>1
    <3> QED
        BY <3>1, Zenon
  <2>4. PICK b \in 1 .. Len(t) : j = b + n
    <3>1. j - n \in 1 .. Len(t) /\ j = (j - n) + n
        BY <2>2, <1>1
    <3> QED
        BY <3>1, Zenon
  <2>5. MarkedAt(t, a, b)
      BY <1>1, <1>4, Zenon DEF MarkedIn
  <2> QED
      BY <2>3, <2>4, <2>5, <1>2, Zenon
<1>5. ASSUME NEW i \in 1 .. Len(t)
      PROVE  LastData(t, i) <=> LastData(q, i + n)
  <2> DEFINE P(x) == /\ x.kind # "data"
                     /\ x.kind = "descriptor" => x.domain.rule = "unassigned"
  <2>1. i \in DOMAIN t /\ i + n \in DOMAIN q /\ q[i + n] = t[i]
      BY <1>1
  <2>2. (\A k \in DOMAIN t : k > i => P(t[k])) <=> (\A k \in DOMAIN q : k > i + n => P(q[k]))
    <3> HIDE DEF P
    <3>1. ASSUME \A k \in DOMAIN t : k > i => P(t[k]), NEW k \in DOMAIN q, k > i + n
          PROVE  P(q[k])
      <4>1. k - n \in DOMAIN t /\ k - n > i /\ (k - n) + n = k
          BY <1>1, <3>1
      <4>2. q[(k - n) + n] = t[k - n]
          BY <4>1, <1>1, Zenon
      <4> QED
          BY <4>1, <4>2, <3>1, Zenon
    <3>2. ASSUME \A k \in DOMAIN q : k > i + n => P(q[k]), NEW k \in DOMAIN t, k > i
          PROVE  P(t[k])
      <4>1. k + n \in DOMAIN q /\ k + n > i + n /\ q[k + n] = t[k]
          BY <1>1, <3>2
      <4> QED
          BY <4>1, <3>2, Zenon
    <3> QED
        BY <3>1, <3>2, Zenon
  <2> QED
      BY <2>1, <2>2, Zenon DEF LastData
<1> QED
    BY <1>1, <1>3, <1>4, <1>5, Zenon DEF q, n

(* The domain descriptor after one packet.                                 *)
LEMMA LastDomainSingle ==
    ASSUME NEW p \in Packet, NEW d
    PROVE  LastDomain(<<p>>, d) =
               IF p.kind = "descriptor" /\ p.domain.rule # "unassigned" THEN p.domain ELSE d
<1> DEFINE q == <<p>>
           at == {i \in DOMAIN q : q[i].kind = "descriptor" /\ q[i].domain.rule # "unassigned"}
           last == CHOOSE i \in at : \A j \in at : j <= i
<1>1. DOMAIN q = {1} /\ q[1] = p /\ 1 <= 1
    OBVIOUS
<1>2. LastDomain(q, d) = IF at = {} THEN d ELSE q[last].domain
    BY Zenon DEF LastDomain
<1> HIDE DEF q
<1>3. at = IF p.kind = "descriptor" /\ p.domain.rule # "unassigned" THEN {1} ELSE {}
    BY <1>1
<1> HIDE DEF at
<1>4. ASSUME at = {1} PROVE last = 1
  <2>1. \E i \in at : \A j \in at : j <= i
      BY <1>4
  <2>2. last \in at
      BY <2>1, Zenon
  <2> HIDE DEF last
  <2> QED
      BY <1>4, <2>2
<1> HIDE DEF last
<1>5. LastDomain(q, d) =
          IF p.kind = "descriptor" /\ p.domain.rule # "unassigned" THEN p.domain ELSE d
    BY <1>1, <1>2, <1>3, <1>4
<1> QED
    BY <1>5 DEF q

(* What an accepted packet does to the gap check, once the check runs.     *)
LEMMA CheckFollows ==
    ASSUME GapInv, GapChecking, NEW p \in SentPackets, Enqueue(p)
    PROVE  /\ domainDataDescriptor' =
                  IF p.kind = "descriptor" /\ p.domain.rule # "unassigned"
                  THEN p.domain ELSE domainDataDescriptor
           /\ p.kind \in {"data", "descriptor", "other"}
           /\ p.kind = "data" => p.domain = domainDataDescriptor
           /\ p.kind = "data" /\ Checkable(domainDataDescriptor) =>
                  /\ gapCheckState' = "running" /\ UNCHANGED <<delta, domainSampleType>>
                  /\ nextExpectedPacketOffset' = p.offset + p.count * delta
           /\ p.kind # "data" /\ gapCheckState = "running" /\ (p.kind = "descriptor" => p.domain.rule = "unassigned") =>
                  UNCHANGED gapVars
           /\ DomainFollowed'
<1>1. p \in Packet /\ p.kind \in Kinds /\ p.kind # "gap" /\ gapCheckState # "disabled"
      /\ checkForGaps(p) /\ domainDataDescriptor' = LastDomain(<<p>>, domainDataDescriptor)
  <2>1. p \in Packet /\ p.kind # "gap"
      BY EnqueueShape, Zenon DEF GapInv
  <2>2. gapCheckState # "disabled"
      BY DEF GapInv, ConnInv
  <2> QED
      BY <2>1, <2>2 DEF Enqueue, onPacketsEnqueued, Packet
<1>2. domainDataDescriptor' =
          IF p.kind = "descriptor" /\ p.domain.rule # "unassigned"
          THEN p.domain ELSE domainDataDescriptor
    BY <1>1, LastDomainSingle
<1>3. p.kind \in {"data", "descriptor", "other"}
    BY <1>1 DEF Kinds
<1>4. p.kind = "data" => p.domain = domainDataDescriptor
    BY SentPacketsUnder, DataPacketsUnder
<1>5. p.domain.rule \in {"unassigned", "null", "linear", "explicit"}
    BY <1>1 DEF Packet, DomainDescriptor
<1>6. ASSUME p.kind = "data", Checkable(domainDataDescriptor)
      PROVE  /\ gapCheckState' = "running" /\ UNCHANGED <<delta, domainSampleType>>
             /\ nextExpectedPacketOffset' = p.offset + p.count * delta
  <2>1. gapCheckState \in {"initialized", "running"}
      BY <1>6 DEF GapInv, DomainFollowed
  <2> QED
      BY <1>1, <1>6, <2>1 DEF checkForGaps, ExpectAfter
<1>7. ASSUME p.kind # "data", gapCheckState = "running", p.kind = "descriptor" => p.domain.rule = "unassigned"
      PROVE  UNCHANGED gapVars
    BY <1>1, <1>3, <1>7 DEF checkForGaps, initGapCheck, gapVars
<1>8. DomainFollowed'
  <2> SUFFICES ASSUME Checkable(domainDataDescriptor')
               PROVE  /\ gapCheckState' \in {"initialized", "running"}
                      /\ delta' = domainDataDescriptor'.delta
                      /\ domainSampleType' = domainDataDescriptor'.sampleType
      BY Zenon DEF DomainFollowed, Checkable
  <2>1. CASE p.kind = "descriptor" /\ p.domain.rule # "unassigned"
      BY <1>1, <1>2, <1>5, <2>1 DEF checkForGaps, initGapCheck, Checkable
  <2>2. CASE ~(p.kind = "descriptor" /\ p.domain.rule # "unassigned")
    <3>1. domainDataDescriptor' = domainDataDescriptor /\ Checkable(domainDataDescriptor)
        BY <1>2, <2>2
    <3>2. /\ gapCheckState \in {"initialized", "running"} /\ delta = domainDataDescriptor.delta
          /\ domainSampleType = domainDataDescriptor.sampleType
        BY <3>1 DEF GapInv, DomainFollowed
    <3> QED
        BY <1>1, <1>3, <2>2, <3>1, <3>2 DEF checkForGaps, initGapCheck, ExpectAfter, gapVars
  <2> QED
      BY <2>1, <2>2
<1> QED
    BY <1>2, <1>3, <1>4, <1>6, <1>7, <1>8

(* A packet put at the end of a queue, place by place.                     *)
LEMMA OneMore ==
    ASSUME NEW s \in Seq(Packet), NEW m \in Packet
    PROVE  /\ s \o <<m>> \in Seq(Packet) /\ Len(s \o <<m>>) = Len(s) + 1 /\ Len(s) \in Nat
           /\ DOMAIN (s \o <<m>>) = 1 .. Len(s) + 1 /\ DOMAIN s = 1 .. Len(s)
           /\ \A i \in 1 .. Len(s) : (s \o <<m>>)[i] = s[i]
           /\ (s \o <<m>>)[Len(s) + 1] = m
<1>1. <<m>> \in Seq(Packet) /\ Len(<<m>>) = 1 /\ <<m>>[1] = m
    OBVIOUS
<1> DEFINE t == <<m>>
<1>2. t \in Seq(Packet) /\ Len(t) = 1 /\ t[1] = m
    BY <1>1
<1> HIDE DEF t
<1>3. /\ s \o t \in Seq(Packet) /\ Len(s \o t) = Len(s) + 1 /\ Len(s) \in Nat
      /\ DOMAIN (s \o t) = 1 .. Len(s) + 1 /\ DOMAIN s = 1 .. Len(s)
      /\ \A i \in 1 .. Len(s) : (s \o t)[i] = s[i]
      /\ (s \o t)[Len(s) + 1] = m
  <2>1. s \o t \in Seq(Packet) /\ Len(s \o t) = Len(s) + 1 /\ Len(s) \in Nat
    <3>1. s \o t \in Seq(Packet) /\ Len(s \o t) = Len(s) + Len(t)
        BY <1>2, ConcatProperties, Zenon
    <3>2. Len(s) \in Nat
        OBVIOUS
    <3> QED
        BY <1>2, <3>1, <3>2, Zenon
  <2>2. \A i \in 1 .. Len(s) : (s \o t)[i] = s[i]
      BY <1>2
  <2>3. (s \o t)[Len(s) + 1] = m
    <3>1. Len(s) + 1 \in 1 .. Len(s) + Len(t) /\ ~(Len(s) + 1 <= Len(s)) /\ (Len(s) + 1) - Len(s) = 1
        BY <1>2, <2>1
    <3>2. (s \o t)[Len(s) + 1] = t[(Len(s) + 1) - Len(s)]
        BY <1>2, <3>1, ConcatProperties
    <3> QED
        BY <1>2, <3>1, <3>2, Zenon
  <2>4. DOMAIN (s \o t) = 1 .. Len(s) + 1 /\ DOMAIN s = 1 .. Len(s)
      BY <2>1, LenProperties
  <2> QED
      BY <2>1, <2>2, <2>3, <2>4, Zenon
<1> QED
    BY <1>3 DEF t

(* The queue after enqueueInternal, place by place.                        *)
LEMMA EnqueuePlaces ==
    ASSUME ConnInv, NEW p \in SentPackets, Enqueue(p)
    PROVE  \E n \in Nat, m \in Packet :
               /\ packets' \in Seq(Packet) /\ DOMAIN packets' = 1 .. n + 1 /\ Len(packets') = n + 1
               /\ packets \in Seq(Packet) /\ DOMAIN packets = 1 .. Len(packets) /\ Len(packets) \in Nat
               /\ \A i \in 1 .. Len(packets) : packets'[i] = packets[i]
               /\ packets'[n + 1] = m
               /\ ~GapDetected(p) => n = Len(packets)
               /\ GapDetected(p) => /\ n = Len(packets) + 1
                                    /\ packets'[n].kind = "gap" /\ packets'[n].diff = GapDiff(p)
               /\ m.kind = p.kind /\ m.domain = p.domain /\ m.offset = p.offset /\ m.count = p.count
<1> DEFINE g == GapPacket(GapDiff(p))
<1>1. PICK gap \in Seq(Packet), m \in Packet :
          /\ packets' = (packets \o gap) \o <<m>>
          /\ gap = IF GapDetected(p) THEN <<g>> ELSE <<>>
          /\ g \in Packet /\ g.kind = "gap" /\ g.diff = GapDiff(p)
          /\ m.kind = p.kind /\ m.domain = p.domain /\ m.offset = p.offset /\ m.count = p.count
    BY EnqueueShape, Zenon
<1>2. packets \in Seq(Packet)
    BY DEF ConnInv, ConnTypeOK
<1> HIDE DEF g
<1>3. CASE GapDetected(p)
  <2>1. packets' = (packets \o <<g>>) \o <<m>>
      BY <1>1, <1>3, Zenon
  <2> DEFINE n == Len(packets) + 1
  <2>2. /\ packets' \in Seq(Packet) /\ DOMAIN packets' = 1 .. n + 1 /\ n \in Nat /\ Len(packets') = n + 1
        /\ Len(packets) \in Nat /\ DOMAIN packets = 1 .. Len(packets)
        /\ \A i \in 1 .. Len(packets) : packets'[i] = packets[i]
        /\ packets'[n] = g /\ packets'[n + 1] = m
    <3> DEFINE s == packets \o <<g>>
    <3>1. /\ s \in Seq(Packet) /\ Len(s) = n /\ Len(packets) \in Nat
          /\ DOMAIN packets = 1 .. Len(packets)
          /\ \A i \in 1 .. Len(packets) : s[i] = packets[i]
          /\ s[n] = g
        BY <1>1, <1>2, OneMore, Zenon
    <3>2. packets' = s \o <<m>>
        BY <2>1
    <3> HIDE DEF s
    <3>3. /\ packets' \in Seq(Packet) /\ Len(packets') = n + 1 /\ DOMAIN packets' = 1 .. n + 1
          /\ \A i \in 1 .. n : packets'[i] = s[i]
          /\ packets'[n + 1] = m
        BY <3>1, <3>2, OneMore
    <3> QED
        BY <3>1, <3>3
  <2> QED
      BY <1>1, <1>2, <1>3, <2>2, Zenon
<1>4. CASE ~GapDetected(p)
  <2>1. packets' = packets \o <<m>>
      BY <1>1, <1>2, <1>4, ConcatEmptySeq
  <2> DEFINE n == Len(packets)
  <2>2. /\ packets' \in Seq(Packet) /\ DOMAIN packets' = 1 .. n + 1 /\ n \in Nat /\ Len(packets') = n + 1
        /\ DOMAIN packets = 1 .. n
        /\ \A i \in 1 .. n : packets'[i] = packets[i]
        /\ packets'[n + 1] = m
      BY <1>2, <2>1, OneMore
  <2> QED
      BY <1>1, <1>2, <1>4, <2>2, Zenon
<1> QED
    BY <1>3, <1>4

(* enqueueInternal keeps the gaps marked and the check in step.            *)
LEMMA EnqueueGap ==
    ASSUME GapInv, GapChecking, NEW p \in SentPackets, Enqueue(p)
    PROVE  DomainFollowed' /\ OffsetFollowed' /\ NoGapAtEnd' /\ MarkedIn(packets')
<1> DEFINE L == Len(packets)
           q == packets'
<1>1. PICK n \in Nat, m \in Packet :
          /\ q \in Seq(Packet) /\ DOMAIN q = 1 .. n + 1 /\ Len(q) = n + 1
          /\ packets \in Seq(Packet) /\ DOMAIN packets = 1 .. L /\ L \in Nat
          /\ \A i \in 1 .. L : q[i] = packets[i]
          /\ q[n + 1] = m
          /\ ~GapDetected(p) => n = L
          /\ GapDetected(p) => n = L + 1 /\ q[n].kind = "gap" /\ q[n].diff = GapDiff(p)
          /\ m.kind = p.kind /\ m.domain = p.domain /\ m.offset = p.offset /\ m.count = p.count
    BY EnqueuePlaces, Zenon DEF GapInv
<1>2. /\ domainDataDescriptor' =
             IF p.kind = "descriptor" /\ p.domain.rule # "unassigned"
             THEN p.domain ELSE domainDataDescriptor
      /\ p.kind \in {"data", "descriptor", "other"}
      /\ p.kind = "data" => p.domain = domainDataDescriptor
      /\ p.kind = "data" /\ Checkable(domainDataDescriptor) =>
             /\ gapCheckState' = "running" /\ UNCHANGED <<delta, domainSampleType>>
             /\ nextExpectedPacketOffset' = p.offset + p.count * delta
      /\ p.kind # "data" /\ gapCheckState = "running" /\ (p.kind = "descriptor" => p.domain.rule = "unassigned") =>
             UNCHANGED gapVars
      /\ DomainFollowed'
    BY CheckFollows
<1>3. GapDetected(p) => p.kind = "data"
    BY DEF GapDetected
<1> HIDE DEF L, q
<1>4. L <= n /\ n <= L + 1
    BY <1>1
<1>5. \A k \in DOMAIN q : k \in 1 .. L \/ k = n + 1 \/ (k = n /\ GapDetected(p) /\ n = L + 1)
    BY <1>1, <1>4
<1>6. NoGapAtEnd'
  <2> SUFFICES ASSUME NEW i \in DOMAIN q, q[i].kind = "gap" PROVE i + 1 \in DOMAIN q
      BY Zenon DEF NoGapAtEnd, q
  <2>1. i # n + 1
      BY <1>1, <1>2
  <2> QED
      BY <1>1, <2>1
<1>7. OffsetFollowed'
  <2> SUFFICES ASSUME NEW i \in DOMAIN q, LastData(q, i), Checkable(domainDataDescriptor')
               PROVE  /\ gapCheckState' = "running"
                      /\ nextExpectedPacketOffset' = q[i].offset + q[i].count * delta'
      BY Zenon DEF OffsetFollowed, q, LastData, Checkable
  <2>1. CASE p.kind = "data"
    <3>1. i = n + 1
      <4>1. n + 1 \in DOMAIN q /\ q[n + 1].kind = "data"
          BY <1>1, <2>1
      <4>2. ~(n + 1 > i)
          BY <4>1, Zenon DEF LastData
      <4> QED
          BY <4>2, <1>1
    <3>2. Checkable(domainDataDescriptor)
        BY <1>2, <2>1
    <3> QED
        BY <1>1, <1>2, <2>1, <3>1, <3>2
  <2>2. CASE p.kind # "data"
    <3>1. n = L /\ i \in 1 .. L /\ q[i] = packets[i]
      <4>1. i # n + 1
          BY <1>1, <2>2 DEF LastData
      <4> QED
          BY <1>1, <1>3, <2>2, <4>1
    <3>2. n + 1 \in DOMAIN q /\ n + 1 > i
        BY <1>1, <3>1
    <3>3. p.kind = "descriptor" => p.domain.rule = "unassigned"
        BY <3>2, <1>1, Zenon DEF LastData
    <3>4. LastData(packets, i)
      <4>1. \A k \in DOMAIN packets : k \in DOMAIN q /\ q[k] = packets[k]
          BY <1>1, <3>1
      <4> QED
          BY <1>1, <3>1, <4>1, Zenon DEF LastData
    <3>5. domainDataDescriptor' = domainDataDescriptor
        BY <1>2, <3>3
    <3>6. gapCheckState = "running" /\ nextExpectedPacketOffset = packets[i].offset + packets[i].count * delta
        BY <1>1, <3>1, <3>4, <3>5, Zenon DEF GapInv, OffsetFollowed
    <3>7. UNCHANGED gapVars
        BY <1>2, <2>2, <3>3, <3>6
    <3> QED
        BY <3>1, <3>6, <3>7 DEF gapVars
  <2> QED
      BY <2>1, <2>2
<1>8. MarkedIn(q)
  <2> SUFFICES ASSUME NEW i \in DOMAIN q, NEW j \in DOMAIN q, PairIn(q, i, j), Checkable(q[j].domain)
               PROVE  /\ (q[j - 1].kind = "gap") <=> JumpIn(q, i, j)
                      /\ q[j - 1].kind = "gap" => q[j - 1].diff = DistanceIn(q, i, j)
      BY Zenon DEF MarkedIn, MarkedAt
  <2>1. /\ i < j /\ q[i].kind = "data" /\ q[j].kind = "data"
        /\ \A k \in i + 1 .. j - 1 :
               /\ q[k].kind # "data"
               /\ q[k].kind = "descriptor" => q[k].domain.rule = "unassigned"
      BY DEF PairIn
  <2>2. CASE j \in 1 .. L
    <3>1. i \in 1 .. L
        BY <1>1, <2>1, <2>2
    <3>2. \A k \in i .. j : packets[k] = q[k + 0]
        BY <1>1, <2>2, <3>1
    <3>3. MarkedAt(q, i + 0, j + 0) <=> MarkedAt(packets, i, j)
      <4>1. 0 \in Nat /\ i \in 1 .. Len(packets) /\ j \in 1 .. Len(packets)
          BY <2>2, <3>1 DEF L
      <4> QED
          BY <1>1, <3>2, <4>1, PairMoves
    <3>4. MarkedAt(packets, i, j)
        BY <1>1, <2>2, <3>1, Zenon DEF GapInv, MarkedIn
    <3>5. i + 0 = i /\ j + 0 = j
        BY <1>1
    <3> QED
        BY <3>3, <3>4, <3>5, Zenon DEF MarkedAt
  <2>3. CASE j = n + 1
    <3>1. p.kind = "data" /\ q[j] = m
        BY <1>1, <2>1, <2>3
    <3>2. p.domain = domainDataDescriptor /\ Checkable(domainDataDescriptor)
        BY <1>1, <1>2, <3>1
    <3>3. i \in 1 .. L /\ q[i] = packets[i]
      <4>1. i < n + 1
          BY <2>1, <2>3
      <4>2. GapDetected(p) => i # n
          BY <1>1, <2>1
      <4> QED
          BY <1>1, <4>1, <4>2
    <3>4. LastData(packets, i)
      <4>1. ASSUME NEW k \in DOMAIN packets, k > i
            PROVE  k \in i + 1 .. j - 1 /\ q[k] = packets[k]
          BY <4>1, <1>1, <1>4, <2>3, <3>3
      <4> QED
          BY <1>1, <2>1, <3>3, <4>1, Zenon DEF LastData
    <3>5. gapCheckState = "running" /\ nextExpectedPacketOffset = packets[i].offset + packets[i].count * delta
        BY <1>1, <3>2, <3>3, <3>4, Zenon DEF GapInv, OffsetFollowed
    <3>6. delta = domainDataDescriptor.delta /\ domainSampleType = domainDataDescriptor.sampleType
        BY <3>2 DEF GapInv, DomainFollowed
    <3>7. DistanceIn(q, i, j) = GapDiff(p)
      <4>1. /\ q[j].offset = p.offset /\ q[i].offset = packets[i].offset /\ q[i].count = packets[i].count
            /\ q[j].domain.delta = delta
          BY <1>1, <3>1, <3>2, <3>3, <3>6
      <4> QED
          BY <3>5, <4>1, Zenon DEF DistanceIn, GapDiff
    <3>8. JumpIn(q, i, j) <=> GapDetected(p)
      <4>1. q[j].domain.sampleType = domainSampleType /\ q[j].domain.delta = delta
          BY <1>1, <3>1, <3>2, <3>6
      <4> QED
          BY <3>1, <3>5, <3>7, <4>1, Zenon DEF JumpIn, GapDetected
    <3>9. CASE GapDetected(p)
      <4>1. j - 1 = n
          BY <2>3, <1>1
      <4> QED
          BY <1>1, <3>7, <3>8, <3>9, <4>1
    <3>10. CASE ~GapDetected(p)
      <4>1. j - 1 = L /\ L \in 1 .. L /\ q[L] = packets[L]
          BY <1>1, <2>3, <3>3, <3>10
      <4>2. packets[L].kind # "gap"
        <5>1. ~(L + 1 \in DOMAIN packets)
            BY <1>1
        <5> QED
            BY <5>1, <4>1, <1>1, Zenon DEF GapInv, NoGapAtEnd
      <4> QED
          BY <3>8, <3>10, <4>1, <4>2
    <3> QED
        BY <3>9, <3>10
  <2>4. CASE j = n /\ GapDetected(p)
    <3>1. q[n].kind = "gap"
        BY <1>1, <2>4
    <3> QED
        BY <2>1, <2>4, <3>1
  <2> QED
      BY <1>5, <2>2, <2>3, <2>4, Zenon
<1> QED
    BY <1>2, <1>6, <1>7, <1>8 DEF q

(* The first packets handed out: the check looks at the end of the queue.  *)
LEMMA HandOutGap ==
    ASSUME GapInv, NEW s \in Seq(Packet), packets' \in Seq(Packet),
           packets = s \o packets', UNCHANGED <<gapVars, domainDataDescriptor>>
    PROVE  DomainFollowed' /\ OffsetFollowed' /\ NoGapAtEnd' /\ MarkedIn(packets')
<1> DEFINE t == packets'
<1>1. t \in Seq(Packet) /\ packets = s \o t
    OBVIOUS
<1>2. UNCHANGED <<gapCheckState, nextExpectedPacketOffset, delta, domainSampleType, domainDataDescriptor>>
    BY DEF gapVars
<1>3. DomainFollowed'
    BY <1>2, Zenon DEF DomainFollowed, Checkable, GapInv
<1> HIDE DEF t
<1>4. /\ Len(s) \in Nat /\ Len(t) \in Nat /\ DOMAIN t = 1 .. Len(t)
      /\ DOMAIN packets = 1 .. Len(s) + Len(t)
      /\ \A i \in 1 .. Len(t) : packets[i + Len(s)] = t[i]
    BY <1>1
<1>5. /\ MarkedIn(packets) => MarkedIn(t)
      /\ \A i \in DOMAIN t : LastData(t, i) <=> LastData(packets, i + Len(s))
  <2>1. /\ MarkedIn(s \o t) => MarkedIn(t)
        /\ \A i \in DOMAIN t : LastData(t, i) <=> LastData(s \o t, i + Len(s))
      BY <1>1, FrontIrrelevant
  <2> QED
      BY <1>1, <2>1, Zenon
<1>6. OffsetFollowed'
  <2> SUFFICES ASSUME NEW i \in DOMAIN t, LastData(t, i), Checkable(domainDataDescriptor)
               PROVE  /\ gapCheckState = "running"
                      /\ nextExpectedPacketOffset = t[i].offset + t[i].count * delta
      BY <1>2, Zenon DEF OffsetFollowed, t, LastData, Checkable
  <2>1. i + Len(s) \in DOMAIN packets /\ packets[i + Len(s)] = t[i] /\ LastData(packets, i + Len(s))
      BY <1>4, <1>5
  <2> QED
      BY <2>1, Zenon DEF GapInv, OffsetFollowed
<1>7. NoGapAtEnd'
  <2> SUFFICES ASSUME NEW i \in DOMAIN t, t[i].kind = "gap" PROVE i + 1 \in DOMAIN t
      BY Zenon DEF NoGapAtEnd, t
  <2>1. i + Len(s) \in DOMAIN packets /\ packets[i + Len(s)] = t[i]
      BY <1>4
  <2>2. i + Len(s) + 1 \in DOMAIN packets
      BY <2>1, Zenon DEF GapInv, NoGapAtEnd
  <2> QED
      BY <1>4, <2>2
<1> QED
    BY <1>3, <1>5, <1>6, <1>7 DEF GapInv, t

(* The known descriptors in front.                                         *)
LEMMA LastDescriptorGap ==
    ASSUME GapInv, EnqueueLastDescriptor
    PROVE  DomainFollowed' /\ OffsetFollowed' /\ NoGapAtEnd' /\ MarkedIn(packets')
<1> DEFINE e == EventPacket("descriptor", valueDataDescriptor, domainDataDescriptor)
           s == <<e>>
           q == packets'
<1>1. /\ packets \in Seq(Packet) /\ q = s \o packets
      /\ UNCHANGED <<gapCheckState, nextExpectedPacketOffset, delta, domainSampleType, domainDataDescriptor>>
    BY DEF EnqueueLastDescriptor, GapInv, ConnInv, ConnTypeOK, gapVars, descVars
<1>2. e \in Packet /\ e.kind = "descriptor"
    BY DEF EventPacket, Packet, Kinds, GapInv, ConnInv, ConnTypeOK
<1> HIDE DEF e
<1>3. s \in Seq(Packet) /\ Len(s) = 1 /\ DOMAIN s = {1} /\ s[1].kind = "descriptor"
    BY <1>2
<1> HIDE DEF s, q
<1>4. /\ Len(packets) \in Nat /\ DOMAIN packets = 1 .. Len(packets)
      /\ DOMAIN q = 1 .. 1 + Len(packets)
      /\ \A i \in 1 .. Len(packets) : q[i + 1] = packets[i]
      /\ q[1] = s[1]
  <2>1. Len(packets) \in Nat /\ DOMAIN packets = 1 .. Len(packets)
      BY <1>1
  <2>2. /\ q \in Seq(Packet) /\ Len(q) = Len(s) + Len(packets)
        /\ \A i \in 1 .. Len(s) + Len(packets) :
               q[i] = IF i <= Len(s) THEN s[i] ELSE packets[i - Len(s)]
    <3>1. packets \in Seq(Packet) /\ s \in Seq(Packet) /\ q = s \o packets
        BY <1>1, <1>3
    <3> QED
        BY ONLY <3>1, ConcatProperties
  <2>3. DOMAIN q = 1 .. 1 + Len(packets)
      BY <1>3, <2>1, <2>2
  <2>4. \A i \in 1 .. 1 + Len(packets) : q[i] = IF i <= 1 THEN s[i] ELSE packets[i - 1]
      BY <1>3, <2>2
  <2>5. \A i \in 1 .. Len(packets) : q[i + 1] = packets[(i + 1) - 1] /\ (i + 1) - 1 = i
      BY <2>1, <2>4
  <2> QED
      BY <2>1, <2>3, <2>4, <2>5
<1>5. MarkedIn(q) /\ \A i \in DOMAIN packets : LastData(packets, i) <=> LastData(q, i + 1)
  <2>1. \A i \in DOMAIN s : s[i].kind # "data"
      BY <1>3
  <2>2. MarkedIn(packets)
      BY DEF GapInv
  <2> QED
      BY <1>1, <1>3, <2>1, <2>2, FrontIrrelevant
<1>6. DomainFollowed'
    BY <1>1, Zenon DEF DomainFollowed, Checkable, GapInv
<1>7. ASSUME NEW i \in DOMAIN q
      PROVE  i = 1 \/ \E k \in DOMAIN packets : i = k + 1
  <2>1. CASE i > 1
    <3>1. i - 1 \in DOMAIN packets /\ i = (i - 1) + 1
        BY <2>1, <1>4
    <3> QED
        BY <3>1, Zenon
  <2> QED
      BY <2>1, <1>4
<1>8. OffsetFollowed'
  <2> SUFFICES ASSUME NEW i \in DOMAIN q, LastData(q, i), Checkable(domainDataDescriptor)
               PROVE  /\ gapCheckState = "running"
                      /\ nextExpectedPacketOffset = q[i].offset + q[i].count * delta
      BY <1>1, Zenon DEF OffsetFollowed, q, LastData, Checkable
  <2>1. i # 1
      BY <1>3, <1>4 DEF LastData
  <2>2. PICK k \in DOMAIN packets : i = k + 1
      BY <1>7, <2>1
  <2>3. q[i] = packets[k] /\ LastData(packets, k)
      BY <1>4, <1>5, <2>2
  <2> QED
      BY <2>3, Zenon DEF GapInv, OffsetFollowed
<1>9. NoGapAtEnd'
  <2> SUFFICES ASSUME NEW i \in DOMAIN q, q[i].kind = "gap" PROVE i + 1 \in DOMAIN q
      BY Zenon DEF NoGapAtEnd, q
  <2>1. i # 1
      BY <1>3, <1>4
  <2>2. PICK k \in DOMAIN packets : i = k + 1
      BY <1>7, <2>1
  <2>3. q[i] = packets[k]
      BY <1>4, <2>2
  <2>4. k + 1 \in DOMAIN packets
      BY <2>3, Zenon DEF GapInv, NoGapAtEnd
  <2> QED
      BY <1>4, <2>2, <2>4
<1> QED
    BY <1>5, <1>6, <1>8, <1>9 DEF q

(* With gap checking on and packets sent one by one (lists are not         *)
(* checked), the consumer finds a gap packet directly before a data packet *)
(* exactly when it does not continue the one before it in the same linear  *)
(* domain, with the size of the gap, whatever the ways of reading.         *)
THEOREM GapsMarkedExactly ==
    ASSUME GapChecking, Producers \subseteq {"enqueue", "enqueueLastDescriptor"}
    PROVE  ConnSpec => []GapsMarked
<1>1. ASSUME ConnInit PROVE GapInv
  <2>1. packets = <<>> /\ domainDataDescriptor = NoDomain
      BY <1>1 DEF ConnInit
  <2>2. DOMAIN packets = {}
      BY <2>1
  <2>3. ~Checkable(domainDataDescriptor)
      BY <2>1 DEF NoDomain, Checkable
  <2> QED
      BY <1>1, <2>2, <2>3, ConnInitInv, Zenon DEF GapInv, DomainFollowed, OffsetFollowed, NoGapAtEnd, MarkedIn
<1>2. ASSUME GapInv, [ConnNext]_connVars PROVE GapInv'
  <2>0. ConnInv /\ ConnInv'
      BY <1>2, ConnNextInv DEF GapInv
  <2> DEFINE G == DomainFollowed' /\ OffsetFollowed' /\ NoGapAtEnd' /\ MarkedIn(packets')
  <2> SUFFICES G
      BY <2>0, Zenon DEF GapInv, MarkedIn, MarkedAt, PairIn, DistanceIn, JumpIn, Checkable, Abs
  <2>1. ASSUME NEW p \in SentPackets, Enqueue(p) PROVE G
      BY <1>2, <2>1, EnqueueGap
  <2>2. ASSUME EnqueueLastDescriptor PROVE G
      BY <1>2, <2>2, LastDescriptorGap
  <2>3. ASSUME Dequeue PROVE G
    <3>1. Head(packets) \in Packet
        BY <2>0, <2>3, DequeueShape
    <3> DEFINE s == <<Head(packets)>>
    <3>2. s \in Seq(Packet)
        BY <3>1
    <3>3. packets' \in Seq(Packet) /\ packets = s \o packets'
        BY <2>0, <2>3, DequeueShape, Zenon
    <3>4. UNCHANGED <<gapVars, domainDataDescriptor>>
        BY <2>3 DEF Dequeue, descVars
    <3> HIDE DEF s
    <3> QED
        BY <1>2, <3>2, <3>3, <3>4, HandOutGap, Zenon
  <2>4. ASSUME DequeueAll PROVE G
    <3>1. packets' = <<>> /\ packets \in Seq(Packet) /\ UNCHANGED <<gapVars, domainDataDescriptor>>
        BY <2>0, <2>4 DEF DequeueAll, ConnInv, ConnTypeOK, descVars
    <3>2. packets' \in Seq(Packet)
        BY <3>1
    <3>3. packets = packets \o packets'
        BY <3>1, ConcatEmptySeq
    <3> QED
        BY <1>2, <3>1, <3>2, <3>3, HandOutGap, Zenon
  <2>5. ASSUME NEW n \in 1 .. MaxQueue, DequeueUpTo(n) PROVE G
    <3>1. PICK s \in Seq(Packet) : packets' \in Seq(Packet) /\ packets = s \o packets' /\ HandOut(s)
        BY <2>0, <2>5, DequeueUpToShape, Zenon
    <3>2. UNCHANGED <<gapVars, domainDataDescriptor>>
        BY <2>5, Zenon DEF DequeueUpTo, descVars
    <3> QED
        BY <1>2, <3>1, <3>2, HandOutGap, Zenon
  <2>6. ASSUME DequeueNothing \/ SetActive \/ UNCHANGED connVars PROVE G
    <3>1. UNCHANGED <<packets, gapVars, domainDataDescriptor>>
        BY <2>6 DEF DequeueNothing, SetActive, connVars, descVars
    <3> QED
        BY <1>2, <3>1, Zenon DEF GapInv, DomainFollowed, OffsetFollowed, NoGapAtEnd, gapVars, LastData, Checkable
  <2>7. "enqueueMultiple" \notin Producers /\ "enqueueMultipleAndStealRef" \notin Producers
      OBVIOUS
  <2> HIDE DEF G
  <2> QED
      BY <1>2, <2>1, <2>2, <2>3, <2>4, <2>5, <2>6, <2>7, Zenon DEF ConnNext
<1>3. GapInv => GapsMarked
    BY MarkedInMeans DEF GapInv
<1> QED
    BY <1>1, <1>2, <1>3, PTL DEF ConnSpec
=============================================================================
