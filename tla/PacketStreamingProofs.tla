------------------------ MODULE PacketStreamingProofs ------------------------
(***************************************************************************)
(* Proofs about PacketStreaming for any number of signals and packets and  *)
(* for all sizes and thresholds.                                           *)
(***************************************************************************)
EXTENDS PacketStreaming, SequenceTheorems, FiniteSetTheorems, TLAPS

--------------------------------------------------------------------------------
(***************************************************************************)
(* Types.                                                                  *)
(***************************************************************************)
Told == Descriptors \cup {Unchanged}
Events == [kind : {"event"}, value : Told, domain : Told]
Messages == Events \cup {Data(p) : p \in Packets}
WaitEntries == [packet : Packets, signal : Signals, canRelease : BOOLEAN, more : Seq(Signals)]

(* What the fields of a buffer hold depends on its type.                   *)
Shaped(b) ==
    /\ b.type \in {"data", "alreadySent"} => b.packet \in Packets /\ b.signal \in Signals /\ b.ids = {}
    /\ b.type \notin {"data", "alreadySent"} => b.packet = NoPacket
    /\ b.type = "event" => b.signal \in Signals /\ b.ids = {}
AllShaped(q) == \A i \in DOMAIN q : Shaped(q[i])

StreamTypes ==
    /\ pending \in [Signals -> Seq(Messages)]
    /\ kept \subseteq alive /\ alive \subseteq Packets
    /\ out.queue \in Seq(Buffers) /\ wire \in Seq(Buffers)
    /\ AllShaped(out.queue) /\ AllShaped(wire)
    /\ dataDescriptors \subseteq Signals
    /\ sent \subseteq alive /\ readyForRelease \subseteq Packets \ alive
    /\ IsFiniteSet(sent) /\ IsFiniteSet(readyForRelease)
    /\ known \in [Signals -> [value : Told, domain : Told]]
    /\ DOMAIN referencedPackets \subseteq Packets
    /\ waiting \in [Packets -> Seq(WaitEntries)]
    /\ \A d \in Packets : \A i \in DOMAIN waiting[d] : DomainOf[waiting[d][i].packet] = d

--------------------------------------------------------------------------------
(***************************************************************************)
(* The groups of cacheable buffers.                                        *)
(***************************************************************************)
Contiguous(q) == \A i, j \in DOMAIN q : q[i].group = q[j].group /\ q[i].group # 0
                     => \A k \in i .. j : q[k].group = q[i].group
GroupsOK(o) ==
    /\ o = [queue |-> o.queue, groups |-> o.groups, nonCacheable |-> o.nonCacheable,
            current |-> o.current]
    /\ o.queue \in Seq(Buffers) /\ o.current \in Nat
    /\ DOMAIN o.groups = {o.queue[i].group : i \in DOMAIN o.queue} \ {0}
    /\ \A g \in DOMAIN o.groups : /\ o.groups[g].count = Cardinality(InGroup(o.queue, g))
                                  /\ o.groups[g].size = Cardinality(Units(o.queue, g))
    /\ Contiguous(o.queue)
    /\ o.nonCacheable = Cardinality(InGroup(o.queue, 0))
    /\ \A i \in DOMAIN o.queue : o.queue[i].group <= o.current
    /\ o.queue # <<>> /\ o.queue[Len(o.queue)].group # 0
           => o.queue[Len(o.queue)].group = o.current

--------------------------------------------------------------------------------
(***************************************************************************)
(* The link: what is under way, U, and what the client has.  C are the     *)
(* packets it knows, H those of them it may not forget yet.                *)
(***************************************************************************)
Mentions(b, p) == b.packet = p \/ p \in b.ids
Ends(b, p) == (b.packet = p /\ b.canRelease) \/ p \in b.ids
Carries(b, p) == b.type = "data" /\ b.packet = p

KnownPackets == DOMAIN referencedPackets \cup WaitingPackets
HeldPackets ==
    DOMAIN referencedPackets
        \cup {p \in Packets : \E d \in Packets : \E i \in DOMAIN waiting[d] :
                                  waiting[d][i].packet = p /\ ~waiting[d][i].canRelease}

(* A packet crosses the link once and first; it is there when its id is    *)
(* mentioned, and not mentioned any more once it may be forgotten.         *)
Comes(U, n, H, p) == p \in H \/ \E j \in 1 .. n : Carries(U[j], p)
NotEnded(U, n, p) == \A j \in 1 .. n : ~Ends(U[j], p)
NotMentioned(U, n, p) == \A j \in 1 .. n : ~Mentions(U[j], p)
MayFollow(U, n, C, H, b) ==
    \A p \in Packets : Mentions(b, p) =>
        /\ NotEnded(U, n, p)
        /\ Carries(b, p) => p \notin C /\ NotMentioned(U, n, p)
        /\ ~Carries(b, p) => Comes(U, n, H, p)
LinkOK(U, C, H) == \A i \in 1 .. Len(U) : MayFollow(U, i - 1, C, H, U[i])
SentOK(U, H, S) == \A p \in S : Comes(U, Len(U), H, p) /\ NotEnded(U, Len(U), p)
UnsentOK(U, C, F) == \A p \in F : p \notin C /\ NotMentioned(U, Len(U), p)

(* Packets that may still be added.                                        *)
Fresh(pend, creators) ==
    {p \in Packets : p \in creators \/ \E s \in Signals : Data(p) \in ToSet(pend[s])}

LinkInv ==
    /\ LinkOK(Underway, KnownPackets, HeldPackets)
    /\ SentOK(Underway, HeldPackets, sent \cup readyForRelease)
    /\ UnsentOK(Underway, KnownPackets, Fresh(pending, kept) \ sent)
    /\ Fresh(pending, kept) \subseteq alive

(* A signal's data follow its first descriptor.                            *)
Describes(b, s) == b.type = "event" /\ b.signal = s /\ b.event.value # Unchanged
DescribedIn(U, n, k, s) == k[s].value # Unchanged \/ \E j \in 1 .. n : Describes(U[j], s)
DescribedOK(U, k) ==
    \A i \in 1 .. Len(U) : U[i].type \in {"data", "alreadySent"} =>
        DescribedIn(U, i - 1, k, U[i].signal)
DescribedInv ==
    /\ DescribedOK(Underway, known)
    /\ \A s \in dataDescriptors : DescribedIn(Underway, Len(Underway), known, s)
    /\ \A d \in Packets : \A i \in DOMAIN waiting[d] : known[waiting[d][i].signal].value # Unchanged

StreamInv == StreamTypes /\ GroupsOK(out) /\ LinkInv /\ DescribedInv /\ failed = FALSE

--------------------------------------------------------------------------------
(***************************************************************************)
(* Counting.                                                               *)
(***************************************************************************)

(* The first n places are n.                                               *)
LEMMA FirstPlaces ==
    ASSUME NEW n \in Nat
    PROVE  IsFiniteSet(1 .. n) /\ Cardinality(1 .. n) = n
    BY FS_Interval

(* A set of places moved by n has as many members.                         *)
LEMMA ShiftCard ==
    ASSUME NEW n \in Nat, NEW S \in SUBSET Nat, NEW T \in SUBSET Nat, IsFiniteSet(S),
           \A i \in Nat : i \in T <=> i + n \in S, \A i \in S : i >= n
    PROVE  IsFiniteSet(T) /\ Cardinality(T) = Cardinality(S)
<1> DEFINE f == [i \in S |-> i - n]
<1>1. f \in [S -> T]
    OBVIOUS
<1>2. \A i, j \in S : f[i] = f[j] => i = j
    OBVIOUS
<1>3. \A j \in T : \E i \in S : f[i] = j
  <2> SUFFICES ASSUME NEW j \in T
               PROVE  \E i \in S : f[i] = j
      OBVIOUS
  <2>1. j + n \in S /\ (j + n) - n = j
      OBVIOUS
  <2> QED
      BY <2>1
<1>4. f \in Bijection(S, T)
    BY <1>1, <1>2, <1>3, Zenon DEF Bijection, Injection, Surjection, IsInjective
<1> QED
    BY <1>4, FS_Bijection DEF ExistsBijection

(* The same for pairs whose first part is a place.                         *)
LEMMA ShiftPairs ==
    ASSUME NEW n \in Nat, NEW S \in SUBSET (Nat \X Nat), NEW T \in SUBSET (Nat \X Nat), IsFiniteSet(S),
           \A i \in Nat, k \in Nat : <<i, k>> \in T <=> <<i + n, k>> \in S,
           \A x \in S : x[1] >= n
    PROVE  IsFiniteSet(T) /\ Cardinality(T) = Cardinality(S)
<1> DEFINE f == [x \in S |-> <<x[1] - n, x[2]>>]
<1>1. ASSUME NEW x \in S
      PROVE  x[1] \in Nat /\ x[2] \in Nat /\ x = <<x[1], x[2]>> /\ x[1] >= n /\ f[x] \in T
  <2>1. x[1] \in Nat /\ x[2] \in Nat /\ x = <<x[1], x[2]>> /\ x[1] >= n
      OBVIOUS
  <2>2. x[1] - n \in Nat /\ (x[1] - n) + n = x[1]
      BY <2>1
  <2>3. <<(x[1] - n) + n, x[2]>> \in S
      BY <2>1, <2>2
  <2>4. <<x[1] - n, x[2]>> \in T
      BY <2>1, <2>2, <2>3
  <2> QED
      BY <2>1, <2>4
<1>2. f \in [S -> T]
    BY <1>1
<1>3. ASSUME NEW x \in S, NEW y \in S, f[x] = f[y]
      PROVE  x = y
  <2>1. x[1] - n = y[1] - n /\ x[2] = y[2]
      BY <1>3
  <2>2. x[1] = y[1]
      BY <1>1, <2>1
  <2> QED
      BY <1>1, <2>1, <2>2
<1>4. ASSUME NEW y \in T
      PROVE  \E x \in S : f[x] = y
  <2>1. PICK i \in Nat, k \in Nat : y = <<i, k>>
      OBVIOUS
  <2>2. <<i + n, k>> \in S /\ (i + n) - n = i
      BY <2>1
  <2>3. f[<<i + n, k>>] = y
      BY <2>1, <2>2
  <2> QED
      BY <2>2, <2>3
<1>5. f \in Bijection(S, T)
    BY <1>2, <1>3, <1>4, Zenon DEF Bijection, Injection, Surjection, IsInjective
<1> QED
    BY <1>5, FS_Bijection DEF ExistsBijection

(* The two parts of a sequence.                                            *)
LEMMA CutSeq ==
    ASSUME NEW X, NEW s \in Seq(X), NEW m \in 0 .. Len(s)
    PROVE  /\ SubSeq(s, 1, m) \in Seq(X) /\ Len(SubSeq(s, 1, m)) = m
           /\ \A i \in 1 .. m : SubSeq(s, 1, m)[i] = s[i]
           /\ SubSeq(s, m + 1, Len(s)) \in Seq(X)
           /\ Len(SubSeq(s, m + 1, Len(s))) = Len(s) - m
           /\ \A i \in 1 .. Len(s) - m : SubSeq(s, m + 1, Len(s))[i] = s[m + i]
<1>1. Len(s) \in Nat /\ \A i \in 1 .. Len(s) : s[i] \in X
    BY LenProperties, ElementOfSeq
<1>2. /\ SubSeq(s, 1, m) \in Seq(X) /\ Len(SubSeq(s, 1, m)) = m
      /\ \A i \in 1 .. m : SubSeq(s, 1, m)[i] = s[i]
    BY <1>1, SubSeqProperties
<1> DEFINE a == m + 1
           n == Len(s)
<1>3. a \in Int /\ n \in Int /\ \A i \in a .. n : s[i] \in X
    BY <1>1
<1>4. n - a + 1 = n - m /\ (a <= n => n - a + 1 = n - m) /\ (~(a <= n) => n - m = 0)
    BY <1>1
<1>5. \A i \in 1 .. n - m : a + i - 1 = m + i
    BY <1>1
<1> HIDE DEF a, n
<1>6. /\ SubSeq(s, a, n) \in Seq(X)
      /\ Len(SubSeq(s, a, n)) = IF a <= n THEN n - a + 1 ELSE 0
      /\ \A i \in 1 .. n - a + 1 : SubSeq(s, a, n)[i] = s[a + i - 1]
    BY <1>3, SubSeqProperties
<1>7. Len(SubSeq(s, a, n)) = n - m
    BY <1>4, <1>6
<1>8. \A i \in 1 .. n - m : SubSeq(s, a, n)[i] = s[m + i]
    BY <1>4, <1>5, <1>6
<1> QED
    BY <1>2, <1>6, <1>7, <1>8 DEF a, n

(* The places of a group and the units of its buffers.                     *)
LEMMA GroupSets ==
    ASSUME NEW q \in Seq(Buffers), NEW g
    PROVE  /\ InGroup(q, g) \subseteq 1 .. Len(q) /\ IsFiniteSet(InGroup(q, g))
           /\ \A i, k : <<i, k>> \in Units(q, g) <=> i \in InGroup(q, g) /\ k \in 1 .. Size(q[i])
           /\ Units(q, g) \subseteq Nat \X Nat
           /\ \A i \in 1 .. Len(q) : Size(q[i]) \in Nat /\ Size(q[i]) >= 1 /\ q[i].group \in Nat
<1>1. Len(q) \in Nat /\ DOMAIN q = 1 .. Len(q) /\ \A i \in 1 .. Len(q) : q[i] \in Buffers
    BY LenProperties, ElementOfSeq
<1>2. InGroup(q, g) \subseteq 1 .. Len(q)
    BY <1>1 DEF InGroup
<1>3. IsFiniteSet(InGroup(q, g))
  <2>1. IsFiniteSet(1 .. Len(q))
      BY <1>1, FS_Interval
  <2> QED
      BY <1>2, <2>1, FS_Subset, Zenon
<1>4. ASSUME NEW i \in 1 .. Len(q)
      PROVE  Size(q[i]) \in Nat /\ Size(q[i]) >= 1 /\ q[i].group \in Nat
  <2>1. q[i].payload \in Nat /\ q[i].group \in Nat
      BY <1>1 DEF Buffers
  <2> QED
      BY <2>1 DEF Size
<1>5. \A i, k : <<i, k>> \in Units(q, g) <=> i \in InGroup(q, g) /\ k \in 1 .. Size(q[i])
    BY DEF Units
<1>6. Units(q, g) \subseteq Nat \X Nat
    BY <1>1, <1>2, <1>4 DEF Units
<1> QED
    BY <1>2, <1>3, <1>4, <1>5, <1>6

(* There are finitely many units.                                          *)
LEMMA UnitsFinite ==
    ASSUME NEW q \in Seq(Buffers), NEW g
    PROVE  IsFiniteSet(Units(q, g))
<1> DEFINE S == InGroup(q, g)
           part(i) == {i} \X (1 .. Size(q[i]))
           T == {part(i) : i \in S}
           f == [i \in S |-> part(i)]
<1>1. S \subseteq 1 .. Len(q) /\ IsFiniteSet(S) /\ \A i \in 1 .. Len(q) : Size(q[i]) \in Nat
    BY GroupSets
<1>2. f \in Surjection(S, T)
    BY Zenon DEF Surjection
<1>3. IsFiniteSet(T)
    BY <1>1, <1>2, FS_Surjection, Zenon
<1>4. ASSUME NEW i \in S
      PROVE  IsFiniteSet(part(i))
  <2>1. Size(q[i]) \in Nat
      BY <1>1
  <2>2. IsFiniteSet(1 .. Size(q[i]))
      BY <2>1, FS_Interval
  <2>3. IsFiniteSet({i})
      BY FS_Singleton
  <2> QED
      BY <2>2, <2>3, FS_Product, Zenon
<1>5. \A t \in T : IsFiniteSet(t)
    BY <1>4, Zenon
<1>6. IsFiniteSet(UNION T)
    BY <1>3, <1>5, FS_UNION, Zenon
<1>7. Units(q, g) = UNION T
    BY DEF Units
<1> QED
    BY <1>6, <1>7, Zenon

(* A buffer appended to the queue is one more member of its group, and its *)
(* size counts there.                                                      *)
LEMMA GroupAppend ==
    ASSUME NEW q \in Seq(Buffers), NEW b \in Buffers, NEW g
    PROVE  LET r == Append(q, b)
           IN /\ Cardinality(InGroup(r, g)) =
                     Cardinality(InGroup(q, g)) + IF b.group = g THEN 1 ELSE 0
              /\ Cardinality(Units(r, g)) =
                     Cardinality(Units(q, g)) + IF b.group = g THEN Size(b) ELSE 0
<1> DEFINE r == Append(q, b)
           n == Len(q) + 1
<1>1. /\ Len(q) \in Nat /\ DOMAIN q = 1 .. Len(q)
      /\ r \in Seq(Buffers) /\ Len(r) = n /\ DOMAIN r = 1 .. n /\ r[n] = b
      /\ \A i \in 1 .. Len(q) : r[i] = q[i]
    BY LenProperties, AppendProperties
<1>2. /\ InGroup(q, g) \subseteq 1 .. Len(q) /\ IsFiniteSet(InGroup(q, g))
      /\ \A i, k : <<i, k>> \in Units(q, g) <=> i \in InGroup(q, g) /\ k \in 1 .. Size(q[i])
      /\ Units(q, g) \subseteq Nat \X Nat
    BY GroupSets
<1>3. /\ \A i, k : <<i, k>> \in Units(r, g) <=> i \in InGroup(r, g) /\ k \in 1 .. Size(r[i])
      /\ Units(r, g) \subseteq Nat \X Nat
      /\ Size(r[n]) \in Nat /\ Size(r[n]) >= 1
  <2> HIDE DEF r
  <2>1. n \in 1 .. Len(r)
      BY <1>1
  <2> QED
      BY <1>1, <2>1, GroupSets
<1>4. IsFiniteSet(Units(q, g)) /\ Cardinality(Units(q, g)) \in Nat /\ Cardinality(InGroup(q, g)) \in Nat
    BY <1>2, UnitsFinite, FS_CardinalityType
<1> HIDE DEF r, n
<1>n. n = Len(q) + 1
    BY DEF n
<1>5. CASE b.group # g
  <2>1. InGroup(r, g) = InGroup(q, g)
      BY <1>1, <1>5, <1>n DEF InGroup
  <2>2. \A i \in InGroup(q, g) : r[i] = q[i]
      BY <1>1, <1>2
  <2>3. \A x \in Nat \X Nat : x \in Units(r, g) <=> x \in Units(q, g)
      BY <1>2, <1>3, <2>1, <2>2
  <2>4. Units(r, g) = Units(q, g)
      BY <1>2, <1>3, <2>3
  <2> QED
      BY <1>4, <1>5, <2>1, <2>4 DEF r
<1>6. CASE b.group = g
  <2>1. InGroup(r, g) = InGroup(q, g) \cup {n} /\ n \notin InGroup(q, g) /\ n \in Nat
      BY <1>1, <1>2, <1>6, <1>n DEF InGroup
  <2>2. Cardinality(InGroup(r, g)) = Cardinality(InGroup(q, g)) + 1
    <3>1. IsFiniteSet(InGroup(q, g))
        BY <1>2
    <3> QED
        BY ONLY <2>1, <3>1, FS_AddElement
  <2>3. \A i \in InGroup(q, g) : r[i] = q[i]
      BY <1>1, <1>2
  <2> DEFINE new == {n} \X (1 .. Size(b))
  <2>4. Size(b) \in Nat
      BY <1>1, <1>3
  <2>5. IsFiniteSet(1 .. Size(b)) /\ Cardinality(1 .. Size(b)) = Size(b)
      BY <2>4, FS_Interval
  <2>6. IsFiniteSet({n}) /\ Cardinality({n}) = 1
      BY FS_Singleton
  <2>7. IsFiniteSet(new) /\ Cardinality(new) = 1 * Size(b)
    <3>1. /\ IsFiniteSet({n} \X (1 .. Size(b)))
          /\ Cardinality({n} \X (1 .. Size(b))) = Cardinality({n}) * Cardinality(1 .. Size(b))
        BY ONLY <2>5, <2>6, FS_Product, Zenon
    <3> QED
        BY <2>5, <2>6, <3>1, Zenon
  <2>8. ASSUME NEW x \in Nat \X Nat
        PROVE  x \in Units(r, g) <=> x \in Units(q, g) \cup new
    <3>1. PICK i \in Nat, k \in Nat : x = <<i, k>>
        OBVIOUS
    <3>2. <<i, k>> \in new <=> i = n /\ k \in 1 .. Size(b)
        OBVIOUS
    <3>3. i \in InGroup(r, g) <=> i \in InGroup(q, g) \/ i = n
        BY <2>1
    <3>4. <<i, k>> \in Units(r, g) <=> i \in InGroup(r, g) /\ k \in 1 .. Size(r[i])
        BY <1>3
    <3>5. <<i, k>> \in Units(q, g) <=> i \in InGroup(q, g) /\ k \in 1 .. Size(q[i])
        BY <1>2
    <3>6. i \in InGroup(q, g) => r[i] = q[i]
        BY <2>3
    <3> HIDE DEF new
    <3>7. <<i, k>> \in Units(r, g) <=> <<i, k>> \in Units(q, g) \/ <<i, k>> \in new
        BY <1>1, <3>2, <3>3, <3>4, <3>5, <3>6, <2>1
    <3> QED
        BY <3>1, <3>7
  <2>9. new \subseteq Nat \X Nat
      BY <2>1
  <2> HIDE DEF new
  <2>10. Units(r, g) = Units(q, g) \cup new
      BY <1>2, <1>3, <2>8, <2>9
  <2>11. Units(q, g) \cap new = {}
    <3>1. ASSUME NEW x \in Units(q, g)
          PROVE  x \notin new
      <4>1. PICK i \in Nat, k \in Nat : x = <<i, k>>
          BY <1>2
      <4>2. i \in InGroup(q, g)
          BY <1>2, <4>1
      <4>3. i # n
          BY <2>1, <4>2
      <4> QED
          BY <4>1, <4>3 DEF new
    <3> QED
        BY <3>1
  <2>12. Cardinality(Units(r, g)) = Cardinality(Units(q, g)) + Cardinality(new) - Cardinality({})
      BY <1>4, <2>7, <2>10, <2>11, FS_Union
  <2>13. Cardinality(Units(r, g)) = Cardinality(Units(q, g)) + Size(b)
      BY <1>4, <2>4, <2>7, <2>12, FS_EmptySet
  <2> QED
      BY <1>6, <2>2, <2>13 DEF r
<1> QED
    BY <1>5, <1>6

(* Without its first n buffers the queue has the same groups, moved by n,  *)
(* except the ones those buffers belong to.                                *)
LEMMA GroupCut ==
    ASSUME NEW q \in Seq(Buffers), NEW n \in 0 .. Len(q), NEW g,
           \A i \in 1 .. n : q[i].group # g
    PROVE  LET r == SubSeq(q, n + 1, Len(q))
           IN /\ Cardinality(InGroup(r, g)) = Cardinality(InGroup(q, g))
              /\ Cardinality(Units(r, g)) = Cardinality(Units(q, g))
<1> DEFINE r == SubSeq(q, n + 1, Len(q))
<1>1. Len(q) \in Nat /\ DOMAIN q = 1 .. Len(q) /\ n \in Nat /\ n + 1 \in Int
    BY LenProperties
<1>3. r \in Seq(Buffers) /\ Len(r) = Len(q) - n /\ \A i \in 1 .. Len(q) - n : r[i] = q[n + i]
    BY <1>1, CutSeq
<1> HIDE DEF r
<1>4. DOMAIN r = 1 .. Len(q) - n
    BY <1>3, LenProperties
<1>5. /\ InGroup(q, g) \subseteq 1 .. Len(q) /\ IsFiniteSet(InGroup(q, g))
      /\ \A i, k : <<i, k>> \in Units(q, g) <=> i \in InGroup(q, g) /\ k \in 1 .. Size(q[i])
      /\ Units(q, g) \subseteq Nat \X Nat
    BY GroupSets
<1>6. /\ \A i, k : <<i, k>> \in Units(r, g) <=> i \in InGroup(r, g) /\ k \in 1 .. Size(r[i])
      /\ Units(r, g) \subseteq Nat \X Nat
      /\ InGroup(r, g) \subseteq 1 .. Len(r)
    BY <1>3, GroupSets
<1>7. \A i \in Nat : i \in InGroup(r, g) <=> i + n \in InGroup(q, g)
  <2> SUFFICES ASSUME NEW i \in Nat
               PROVE  i \in InGroup(r, g) <=> i + n \in InGroup(q, g)
      OBVIOUS
  <2>1. i \in InGroup(r, g) <=> i \in 1 .. Len(q) - n /\ q[i + n].group = g
      BY <1>3, <1>4, <1>1 DEF InGroup
  <2>2. i + n \in InGroup(q, g) <=> i + n \in 1 .. Len(q) /\ q[i + n].group = g
      BY <1>1 DEF InGroup
  <2>3. i = 0 /\ i + n \in 1 .. Len(q) => i + n \in 1 .. n
      BY <1>1
  <2> QED
      BY <1>1, <2>1, <2>2, <2>3
<1>8. \A i \in InGroup(q, g) : i >= n
    BY <1>1, <1>5 DEF InGroup
<1>9. Cardinality(InGroup(r, g)) = Cardinality(InGroup(q, g))
  <2>1. InGroup(q, g) \subseteq Nat /\ InGroup(r, g) \subseteq Nat
      BY <1>1, <1>3, <1>5, <1>6
  <2> QED
      BY <1>1, <1>5, <1>7, <1>8, <2>1, ShiftCard
<1>10. \A i \in Nat, k \in Nat : <<i, k>> \in Units(r, g) <=> <<i + n, k>> \in Units(q, g)
  <2> SUFFICES ASSUME NEW i \in Nat, NEW k \in Nat
               PROVE  <<i, k>> \in Units(r, g) <=> <<i + n, k>> \in Units(q, g)
      OBVIOUS
  <2>1. i \in InGroup(r, g) => r[i] = q[i + n]
      BY <1>1, <1>3, <1>6
  <2> QED
      BY <1>5, <1>6, <1>7, <2>1
<1>11. \A x \in Units(q, g) : x[1] >= n
  <2> SUFFICES ASSUME NEW x \in Units(q, g)
               PROVE  x[1] >= n
      OBVIOUS
  <2>1. PICK i \in Nat, k \in Nat : x = <<i, k>>
      BY <1>5
  <2> QED
      BY <1>5, <1>8, <2>1
<1>12. Cardinality(Units(r, g)) = Cardinality(Units(q, g))
  <2> DEFINE A == Units(q, g)
             B == Units(r, g)
  <2>1. IsFiniteSet(A)
      BY UnitsFinite
  <2>2. A \in SUBSET (Nat \X Nat) /\ B \in SUBSET (Nat \X Nat) /\ n \in Nat
      BY <1>1, <1>5, <1>6
  <2>3. \A i \in Nat, k \in Nat : <<i, k>> \in B <=> <<i + n, k>> \in A
      BY <1>10
  <2>4. \A x \in A : x[1] >= n
      BY <1>11
  <2> HIDE DEF A, B
  <2>5. Cardinality(B) = Cardinality(A)
      BY <2>1, <2>2, <2>3, <2>4, ShiftPairs
  <2> QED
      BY <2>5 DEF A, B
<1> QED
    BY <1>9, <1>12 DEF r

--------------------------------------------------------------------------------
(***************************************************************************)
(* Buffers that are queued and taken.                                      *)
(***************************************************************************)
SameButGroup(c, b) ==
    /\ c \in Buffers /\ c.type = b.type /\ c.signal = b.signal /\ c.payload = b.payload
    /\ c.packet = b.packet /\ c.canRelease = b.canRelease /\ c.event = b.event /\ c.ids = b.ids

(* The group a cacheable buffer gets is the one of the last buffer, or a   *)
(* new one.                                                                *)
LEMMA CurrentGroupIs ==
    ASSUME NEW o, GroupsOK(o)
    PROVE  LET g == CurrentGroup(o)
               q == o.queue
           IN /\ g \in Nat \ {0}
              /\ \A i \in 1 .. Len(q) : q[i].group <= g
              /\ g \in DOMAIN o.groups => q # <<>> /\ q[Len(q)].group = g
<1> DEFINE g == CurrentGroup(o)
           q == o.queue
<1>1. q \in Seq(Buffers) /\ o.current \in Nat /\ Len(q) \in Nat /\ DOMAIN q = 1 .. Len(q)
    BY LenProperties DEF GroupsOK
<1>2. DOMAIN o.groups = {q[i].group : i \in 1 .. Len(q)} \ {0}
    BY <1>1 DEF GroupsOK
<1>3. \A i \in 1 .. Len(q) : q[i].group <= o.current /\ q[i].group \in Nat
    BY <1>1, GroupSets DEF GroupsOK
<1>4. q # <<>> => Len(q) \in 1 .. Len(q)
    BY <1>1, EmptySeq
<1>5. CASE q = <<>>
  <2>1. Len(q) = 0 /\ g = 1
      BY <1>5 DEF CurrentGroup
  <2> HIDE DEF g, q
  <2>2. DOMAIN o.groups = {}
      BY <1>2, <2>1
  <2>3. g \in Nat \ {0} /\ (\A i \in 1 .. Len(q) : q[i].group <= g) /\ g \notin DOMAIN o.groups
      BY <2>1, <2>2
  <2> QED
      BY <2>3 DEF g, q
<1>6. CASE q # <<>> /\ q[Len(q)].group # 0
  <2>1. g = o.current
      BY <1>6 DEF CurrentGroup, IsCacheable, Last
  <2>2. q[Len(q)].group = o.current
      BY <1>6 DEF GroupsOK
  <2> HIDE DEF g
  <2> QED
      BY <1>1, <1>3, <1>4, <1>6, <2>1, <2>2 DEF g
<1>7. CASE q # <<>> /\ q[Len(q)].group = 0
  <2>1. g = o.current + 1
      BY <1>7 DEF CurrentGroup, IsCacheable, Last
  <2> HIDE DEF g
  <2>2. \A i \in 1 .. Len(q) : q[i].group # g /\ q[i].group <= g
      BY <1>1, <1>3, <2>1
  <2>3. g \notin DOMAIN o.groups
      BY <1>2, <2>2
  <2> QED
      BY <1>1, <2>1, <2>2, <2>3 DEF g
<1> QED
    BY <1>5, <1>6, <1>7

(* Contiguity with one buffer more.                                        *)
LEMMA ContiguousAppend ==
    ASSUME NEW q \in Seq(Buffers), Contiguous(q), NEW c \in Buffers,
           (\E i \in 1 .. Len(q) : q[i].group = c.group) /\ c.group # 0
               => q[Len(q)].group = c.group
    PROVE  Contiguous(Append(q, c))
<1> DEFINE r == Append(q, c)
           n == Len(q) + 1
<1>1. /\ Len(q) \in Nat /\ DOMAIN q = 1 .. Len(q)
      /\ r \in Seq(Buffers) /\ Len(r) = n /\ r[n] = c
      /\ \A i \in 1 .. Len(q) : r[i] = q[i]
    BY LenProperties, AppendProperties
<1> HIDE DEF r
<1>2. DOMAIN r = 1 .. n
    BY <1>1, LenProperties
<1> SUFFICES ASSUME NEW i \in 1 .. n, NEW j \in 1 .. n, r[i].group = r[j].group, r[i].group # 0,
                    NEW k \in i .. j
             PROVE  r[k].group = r[i].group
    BY <1>2 DEF Contiguous, r
<1>3. CASE j \in 1 .. Len(q) /\ i \in 1 .. Len(q)
  <2>1. k \in 1 .. Len(q)
      BY <1>1, <1>3
  <2> QED
      BY <1>1, <1>3, <2>1 DEF Contiguous
<1>4. CASE j = n /\ i \in 1 .. Len(q)
  <2>1. q[Len(q)].group = q[i].group /\ Len(q) \in 1 .. Len(q)
      BY <1>1, <1>4
  <2>2. k \in 1 .. Len(q) => q[k].group = q[i].group
      BY <1>1, <1>4, <2>1 DEF Contiguous
  <2>3. k \in 1 .. Len(q) \/ k = n
      BY <1>1
  <2> QED
      BY <1>1, <1>4, <2>2, <2>3
<1>5. CASE i = n
    BY <1>1, <1>5
<1> QED
    BY <1>1, <1>3, <1>4, <1>5

(* queuePacketBuffer keeps the groups exact, and appends the buffer with   *)
(* the number of its group.                                                *)
LEMMA QueueGroups ==
    ASSUME NEW o, GroupsOK(o), NEW b \in Buffers, b.group = 0
    PROVE  LET r == QueuePacketBuffer(o, b)
           IN /\ GroupsOK(r)
              /\ \E c \in Buffers : r.queue = Append(o.queue, c) /\ SameButGroup(c, b)
<1> DEFINE q == o.queue
           n == Len(o.queue) + 1
<1>1. /\ o = [queue |-> o.queue, groups |-> o.groups, nonCacheable |-> o.nonCacheable,
              current |-> o.current]
      /\ o.queue \in Seq(Buffers) /\ o.current \in Nat
    BY DEF GroupsOK
<1>2. /\ DOMAIN o.groups = {q[i].group : i \in DOMAIN q} \ {0}
      /\ \A g \in DOMAIN o.groups : /\ o.groups[g].count = Cardinality(InGroup(q, g))
                                    /\ o.groups[g].size = Cardinality(Units(q, g))
      /\ Contiguous(q)
      /\ o.nonCacheable = Cardinality(InGroup(q, 0))
      /\ \A i \in DOMAIN q : q[i].group <= o.current
    BY DEF GroupsOK
<1> HIDE DEF q
<1>q. q = o.queue /\ q \in Seq(Buffers) /\ Len(q) \in Nat /\ DOMAIN q = 1 .. Len(q) /\ n = Len(q) + 1
    BY <1>1, LenProperties DEF q
<1>p. b.payload \in Nat /\ Size(b) \in Nat
  <2>1. b.payload \in Nat
      BY DEF Buffers
  <2> QED
      BY <2>1 DEF Size
<1> HIDE DEF n
<1>3. ASSUME NEW c \in Buffers
      PROVE  /\ Append(q, c) \in Seq(Buffers) /\ Len(Append(q, c)) = n
             /\ DOMAIN Append(q, c) = 1 .. n /\ Append(q, c)[n] = c /\ Append(q, c) # <<>>
             /\ \A i \in 1 .. Len(q) : Append(q, c)[i] = q[i]
             /\ {Append(q, c)[i].group : i \in 1 .. n} = {q[i].group : i \in 1 .. Len(q)} \cup {c.group}
  <2> DEFINE r == Append(q, c)
  <2>1. r \in Seq(Buffers) /\ Len(r) = n /\ r[n] = c /\ r # <<>> /\ \A i \in 1 .. Len(q) : r[i] = q[i]
      BY <1>q, AppendProperties
  <2> HIDE DEF r
  <2>2. DOMAIN r = 1 .. n
      BY <2>1, LenProperties
  <2>3. {r[i].group : i \in 1 .. n} = {q[i].group : i \in 1 .. Len(q)} \cup {c.group}
    <3>1. \A i \in 1 .. n : i \in 1 .. Len(q) \/ i = n
        BY <1>q
    <3>2. \A i \in 1 .. Len(q) : i \in 1 .. n
        BY <1>q
    <3>3. n \in 1 .. n
        BY <1>q
    <3> QED
        BY <2>1, <3>1, <3>2, <3>3
  <2> QED
      BY <2>1, <2>2, <2>3 DEF r
<1>4. CASE b.payload <= CacheablePayloadMax
  <2> DEFINE g == CurrentGroup(o)
             c == [b EXCEPT !.group = g]
             G == Enlarge(o.groups, g, Size(b))
             r == [queue |-> Append(q, c), groups |-> G, nonCacheable |-> o.nonCacheable, current |-> g]
  <2>1. /\ g \in Nat \ {0}
        /\ \A i \in 1 .. Len(q) : q[i].group <= g
        /\ g \in DOMAIN o.groups => q # <<>> /\ q[Len(q)].group = g
      BY <1>q, CurrentGroupIs
  <2>2. QueuePacketBuffer(o, b) = r
      BY <1>1, <1>4, <1>q DEF QueuePacketBuffer
  <2> HIDE DEF g
  <2>3. c \in Buffers /\ c.group = g /\ SameButGroup(c, b)
      BY <2>1 DEF Buffers, SameButGroup
  <2>4. Size(c) = Size(b)
      BY <2>3 DEF Size, SameButGroup
  <2> HIDE DEF c
  <2>5. /\ DOMAIN G = DOMAIN o.groups \cup {g}
        /\ \A h \in DOMAIN o.groups : h # g => G[h] = o.groups[h]
        /\ g \in DOMAIN o.groups => G[g].count = o.groups[g].count + 1 /\ G[g].size = o.groups[g].size + Size(b)
        /\ g \notin DOMAIN o.groups => G[g].count = 1 /\ G[g].size = Size(b)
      BY DEF Enlarge
  <2> HIDE DEF G
  <2>6. ASSUME NEW h
        PROVE  /\ Cardinality(InGroup(Append(q, c), h)) =
                      Cardinality(InGroup(q, h)) + IF g = h THEN 1 ELSE 0
               /\ Cardinality(Units(Append(q, c), h)) =
                      Cardinality(Units(q, h)) + IF g = h THEN Size(b) ELSE 0
               /\ Cardinality(InGroup(q, h)) \in Nat /\ Cardinality(Units(q, h)) \in Nat
    <3>1. IsFiniteSet(InGroup(q, h)) /\ IsFiniteSet(Units(q, h))
        BY <1>q, GroupSets, UnitsFinite
    <3>2. Cardinality(InGroup(q, h)) \in Nat /\ Cardinality(Units(q, h)) \in Nat
        BY <3>1, FS_CardinalityType
    <3> QED
        BY <1>q, <2>3, <2>4, <3>2, GroupAppend
  <2>7. \A h \in DOMAIN o.groups : h # g => /\ G[h].count = Cardinality(InGroup(Append(q, c), h))
                                            /\ G[h].size = Cardinality(Units(Append(q, c), h))
    <3> SUFFICES ASSUME NEW h \in DOMAIN o.groups, h # g
                 PROVE  /\ G[h].count = Cardinality(InGroup(Append(q, c), h))
                        /\ G[h].size = Cardinality(Units(Append(q, c), h))
        OBVIOUS
    <3> QED
        BY <1>2, <2>5, <2>6
  <2>8. /\ G[g].count = Cardinality(InGroup(Append(q, c), g))
        /\ G[g].size = Cardinality(Units(Append(q, c), g))
    <3>1. CASE g \in DOMAIN o.groups
        BY <1>2, <2>5, <2>6, <3>1
    <3>2. CASE g \notin DOMAIN o.groups
      <4>1. \A i \in 1 .. Len(q) : q[i].group # g
          BY <1>2, <1>q, <2>1, <3>2
      <4>2. InGroup(q, g) = {}
          BY <1>q, <4>1 DEF InGroup
      <4>3. Units(q, g) = {}
          BY <4>2 DEF Units
      <4>4. Cardinality(InGroup(q, g)) = 0 /\ Cardinality(Units(q, g)) = 0
          BY <4>2, <4>3, FS_EmptySet
      <4> QED
          BY <1>p, <2>5, <2>6, <3>2, <4>4
    <3> QED
        BY <3>1, <3>2
  <2>9. DOMAIN G = {Append(q, c)[i].group : i \in 1 .. n} \ {0}
    <3>1. {Append(q, c)[i].group : i \in 1 .. n} = {q[i].group : i \in 1 .. Len(q)} \cup {c.group}
        BY <1>3, <2>3
    <3>2. DOMAIN o.groups = {q[i].group : i \in 1 .. Len(q)} \ {0}
        BY <1>2, <1>q
    <3> QED
        BY <2>1, <2>3, <2>5, <3>1, <3>2
  <2>10. Contiguous(Append(q, c))
    <3>1. ASSUME NEW i \in 1 .. Len(q), q[i].group = c.group
          PROVE  q[Len(q)].group = c.group
      <4>1. g \in DOMAIN o.groups
          BY <1>2, <1>q, <2>1, <2>3, <3>1
      <4> QED
          BY <2>1, <2>3, <4>1
    <3> QED
        BY <1>2, <1>q, <2>3, <3>1, ContiguousAppend
  <2>11. o.nonCacheable = Cardinality(InGroup(Append(q, c), 0))
      BY <1>2, <2>1, <2>6
  <2>12. GroupsOK(r)
    <3>1. \A h \in DOMAIN G : /\ G[h].count = Cardinality(InGroup(Append(q, c), h))
                              /\ G[h].size = Cardinality(Units(Append(q, c), h))
        BY <2>5, <2>7, <2>8
    <3> DEFINE w == Append(q, c)
    <3>2. /\ w \in Seq(Buffers) /\ Len(w) = n /\ DOMAIN w = 1 .. n /\ w[n] = c
          /\ \A i \in 1 .. Len(q) : w[i] = q[i]
        BY <1>3, <2>3
    <3>3. \A i \in 1 .. n : w[i].group <= g
      <4>1. \A i \in 1 .. n : i \in 1 .. Len(q) \/ i = n
          BY <1>q
      <4> QED
          BY <2>1, <2>3, <3>2, <4>1
    <3>4. w[n].group = g
        BY <2>3, <3>2
    <3> HIDE DEF w
    <3>5. /\ r.queue = w /\ r.groups = G /\ r.nonCacheable = o.nonCacheable /\ r.current = g
        BY DEF w
    <3>6. r = [queue |-> r.queue, groups |-> r.groups, nonCacheable |-> r.nonCacheable,
               current |-> r.current]
        OBVIOUS
    <3> HIDE DEF r
    <3>7. Contiguous(w) /\ o.nonCacheable = Cardinality(InGroup(w, 0)) /\ DOMAIN G = {w[i].group : i \in 1 .. n} \ {0}
        BY <2>9, <2>10, <2>11 DEF w
    <3>8. \A h \in DOMAIN G : /\ G[h].count = Cardinality(InGroup(w, h))
                              /\ G[h].size = Cardinality(Units(w, h))
        BY <3>1 DEF w
    <3> QED
        BY SMTT(40), <2>1, <3>2, <3>3, <3>4, <3>5, <3>6, <3>7, <3>8 DEF GroupsOK
  <2>13. r.queue = Append(o.queue, c)
      BY <1>q
  <2> QED
      BY <2>2, <2>3, <2>12, <2>13
<1>5. CASE ~(b.payload <= CacheablePayloadMax)
  <2> DEFINE w == Append(q, b)
             r == [queue |-> w, groups |-> o.groups, nonCacheable |-> o.nonCacheable + 1, current |-> o.current]
  <2>1. QueuePacketBuffer(o, b) = r
      BY <1>1, <1>5, <1>q DEF QueuePacketBuffer
  <2>2. SameButGroup(b, b)
      BY DEF SameButGroup
  <2>3. ASSUME NEW h
        PROVE  /\ Cardinality(InGroup(w, h)) = Cardinality(InGroup(q, h)) + IF 0 = h THEN 1 ELSE 0
               /\ Cardinality(Units(w, h)) = Cardinality(Units(q, h)) + IF 0 = h THEN Size(b) ELSE 0
               /\ Cardinality(InGroup(q, h)) \in Nat /\ Cardinality(Units(q, h)) \in Nat
    <3>1. IsFiniteSet(InGroup(q, h)) /\ IsFiniteSet(Units(q, h))
        BY <1>q, GroupSets, UnitsFinite
    <3>2. Cardinality(InGroup(q, h)) \in Nat /\ Cardinality(Units(q, h)) \in Nat
        BY <3>1, FS_CardinalityType
    <3> QED
        BY <1>q, <3>2, GroupAppend
  <2>4. /\ w \in Seq(Buffers) /\ Len(w) = n /\ DOMAIN w = 1 .. n /\ w[n] = b
        /\ \A i \in 1 .. Len(q) : w[i] = q[i]
        /\ {w[i].group : i \in 1 .. n} = {q[i].group : i \in 1 .. Len(q)} \cup {0}
      BY <1>3
  <2>5. Contiguous(w)
      BY <1>2, <1>q, ContiguousAppend
  <2> HIDE DEF w
  <2>6. \A i \in 1 .. n : w[i].group <= o.current
    <3>1. \A i \in 1 .. n : i \in 1 .. Len(q) \/ i = n
        BY <1>q
    <3>2. 0 <= o.current
        BY <1>1
    <3> QED
        BY <1>2, <1>q, <2>4, <3>1, <3>2
  <2>7. DOMAIN o.groups = {w[i].group : i \in 1 .. n} \ {0}
      BY <1>2, <1>q, <2>4
  <2>8. ASSUME NEW h \in DOMAIN o.groups
        PROVE  /\ o.groups[h].count = Cardinality(InGroup(w, h))
               /\ o.groups[h].size = Cardinality(Units(w, h))
    <3>1. h # 0
        BY <2>7
    <3> QED
        BY <1>2, <2>3, <3>1
  <2>9. o.nonCacheable + 1 = Cardinality(InGroup(w, 0))
      BY <1>2, <2>3
  <2>10. /\ r.queue = w /\ r.groups = o.groups /\ r.nonCacheable = o.nonCacheable + 1 /\ r.current = o.current
         /\ r = [queue |-> r.queue, groups |-> r.groups, nonCacheable |-> r.nonCacheable,
                 current |-> r.current]
      OBVIOUS
  <2> HIDE DEF r
  <2>11. GroupsOK(r)
      BY <1>1, <2>4, <2>5, <2>6, <2>7, <2>8, <2>9, <2>10 DEF GroupsOK
  <2>12. r.queue = Append(o.queue, b)
      BY <1>q, <2>10 DEF w
  <2> QED
      BY <2>1, <2>2, <2>11, <2>12
<1> QED
    BY <1>4, <1>5

(* The task takes the whole group of the first buffer, or it alone: what   *)
(* is taken is a proper part of the queue and the rest is as exact.        *)
Task(o) == IF IsCacheable(Head(o.queue)) THEN o.groups[Head(o.queue).group].count ELSE 1
AfterTask(o) ==
    LET rest == SubSeq(o.queue, Task(o) + 1, Len(o.queue))
    IN IF IsCacheable(Head(o.queue))
       THEN [o EXCEPT !.queue = rest, !.groups = [g \in DOMAIN @ \ {Head(o.queue).group} |-> @[g]]]
       ELSE [o EXCEPT !.queue = rest, !.nonCacheable = @ - 1]

(* A group that begins the queue is as long as its counter says.           *)
LEMMA FirstGroup ==
    ASSUME NEW q \in Seq(Buffers), q # <<>>, Contiguous(q), q[1].group # 0
    PROVE  LET n == Cardinality(InGroup(q, q[1].group))
           IN /\ n \in 1 .. Len(q)
              /\ \A i \in 1 .. Len(q) : q[i].group = q[1].group <=> i <= n
<1> DEFINE g == q[1].group
           S == InGroup(q, g)
           n == Cardinality(S)
<1>1. Len(q) \in Nat /\ DOMAIN q = 1 .. Len(q) /\ Len(q) # 0
    BY LenProperties, EmptySeq
<1>2. 1 \in DOMAIN q /\ 1 \in 1 .. Len(q)
    BY <1>1
<1>3. S \subseteq 1 .. Len(q) /\ IsFiniteSet(S) /\ \A i \in 1 .. Len(q) : i \in S <=> q[i].group = g
  <2>1. S \subseteq 1 .. Len(q) /\ IsFiniteSet(S)
      BY GroupSets
  <2>2. \A i \in DOMAIN q : i \in S <=> q[i].group = g
      BY DEF InGroup
  <2> QED
      BY <1>1, <2>1, <2>2
<1>4. n \in Nat
    BY <1>3, FS_CardinalityType
<1>5. \A i \in S : \A k \in 1 .. i : k \in S
  <2> SUFFICES ASSUME NEW i \in S, NEW k \in 1 .. i
               PROVE  k \in S
      OBVIOUS
  <2>1. i \in 1 .. Len(q) /\ q[i].group = g /\ g # 0
      BY <1>3
  <2>2. q[k].group = q[1].group
      BY <1>1, <1>2, <2>1 DEF Contiguous
  <2>3. k \in 1 .. Len(q)
      BY <1>1, <2>1
  <2> QED
      BY <1>3, <2>2, <2>3
<1>6. IsFiniteSet(1 .. Len(q)) /\ Cardinality(1 .. Len(q)) = Len(q)
    BY <1>1, FS_Interval
<1>7. n <= Len(q)
    BY <1>3, <1>6, FS_Subset
<1>8. ASSUME NEW i \in 1 .. Len(q)
      PROVE  i \in S <=> i <= n
  <2>1. ASSUME i \in S
        PROVE  i <= n
    <3>1. 1 .. i \subseteq S
        BY <1>5, <2>1
    <3>2. Cardinality(1 .. i) = i
        BY <1>1, FS_Interval
    <3> QED
        BY <1>3, <3>1, <3>2, FS_Subset
  <2>2. ASSUME i \notin S
        PROVE  n <= i - 1
    <3>1. S \subseteq 1 .. i - 1
      <4> SUFFICES ASSUME NEW j \in S, ~(j <= i - 1)
                   PROVE  FALSE
          BY <1>1, <1>3
      <4>1. i \in 1 .. j
          BY <1>1, <1>3
      <4> QED
          BY <1>5, <2>2, <4>1
    <3>2. IsFiniteSet(1 .. i - 1) /\ Cardinality(1 .. i - 1) = i - 1
      <4> DEFINE j == i - 1
      <4>1. j \in Nat
          BY <1>1
      <4> HIDE DEF j
      <4>2. IsFiniteSet(1 .. j) /\ Cardinality(1 .. j) = j
          BY <4>1, FirstPlaces, Zenon
      <4> QED
          BY <4>2 DEF j
    <3> QED
        BY <3>1, <3>2, FS_Subset
  <2> QED
      BY <1>1, <1>4, <2>1, <2>2
<1>9. n >= 1
  <2>1. 1 \in S
      BY <1>2, <1>3
  <2> QED
      BY <1>2, <1>8, <2>1
<1> HIDE DEF S
<1>10. n \in 1 .. Len(q) /\ \A i \in 1 .. Len(q) : q[i].group = g <=> i <= n
    BY <1>1, <1>3, <1>4, <1>7, <1>8, <1>9
<1> QED
    BY <1>10 DEF S

(* getStreamingWriteTasks keeps the groups exact.                          *)
LEMMA TaskGroups ==
    ASSUME NEW o, GroupsOK(o), o.queue # <<>>
    PROVE  /\ Task(o) \in 1 .. Len(o.queue)
           /\ GroupsOK(AfterTask(o))
           /\ AfterTask(o).queue = SubSeq(o.queue, Task(o) + 1, Len(o.queue))
<1> DEFINE q == o.queue
           n == Task(o)
           g == Head(o.queue).group
           rest == SubSeq(q, n + 1, Len(q))
<1>1. /\ o = [queue |-> o.queue, groups |-> o.groups, nonCacheable |-> o.nonCacheable,
              current |-> o.current]
      /\ q \in Seq(Buffers) /\ o.current \in Nat
      /\ DOMAIN o.groups = {q[i].group : i \in DOMAIN q} \ {0}
      /\ \A h \in DOMAIN o.groups : /\ o.groups[h].count = Cardinality(InGroup(q, h))
                                    /\ o.groups[h].size = Cardinality(Units(q, h))
      /\ Contiguous(q)
      /\ o.nonCacheable = Cardinality(InGroup(q, 0))
      /\ \A i \in DOMAIN q : q[i].group <= o.current
      /\ q[Len(q)].group # 0 => q[Len(q)].group = o.current
    BY DEF GroupsOK
<1>2. Len(q) \in Nat /\ DOMAIN q = 1 .. Len(q) /\ Len(q) # 0 /\ Head(q) = q[1] /\ 1 \in 1 .. Len(q)
    BY <1>1, LenProperties, EmptySeq
<1>3. g = q[1].group /\ (g # 0 => g \in DOMAIN o.groups)
    BY <1>1, <1>2
<1>4. /\ n \in 1 .. Len(q)
      /\ g # 0 => \A i \in 1 .. Len(q) : q[i].group = g <=> i <= n
      /\ g = 0 => n = 1
  <2>1. CASE g # 0
    <3>1. n = Cardinality(InGroup(q, q[1].group))
        BY <1>1, <1>3, <2>1 DEF Task, IsCacheable
    <3> QED
        BY <1>1, <1>2, <1>3, <2>1, <3>1, FirstGroup
  <2>2. CASE g = 0
      BY <1>2, <2>2 DEF Task, IsCacheable
  <2> QED
      BY <2>1, <2>2
<1>5. /\ rest \in Seq(Buffers) /\ Len(rest) = Len(q) - n
      /\ \A i \in 1 .. Len(q) - n : rest[i] = q[n + i]
    BY SMTT(40), <1>1, <1>2, <1>4, CutSeq
<1> HIDE DEF n, rest
<1>6. DOMAIN rest = 1 .. Len(q) - n
    BY <1>5, LenProperties
<1>7. \A i \in 1 .. n : q[i].group = g
    BY <1>2, <1>3, <1>4
<1>8. ASSUME NEW h, h # g
      PROVE  /\ Cardinality(InGroup(rest, h)) = Cardinality(InGroup(q, h))
             /\ Cardinality(Units(rest, h)) = Cardinality(Units(q, h))
  <2>1. n \in 0 .. Len(q) /\ \A i \in 1 .. n : q[i].group # h
      BY <1>2, <1>4, <1>7, <1>8
  <2> QED
      BY <1>1, <2>1, GroupCut DEF rest
<1>9. Contiguous(rest)
  <2> SUFFICES ASSUME NEW i \in 1 .. Len(q) - n, NEW j \in 1 .. Len(q) - n,
                      rest[i].group = rest[j].group, rest[i].group # 0, NEW k \in i .. j
               PROVE  rest[k].group = rest[i].group
      BY <1>6 DEF Contiguous
  <2>1. n + i \in 1 .. Len(q) /\ n + j \in 1 .. Len(q) /\ n + k \in n + i .. n + j /\ k \in 1 .. Len(q) - n
      BY <1>2, <1>4
  <2>2. q[n + k].group = q[n + i].group
    <3>1. q[n + i].group = q[n + j].group /\ q[n + i].group # 0
        BY <1>5
    <3>2. \A a \in DOMAIN q, c \in DOMAIN q : q[a].group = q[c].group /\ q[a].group # 0
              => \A e \in a .. c : q[e].group = q[a].group
        BY <1>1 DEF Contiguous
    <3>3. n + i \in DOMAIN q /\ n + j \in DOMAIN q
        BY <1>2, <2>1
    <3> QED
        BY <2>1, <3>1, <3>2, <3>3
  <2> QED
      BY <1>5, <2>1, <2>2
<1>10. \A i \in DOMAIN rest : rest[i].group <= o.current
  <2> SUFFICES ASSUME NEW i \in 1 .. Len(q) - n
               PROVE  rest[i].group <= o.current
      BY <1>6
  <2>1. n + i \in 1 .. Len(q)
      BY <1>2, <1>4
  <2> QED
      BY <1>1, <1>2, <1>5, <2>1
<1>11. rest # <<>> /\ rest[Len(rest)].group # 0 => rest[Len(rest)].group = o.current
  <2> SUFFICES ASSUME rest # <<>>
               PROVE  rest[Len(rest)] = q[Len(q)]
      BY <1>1
  <2>1. Len(rest) \in 1 .. Len(q) - n /\ n + Len(rest) = Len(q)
      BY <1>2, <1>4, <1>5, EmptySeq
  <2> QED
      BY <1>5, <2>1
<1>12. \A h : h # g /\ h # 0 => (h \in {rest[i].group : i \in DOMAIN rest} <=> h \in DOMAIN o.groups)
  <2> SUFFICES ASSUME NEW h, h # g, h # 0
               PROVE  (\E i \in 1 .. Len(q) - n : rest[i].group = h) <=> (\E i \in 1 .. Len(q) : q[i].group = h)
    <3>1. \A h : h \in {rest[i].group : i \in DOMAIN rest} <=> \E i \in 1 .. Len(q) - n : rest[i].group = h
        BY <1>6
    <3>2. \A h : h # 0 => (h \in DOMAIN o.groups <=> \E i \in 1 .. Len(q) : q[i].group = h)
        BY <1>1, <1>2
    <3> QED
        BY <3>1, <3>2
  <2>1. ASSUME NEW i \in 1 .. Len(q) - n, rest[i].group = h
        PROVE  \E j \in 1 .. Len(q) : q[j].group = h
    <3>1. n + i \in 1 .. Len(q)
        BY <1>2, <1>4
    <3> QED
        BY <1>5, <2>1, <3>1
  <2>2. ASSUME NEW i \in 1 .. Len(q), q[i].group = h
        PROVE  \E j \in 1 .. Len(q) - n : rest[j].group = h
    <3>1. ~(i \in 1 .. n)
        BY <1>7, <2>2
    <3>2. i - n \in 1 .. Len(q) - n /\ n + (i - n) = i
        BY <1>2, <1>4, <3>1
    <3> QED
        BY <1>5, <2>2, <3>2
  <2> QED
      BY <2>1, <2>2
<1>13. CASE g # 0
  <2> DEFINE G == [h \in DOMAIN o.groups \ {g} |-> o.groups[h]]
             r == [queue |-> rest, groups |-> G, nonCacheable |-> o.nonCacheable, current |-> o.current]
  <2>1. AfterTask(o) = r
      BY <1>1, <1>13 DEF AfterTask, IsCacheable, rest, n
  <2>2. DOMAIN G = {rest[i].group : i \in DOMAIN rest} \ {0}
    <3>1. \A i \in 1 .. Len(q) - n : rest[i].group # g
      <4> SUFFICES ASSUME NEW i \in 1 .. Len(q) - n
                   PROVE  rest[i].group # g
          OBVIOUS
      <4>1. n + i \in 1 .. Len(q) /\ ~(n + i <= n)
          BY <1>2, <1>4
      <4> QED
          BY <1>4, <1>5, <1>13, <4>1
    <3>2. g \notin {rest[i].group : i \in DOMAIN rest} /\ 0 \notin DOMAIN o.groups
        BY <1>1, <1>6, <3>1
    <3> QED
        BY <1>12, <3>2
  <2>3. \A h \in DOMAIN G : /\ G[h].count = Cardinality(InGroup(rest, h))
                            /\ G[h].size = Cardinality(Units(rest, h))
      BY <1>1, <1>8
  <2>4. o.nonCacheable = Cardinality(InGroup(rest, 0))
      BY <1>1, <1>8, <1>13
  <2>5. /\ r.queue = rest /\ r.groups = G /\ r.nonCacheable = o.nonCacheable /\ r.current = o.current
        /\ r = [queue |-> r.queue, groups |-> r.groups, nonCacheable |-> r.nonCacheable,
                current |-> r.current]
      OBVIOUS
  <2> HIDE DEF r, G
  <2>6. GroupsOK(r)
      BY SMTT(40), <1>1, <1>5, <1>9, <1>10, <1>11, <2>2, <2>3, <2>4, <2>5 DEF GroupsOK
  <2> QED
      BY <1>4, <2>1, <2>5, <2>6 DEF rest, n
<1>14. CASE g = 0
  <2> DEFINE r == [queue |-> rest, groups |-> o.groups, nonCacheable |-> o.nonCacheable - 1, current |-> o.current]
  <2>1. AfterTask(o) = r /\ n = 1
      BY <1>1, <1>4, <1>14 DEF AfterTask, IsCacheable, rest, n
  <2>2. DOMAIN o.groups = {rest[i].group : i \in DOMAIN rest} \ {0}
      BY <1>1, <1>12, <1>14
  <2>3. \A h \in DOMAIN o.groups : /\ o.groups[h].count = Cardinality(InGroup(rest, h))
                                   /\ o.groups[h].size = Cardinality(Units(rest, h))
      BY <1>1, <1>8, <1>14
  <2>4. o.nonCacheable - 1 = Cardinality(InGroup(rest, 0))
    <3> DEFINE A == InGroup(q, 0)
               B == InGroup(rest, 0)
    <3>1. IsFiniteSet(A) /\ A \subseteq 1 .. Len(q) /\ B \subseteq 1 .. Len(rest)
        BY <1>1, <1>5, GroupSets
    <3>2. 1 \in A
        BY <1>2, <1>3, <1>14 DEF InGroup
    <3>3. IsFiniteSet(A \ {1}) /\ Cardinality(A \ {1}) = Cardinality(A) - 1
        BY <3>1, <3>2, FS_RemoveElement
    <3>4. \A i \in Nat : i \in B <=> i + 1 \in A \ {1}
        BY <1>2, <1>5, <1>6, <2>1 DEF InGroup
    <3>5. A \ {1} \subseteq Nat /\ B \subseteq Nat /\ \A i \in A \ {1} : i >= 1
        BY <1>2, <1>5, <3>1
    <3> HIDE DEF A, B
    <3>6. Cardinality(B) = Cardinality(A \ {1})
        BY <3>3, <3>4, <3>5, ShiftCard
    <3> QED
        BY <1>1, <3>3, <3>6 DEF A, B
  <2>5. /\ r.queue = rest /\ r.groups = o.groups /\ r.nonCacheable = o.nonCacheable - 1 /\ r.current = o.current
        /\ r = [queue |-> r.queue, groups |-> r.groups, nonCacheable |-> r.nonCacheable,
                current |-> r.current]
      OBVIOUS
  <2> HIDE DEF r
  <2>6. GroupsOK(r)
      BY <1>1, <1>5, <1>9, <1>10, <1>11, <2>2, <2>3, <2>4, <2>5 DEF GroupsOK
  <2> QED
      BY <1>4, <2>1, <2>5, <2>6 DEF rest, n
<1> QED
    BY <1>13, <1>14

--------------------------------------------------------------------------------
(***************************************************************************)
(* Steps of the server keep the types.                                     *)
(***************************************************************************)

(* A nonempty set of places has a first one.                               *)
LEMMA FirstOne ==
    ASSUME NEW n \in Nat, NEW T \in SUBSET (1 .. n), T # {}
    PROVE  \E x \in T : \A y \in T : x <= y
<1> DEFINE F == {1 .. (x - 1) : x \in T}
<1>1. F \subseteq FiniteSubsetsOf(1 .. n)
  <2> SUFFICES ASSUME NEW x \in T
               PROVE  1 .. (x - 1) \in FiniteSubsetsOf(1 .. n)
      BY Zenon
  <2>1. 1 .. (x - 1) \subseteq 1 .. n
      OBVIOUS
  <2>2. IsFiniteSet(1 .. (x - 1))
      BY FS_Interval
  <2> QED
      BY <2>1, <2>2 DEF FiniteSubsetsOf
<1>2. F # {}
    BY Zenon
<1>3. IsWellFoundedOn(StrictSubsetOrdering(1 .. n), FiniteSubsetsOf(1 .. n))
    BY FS_StrictSubsetOrderingWellFounded
<1>4. \E U \in F : \A V \in F : <<V, U>> \notin StrictSubsetOrdering(1 .. n)
    BY <1>1, <1>2, <1>3, WFMin, Zenon
<1>5. PICK x \in T : \A y \in T :
          <<1 .. (y - 1), 1 .. (x - 1)>> \notin StrictSubsetOrdering(1 .. n)
    BY <1>4, Zenon
<1>6. ASSUME NEW y \in T, ~(x <= y)
      PROVE  FALSE
  <2>1. /\ 1 .. (y - 1) \subseteq 1 .. (x - 1)
        /\ y \in 1 .. (x - 1) /\ y \notin 1 .. (y - 1)
        /\ 1 .. (x - 1) \subseteq 1 .. n
      BY <1>6
  <2>2. <<1 .. (y - 1), 1 .. (x - 1)>> \in StrictSubsetOrdering(1 .. n)
      BY <2>1, Zenon DEF StrictSubsetOrdering
  <2> QED
      BY <1>5, <2>2
<1> QED
    BY <1>6

(* The first waiting buffer of a packet is one of that packet.             *)
LEMMA FirstOfIs ==
    ASSUME NEW ws \in Seq(WaitEntries), NEW p, \E i \in DOMAIN ws : ws[i].packet = p
    PROVE  FirstOf(ws, p) \in 1 .. Len(ws) /\ ws[FirstOf(ws, p)].packet = p
<1> DEFINE T == {i \in 1 .. Len(ws) : ws[i].packet = p}
<1>1. Len(ws) \in Nat /\ DOMAIN ws = 1 .. Len(ws)
    BY LenProperties
<1>2. T # {} /\ T \in SUBSET (1 .. Len(ws))
    BY <1>1
<1> HIDE DEF T
<1>3. PICK x \in T : \A y \in T : x <= y
    BY <1>1, <1>2, FirstOne, Zenon
<1>4. x \in 1 .. Len(ws) /\ ws[x].packet = p
    BY <1>3 DEF T
<1>5. \A j \in 1 .. x - 1 : ws[j].packet # p
  <2> SUFFICES ASSUME NEW j \in 1 .. x - 1, ws[j].packet = p
               PROVE  FALSE
      OBVIOUS
  <2>1. j \in 1 .. Len(ws) /\ ~(x <= j)
      BY <1>1, <1>4
  <2> QED
      BY <1>3, <2>1 DEF T
<1>6. \E i \in DOMAIN ws : ws[i].packet = p /\ \A j \in 1 .. i - 1 : ws[j].packet # p
    BY <1>1, <1>4, <1>5
<1> QED
    BY <1>1, <1>6, Zenon DEF FirstOf

(* The buffers the server makes.                                           *)
LEMMA BuffersMade ==
    ASSUME NEW s \in Signals
    PROVE  /\ \A e \in Events : LET b == EventBuffer(s, e)
                                IN /\ b \in Buffers /\ b.group = 0 /\ Shaped(b)
                                   /\ b.type = "event" /\ b.signal = s /\ b.event = e
           /\ \A p \in Packets, m \in BOOLEAN :
                 /\ LET b == DataBuffer(s, p, m)
                    IN /\ b \in Buffers /\ b.group = 0 /\ Shaped(b)
                       /\ b.type = "data" /\ b.signal = s /\ b.packet = p /\ b.canRelease = m
                 /\ LET b == AlreadySentBuffer(s, p, m)
                    IN /\ b \in Buffers /\ b.group = 0 /\ Shaped(b)
                       /\ b.type = "alreadySent" /\ b.signal = s /\ b.packet = p /\ b.canRelease = m
<1>1. Event(Unchanged, Unchanged) \in Events
    BY DEF Event, Events, Told
<1>2. \A p \in Packets : Payload[p] \in Nat
    BY PacketStreamingAssumption
<1> DEFINE none == Event(Unchanged, Unchanged)
<1> HIDE DEF none
<1>3. \A t \in {"event", "data", "alreadySent"}, n \in Nat :
          Header(t, s, n) \in Buffers
    BY <1>1 DEF Header, Buffers, Events, Told
<1>4. ASSUME NEW e \in Events
      PROVE  LET b == EventBuffer(s, e)
             IN /\ b \in Buffers /\ b.group = 0 /\ Shaped(b)
                /\ b.type = "event" /\ b.signal = s /\ b.event = e
    BY <1>1 DEF EventBuffer, Header, Buffers, Shaped, Events, Told
<1>5. ASSUME NEW p \in Packets, NEW m \in BOOLEAN
      PROVE  LET b == DataBuffer(s, p, m)
             IN /\ b \in Buffers /\ b.group = 0 /\ Shaped(b)
                /\ b.type = "data" /\ b.signal = s /\ b.packet = p /\ b.canRelease = m
    BY <1>1, <1>2 DEF DataBuffer, Header, Buffers, Shaped, Events, Told
<1>6. ASSUME NEW p \in Packets, NEW m \in BOOLEAN
      PROVE  LET b == AlreadySentBuffer(s, p, m)
             IN /\ b \in Buffers /\ b.group = 0 /\ Shaped(b)
                /\ b.type = "alreadySent" /\ b.signal = s /\ b.packet = p /\ b.canRelease = m
    BY <1>1 DEF AlreadySentBuffer, Header, Buffers, Shaped, Events, Told
<1> QED
    BY <1>4, <1>5, <1>6

(* A release of some packets.                                              *)
LEMMA ReleaseMade ==
    ASSUME NEW ids \in SUBSET Packets, IsFiniteSet(ids)
    PROVE  LET b == ReleaseBuffer(ids)
           IN /\ b \in Buffers /\ b.group = 0 /\ Shaped(b)
              /\ b.type = "release" /\ b.packet = NoPacket /\ b.ids = ids
<1>1. Event(Unchanged, Unchanged) \in Events
    BY DEF Event, Events, Told
<1>2. Cardinality(ids) \in Nat
    BY FS_CardinalityType
<1> QED
    BY <1>1, <1>2 DEF ReleaseBuffer, Header, Buffers, Shaped, Events, Told

(* A buffer is queued and, if it is due, a release after it.               *)
Queued(q, b, ready, r) ==
    \E c \in Buffers :
        /\ SameButGroup(c, b)
        /\ IF ReleaseDue(ready)
           THEN \E x \in Buffers : SameButGroup(x, ReleaseBuffer(ready)) /\ r = Append(Append(q, c), x)
           ELSE r = Append(q, c)
(* A buffer queued, and the release that may follow it, keep the groups.   *)
LEMMA QueueAndRelease ==
    ASSUME NEW o, GroupsOK(o), NEW b \in Buffers, b.group = 0,
           NEW ready \in SUBSET Packets, IsFiniteSet(ready)
    PROVE  LET r == CheckAndSendReleasePacket(QueuePacketBuffer(o, b), ready)
           IN GroupsOK(r) /\ Queued(o.queue, b, ready, r.queue)
<1> DEFINE m == QueuePacketBuffer(o, b)
<1>1. GroupsOK(m)
    BY QueueGroups
<1>2. PICK c \in Buffers : m.queue = Append(o.queue, c) /\ SameButGroup(c, b)
    BY QueueGroups
<1> HIDE DEF m
<1>3. CASE ReleaseDue(ready)
  <2> DEFINE d == ReleaseBuffer(ready)
             r == QueuePacketBuffer(m, d)
  <2>1. d \in Buffers /\ d.group = 0
      BY ReleaseMade
  <2> HIDE DEF d
  <2>2. GroupsOK(r)
      BY <1>1, <2>1, QueueGroups
  <2>3. PICK x \in Buffers : r.queue = Append(m.queue, x) /\ SameButGroup(x, d)
      BY <1>1, <2>1, QueueGroups
  <2>4. CheckAndSendReleasePacket(m, ready) = r
      BY <1>3 DEF CheckAndSendReleasePacket, d
  <2> HIDE DEF r
  <2>5. Queued(o.queue, b, ready, r.queue)
      BY <1>2, <1>3, <2>3 DEF Queued, d
  <2> QED
      BY <2>2, <2>4, <2>5 DEF m
<1>4. CASE ~ReleaseDue(ready)
  <2>1. CheckAndSendReleasePacket(m, ready) = m
      BY <1>4 DEF CheckAndSendReleasePacket
  <2>2. Queued(o.queue, b, ready, m.queue)
      BY <1>2, <1>4 DEF Queued
  <2> QED
      BY <1>1, <2>1, <2>2 DEF m
<1> QED
    BY <1>3, <1>4

(* What is queued keeps its shape.                                         *)
LEMMA QueuedTypes ==
    ASSUME NEW q \in Seq(Buffers), AllShaped(q), NEW b \in Buffers, Shaped(b),
           NEW ready \in SUBSET Packets, IsFiniteSet(ready), NEW r, Queued(q, b, ready, r)
    PROVE  r \in Seq(Buffers) /\ AllShaped(r)
<1>1. ASSUME NEW w \in Seq(Buffers), AllShaped(w), NEW a \in Buffers, Shaped(a),
             NEW c \in Buffers, SameButGroup(c, a)
      PROVE  Append(w, c) \in Seq(Buffers) /\ AllShaped(Append(w, c))
  <2>1. Shaped(c)
      BY <1>1 DEF Shaped, SameButGroup
  <2>2. /\ Append(w, c) \in Seq(Buffers) /\ Len(Append(w, c)) = Len(w) + 1 /\ Len(w) \in Nat
        /\ \A i \in 1 .. Len(w) : Append(w, c)[i] = w[i]
        /\ Append(w, c)[Len(w) + 1] = c /\ DOMAIN w = 1 .. Len(w)
      BY AppendProperties, LenProperties
  <2> DEFINE z == Append(w, c)
  <2> HIDE DEF z
  <2>3. z \in Seq(Buffers) /\ DOMAIN z = 1 .. Len(w) + 1
      BY <2>2, LenProperties DEF z
  <2>4. \A i \in 1 .. Len(w) + 1 : i \in 1 .. Len(w) \/ i = Len(w) + 1
      BY <2>2
  <2>5. \A i \in DOMAIN z : Shaped(z[i])
      BY <1>1, <2>1, <2>2, <2>3, <2>4 DEF AllShaped, z
  <2> QED
      BY <2>3, <2>5 DEF AllShaped, z
<1>2. PICK c \in Buffers :
        /\ SameButGroup(c, b)
        /\ IF ReleaseDue(ready)
           THEN \E x \in Buffers : SameButGroup(x, ReleaseBuffer(ready)) /\ r = Append(Append(q, c), x)
           ELSE r = Append(q, c)
    BY DEF Queued
<1>3. Append(q, c) \in Seq(Buffers) /\ AllShaped(Append(q, c))
    BY <1>1, <1>2
<1>4. CASE ReleaseDue(ready)
  <2>1. PICK x \in Buffers : SameButGroup(x, ReleaseBuffer(ready)) /\ r = Append(Append(q, c), x)
      BY <1>2, <1>4
  <2>2. ReleaseBuffer(ready) \in Buffers /\ Shaped(ReleaseBuffer(ready))
      BY ReleaseMade
  <2> QED
      BY <1>1, <1>3, <2>1, <2>2
<1> QED
    BY <1>2, <1>3, <1>4

(* Who is left when references go away.                                    *)
LEMMA LeftIs ==
    ASSUME NEW pend, NEW queue, NEW onWire, NEW creators, creators \subseteq alive
    PROVE  /\ Left(pend, queue, onWire, creators) \subseteq alive
           /\ creators \subseteq Left(pend, queue, onWire, creators)
           /\ \A p \in alive : (\E s \in Signals : Data(p) \in ToSet(pend[s]))
                                   => p \in Left(pend, queue, onWire, creators)
    BY DEF Left, HeldDirectly

(* The collection of the server after packets were destroyed.              *)
LEMMA DestroyTypes ==
    ASSUME NEW pend, NEW queue, NEW onWire, NEW creators, creators \subseteq alive, alive \subseteq Packets,
           NEW sentNow, IsFiniteSet(sentNow), sentNow \subseteq Packets,
           NEW readyNow, IsFiniteSet(readyNow), readyNow \subseteq Packets,
           readyNow \cap Left(pend, queue, onWire, creators) = {},
           Destroy(pend, queue, onWire, creators, sentNow, readyNow)
    PROVE  /\ alive' = Left(pend, queue, onWire, creators) /\ alive' \subseteq alive
           /\ creators \subseteq alive'
           /\ sent' \subseteq alive' /\ readyForRelease' \subseteq Packets \ alive'
           /\ IsFiniteSet(sent') /\ IsFiniteSet(readyForRelease')
           /\ sent' = sentNow \cap alive' /\ readyForRelease' = readyNow \cup (sentNow \ alive')
<1> DEFINE L == Left(pend, queue, onWire, creators)
<1>1. alive' = L /\ sent' = sentNow \cap L /\ readyForRelease' = readyNow \cup (sentNow \ L)
    BY DEF Destroy
<1>2. L \subseteq alive /\ creators \subseteq L
    BY LeftIs
<1> HIDE DEF L
<1>3. IsFiniteSet(sentNow \cap L) /\ IsFiniteSet(sentNow \ L)
    BY FS_Intersection, FS_Difference
<1>4. IsFiniteSet(readyNow \cup (sentNow \ L))
    BY <1>3, FS_Union
<1>5. readyNow \cap L = {}
    BY DEF L
<1> QED
    BY <1>1, <1>2, <1>3, <1>4, <1>5 DEF L

(* The first message of a signal.                                          *)
LEMMA FirstMessage ==
    ASSUME StreamTypes, NEW s \in Signals, pending[s] # <<>>
    PROVE  /\ Head(pending[s]) \in Messages /\ Tail(pending[s]) \in Seq(Messages)
           /\ [pending EXCEPT ![s] = Tail(@)] \in [Signals -> Seq(Messages)]
           /\ Head(pending[s]).kind = "event" => Head(pending[s]) \in Events
           /\ Head(pending[s]).kind = "data" =>
                  Head(pending[s]).packet \in Packets /\ Head(pending[s]) = Data(Head(pending[s]).packet)
<1>1. pending[s] \in Seq(Messages) /\ pending \in [Signals -> Seq(Messages)]
    BY DEF StreamTypes
<1>2. Head(pending[s]) \in Messages /\ Tail(pending[s]) \in Seq(Messages)
    BY <1>1, HeadTailProperties
<1>3. \A m \in Messages : /\ m.kind = "event" => m \in Events
                          /\ m.kind = "data" => m.packet \in Packets /\ m = Data(m.packet)
    BY DEF Messages, Events, Data
<1> QED
    BY <1>1, <1>2, <1>3

(* A release takes what is owed and leaves nothing.                        *)
LEMMA ReadyAfterIs ==
    ASSUME NEW ready, IsFiniteSet(ready)
    PROVE  ReadyAfter(ready) \subseteq ready /\ IsFiniteSet(ReadyAfter(ready))
    BY FS_EmptySet DEF ReadyAfter

(* A release buffer and an event buffer hold no packet.                    *)
LEMMA LeftAfterRelease ==
    ASSUME NEW q \in Seq(Buffers), NEW x \in Buffers, x.type # "data", NEW pend, NEW onWire, NEW creators
    PROVE  Left(pend, Append(q, x), onWire, creators) = Left(pend, q, onWire, creators)
<1>1. ToSet(Append(q, x)) = ToSet(q) \cup {x}
  <2>1. /\ Len(q) \in Nat /\ DOMAIN q = 1 .. Len(q) /\ DOMAIN Append(q, x) = 1 .. Len(q) + 1
        /\ Append(q, x)[Len(q) + 1] = x /\ \A i \in 1 .. Len(q) : Append(q, x)[i] = q[i]
    <3>1. Append(q, x) \in Seq(Buffers) /\ Len(Append(q, x)) = Len(q) + 1
        BY AppendProperties
    <3> QED
        BY <3>1, AppendProperties, LenProperties
  <2>2. \A i \in 1 .. Len(q) + 1 : i \in 1 .. Len(q) \/ i = Len(q) + 1
      BY <2>1
  <2>3. Len(q) + 1 \in 1 .. Len(q) + 1 /\ \A i \in 1 .. Len(q) : i \in 1 .. Len(q) + 1
      BY <2>1
  <2> QED
      BY <2>1, <2>2, <2>3 DEF ToSet
<1>2. \A p : HeldDirectly(p, pend, Append(q, x), onWire, creators) <=> HeldDirectly(p, pend, q, onWire, creators)
    BY <1>1 DEF HeldDirectly, Refers
<1> QED
    BY <1>2 DEF Left

(* addDaqPacket of an event keeps the types.                               *)
LEMMA AddEventTypes ==
    ASSUME StreamTypes, GroupsOK(out), NEW s \in Signals, AddEventPacket(s)
    PROVE  StreamTypes' /\ GroupsOK(out')
           /\ Queued(out.queue, EventBuffer(s, Head(pending[s])), readyForRelease, out'.queue)
<1> DEFINE e == Head(pending[s])
           b == EventBuffer(s, e)
<1>1. /\ pending[s] # <<>> /\ e.kind = "event"
      /\ out' = CheckAndSendReleasePacket(QueuePacketBuffer(out, b), readyForRelease)
      /\ dataDescriptors' = IF e.value = Unchanged THEN dataDescriptors ELSE dataDescriptors \cup {s}
      /\ pending' = [pending EXCEPT ![s] = Tail(@)]
      /\ Destroy(pending', out'.queue, wire, kept, sent, ReadyAfter(readyForRelease))
      /\ UNCHANGED <<source, kept, descriptorOf, sends, wire, known, referencedPackets, waiting,
                     received, failed, delayed, flagLost>>
    BY DEF AddEventPacket, clientVars
<1>2. e \in Events /\ pending' \in [Signals -> Seq(Messages)]
    BY <1>1, FirstMessage
<1>3. b \in Buffers /\ b.group = 0 /\ Shaped(b)
    BY <1>2, BuffersMade
<1> HIDE DEF b
<1>4. /\ readyForRelease \subseteq Packets /\ IsFiniteSet(readyForRelease) /\ IsFiniteSet(sent)
      /\ readyForRelease \cap alive = {} /\ kept \subseteq alive /\ alive \subseteq Packets
      /\ sent \subseteq Packets /\ out.queue \in Seq(Buffers) /\ AllShaped(out.queue)
    BY DEF StreamTypes
<1>5. GroupsOK(out') /\ Queued(out.queue, b, readyForRelease, out'.queue)
    BY <1>1, <1>3, <1>4, QueueAndRelease
<1>6. out'.queue \in Seq(Buffers) /\ AllShaped(out'.queue)
    BY <1>3, <1>4, <1>5, QueuedTypes
<1>7. /\ ReadyAfter(readyForRelease) \subseteq readyForRelease /\ IsFiniteSet(ReadyAfter(readyForRelease))
    BY <1>4, ReadyAfterIs
<1>8. Left(pending', out'.queue, wire, kept) \subseteq alive
    BY <1>4, LeftIs
<1>9. /\ alive' \subseteq alive /\ kept \subseteq alive'
      /\ sent' \subseteq alive' /\ readyForRelease' \subseteq Packets \ alive'
      /\ IsFiniteSet(sent') /\ IsFiniteSet(readyForRelease')
  <2> DEFINE L == Left(pending', out'.queue, wire, kept)
             R == ReadyAfter(readyForRelease)
  <2>1. R \cap L = {} /\ R \subseteq Packets
      BY <1>4, <1>7, <1>8
  <2>2. Destroy(pending', out'.queue, wire, kept, sent, R)
      BY <1>1
  <2>3. IsFiniteSet(R)
      BY <1>7
  <2> HIDE DEF R
  <2> QED
      BY <1>4, <2>1, <2>2, <2>3, DestroyTypes, Zenon
<1>10. dataDescriptors' \subseteq Signals
    BY <1>1 DEF StreamTypes
<1>11. StreamTypes'
    BY <1>1, <1>2, <1>4, <1>6, <1>9, <1>10 DEF StreamTypes, AllShaped, WaitEntries
<1> QED
    BY <1>5, <1>11 DEF b

(* What addDaqPacket of a data packet does, in names.                      *)
Mark(s, moved) == moved /\ OnlyReference(s, Head(pending[s]).packet)
Added(s, moved) ==
    IF Head(pending[s]).packet \in sent
    THEN AlreadySentBuffer(s, Head(pending[s]).packet, Mark(s, moved))
    ELSE DataBuffer(s, Head(pending[s]).packet, Mark(s, moved))
SentNow(s, moved) == SentAfter(Head(pending[s]).packet, Mark(s, moved))
Gone(s, moved) ==
    IF moved
    THEN SentNow(s, moved) \ Left([pending EXCEPT ![s] = Tail(@)],
                                  QueuePacketBuffer(out, Added(s, moved)).queue, wire, kept)
    ELSE {}

(* addDaqPacket of a data packet keeps the types.                          *)
LEMMA AddDataTypes ==
    ASSUME StreamTypes, GroupsOK(out), NEW s \in Signals, NEW moved \in BOOLEAN, AddDataPacket(s, moved)
    PROVE  /\ StreamTypes' /\ GroupsOK(out')
           /\ Queued(out.queue, Added(s, moved), readyForRelease \cup Gone(s, moved), out'.queue)
           /\ Gone(s, moved) \subseteq SentNow(s, moved) /\ Gone(s, moved) \cap alive' = {}
           /\ sent' = (SentNow(s, moved) \ Gone(s, moved)) \cap alive'
           /\ readyForRelease' = ReadyAfter(readyForRelease \cup Gone(s, moved))
                                     \cup ((SentNow(s, moved) \ Gone(s, moved)) \ alive')
           /\ alive' = Left([pending EXCEPT ![s] = Tail(@)], out'.queue, wire, kept)
           /\ Head(pending[s]).packet \in Packets /\ Data(Head(pending[s]).packet) \in ToSet(pending[s])
<1> DEFINE p == Head(pending[s]).packet
           b == Added(s, moved)
           S == SentNow(s, moved)
           rest == [pending EXCEPT ![s] = Tail(@)]
           L == Left(rest, QueuePacketBuffer(out, b).queue, wire, kept)
           gone == Gone(s, moved)
           ready == readyForRelease \cup gone
<1>1. /\ pending[s] # <<>> /\ Head(pending[s]).kind = "data"
      /\ out' = CheckAndSendReleasePacket(QueuePacketBuffer(out, b), ready)
      /\ pending' = rest
      /\ Destroy(rest, out'.queue, wire, kept, S \ gone, ReadyAfter(ready))
      /\ UNCHANGED <<source, kept, descriptorOf, sends, dataDescriptors, wire, known, referencedPackets, waiting,
                     received, failed, delayed, flagLost>>
    BY DEF AddDataPacket, clientVars, Mark, Added, SentNow, Gone
<1>2. p \in Packets /\ rest \in [Signals -> Seq(Messages)] /\ Head(pending[s]) = Data(p)
    BY <1>1, FirstMessage
<1>3. Data(p) \in ToSet(pending[s])
  <2>1. pending[s] \in Seq(Messages) /\ pending[s] # <<>>
      BY <1>1 DEF StreamTypes
  <2>2. Len(pending[s]) \in Nat \ {0} /\ DOMAIN pending[s] = 1 .. Len(pending[s])
      BY <2>1, EmptySeq, LenProperties
  <2>3. 1 \in DOMAIN pending[s] /\ pending[s][1] = Data(p)
      BY <1>2, <2>1, <2>2
  <2> QED
      BY <2>3 DEF ToSet
<1>4. Mark(s, moved) \in BOOLEAN
    BY DEF Mark, OnlyReference, HeldDirectly
<1>5. b \in Buffers /\ b.group = 0 /\ Shaped(b)
    BY <1>2, <1>4, BuffersMade DEF Added
<1>6. /\ readyForRelease \subseteq Packets /\ IsFiniteSet(readyForRelease) /\ IsFiniteSet(sent)
      /\ readyForRelease \cap alive = {} /\ kept \subseteq alive /\ alive \subseteq Packets
      /\ sent \subseteq Packets /\ out.queue \in Seq(Buffers) /\ AllShaped(out.queue)
    BY DEF StreamTypes
<1>7. IsFiniteSet(S) /\ S \subseteq Packets
  <2>1. IsFiniteSet(sent \ {p}) /\ IsFiniteSet(sent \cup {p})
      BY <1>6, FS_RemoveElement, FS_AddElement
  <2> QED
      BY <1>2, <1>6, <2>1 DEF SentNow, SentAfter
<1>8. gone \subseteq S /\ gone \cap L = {} /\ IsFiniteSet(gone)
  <2>1. IsFiniteSet(S \ L)
      BY <1>7, FS_Difference
  <2> QED
      BY <2>1, FS_EmptySet DEF Gone
<1> HIDE DEF b, S, L, gone
<1>9. ready \subseteq Packets /\ IsFiniteSet(ready)
    BY <1>6, <1>7, <1>8, FS_Union
<1> HIDE DEF ready
<1>10. GroupsOK(out') /\ Queued(out.queue, b, ready, out'.queue)
    BY <1>1, <1>5, <1>6, <1>9, QueueAndRelease
<1>11. out'.queue \in Seq(Buffers) /\ AllShaped(out'.queue)
    BY <1>5, <1>6, <1>9, <1>10, QueuedTypes
<1>12. Left(rest, out'.queue, wire, kept) = L
  <2> DEFINE m == QueuePacketBuffer(out, b)
  <2>1. GroupsOK(m)
      BY <1>5, QueueGroups
  <2>2. L = Left(rest, m.queue, wire, kept)
      BY DEF L, b
  <2> HIDE DEF m
  <2>3. CASE ReleaseDue(ready)
    <3> DEFINE d == ReleaseBuffer(ready)
               r == QueuePacketBuffer(m, d)
    <3>1. d \in Buffers /\ d.group = 0 /\ d.type = "release"
        BY <1>9, ReleaseMade
    <3> HIDE DEF d
    <3>2. PICK x \in Buffers : r.queue = Append(m.queue, x) /\ SameButGroup(x, d)
        BY <2>1, <3>1, QueueGroups
    <3>3. out' = r
        BY <1>1, <2>3 DEF CheckAndSendReleasePacket, d, m
    <3>4. x.type # "data" /\ m.queue \in Seq(Buffers)
        BY <2>1, <3>1, <3>2 DEF SameButGroup, GroupsOK
    <3> HIDE DEF r, rest
    <3>5. Left(rest, Append(m.queue, x), wire, kept) = Left(rest, m.queue, wire, kept)
        BY <3>2, <3>4, LeftAfterRelease
    <3> QED
        BY <2>2, <3>2, <3>3, <3>5
  <2>4. CASE ~ReleaseDue(ready)
    <3>1. out' = m
        BY <1>1, <2>4 DEF CheckAndSendReleasePacket, m
    <3> QED
        BY <2>2, <3>1
  <2> QED
      BY <2>3, <2>4
<1>13. ReadyAfter(ready) \subseteq ready /\ IsFiniteSet(ReadyAfter(ready))
    BY <1>9, ReadyAfterIs
<1>14. L \subseteq alive
    BY <1>6, LeftIs DEF L
<1>15. IsFiniteSet(S \ gone) /\ S \ gone \subseteq Packets
    BY <1>7, FS_Difference
<1>16. /\ alive' = Left(rest, out'.queue, wire, kept) /\ alive' \subseteq alive
       /\ kept \subseteq alive'
       /\ sent' \subseteq alive' /\ readyForRelease' \subseteq Packets \ alive'
       /\ IsFiniteSet(sent') /\ IsFiniteSet(readyForRelease')
       /\ sent' = (S \ gone) \cap alive' /\ readyForRelease' = ReadyAfter(ready) \cup ((S \ gone) \ alive')
  <2> DEFINE R == ReadyAfter(ready)
             T == S \ gone
             lft == Left(rest, out'.queue, wire, kept)
  <2>1. R \cap lft = {} /\ R \subseteq Packets
      BY <1>6, <1>8, <1>9, <1>12, <1>13, <1>14 DEF ready
  <2>2. Destroy(rest, out'.queue, wire, kept, T, R)
      BY <1>1
  <2>3. IsFiniteSet(R) /\ IsFiniteSet(T) /\ T \subseteq Packets
      BY <1>13, <1>15
  <2> HIDE DEF R, T, rest
  <2>4. /\ alive' = Left(rest, out'.queue, wire, kept) /\ alive' \subseteq alive
        /\ kept \subseteq alive'
        /\ sent' \subseteq alive' /\ readyForRelease' \subseteq Packets \ alive'
        /\ IsFiniteSet(sent') /\ IsFiniteSet(readyForRelease')
        /\ sent' = T \cap alive' /\ readyForRelease' = R \cup (T \ alive')
      BY <1>6, <2>1, <2>2, <2>3, DestroyTypes, Zenon
  <2> QED
      BY <2>4 DEF R, T
<1>17. StreamTypes'
    BY <1>1, <1>2, <1>6, <1>11, <1>16 DEF StreamTypes, AllShaped, WaitEntries
<1>18. gone \cap alive' = {}
    BY <1>8, <1>12, <1>16
<1> HIDE DEF p
<1> QED
    BY <1>2, <1>3, <1>8, <1>10, <1>16, <1>17, <1>18 DEF b, S, gone, ready, p

(* What is under way does not change when a task is taken.                 *)
LEMMA TakeTypes ==
    ASSUME StreamTypes, GroupsOK(out), GetStreamingWriteTask
    PROVE  /\ StreamTypes' /\ GroupsOK(out') /\ Underway' = Underway
           /\ alive' \subseteq alive /\ sent' \cup readyForRelease' = sent \cup readyForRelease
           /\ sent' = sent \cap alive' /\ alive' = Left(pending, out'.queue, wire', kept)
<1> DEFINE q == out.queue
           n == Task(out)
           a == SubSeq(q, 1, n)
           c == SubSeq(q, n + 1, Len(q))
<1>1. /\ out' = AfterTask(out) /\ wire' = wire \o a /\ q # <<>>
      /\ Destroy(pending, out'.queue, wire', kept, sent, readyForRelease)
      /\ UNCHANGED <<pending, source, kept, descriptorOf, sends, dataDescriptors, known, referencedPackets, waiting,
                     received, failed, delayed, flagLost>>
    BY DEF GetStreamingWriteTask, TaskLength, Task, AfterTask, clientVars, sourceVars
<1>2. n \in 1 .. Len(q) /\ GroupsOK(out') /\ out'.queue = c
    BY <1>1, TaskGroups
<1>3. /\ q \in Seq(Buffers) /\ AllShaped(q) /\ wire \in Seq(Buffers) /\ AllShaped(wire)
      /\ readyForRelease \subseteq Packets /\ IsFiniteSet(readyForRelease) /\ IsFiniteSet(sent)
      /\ readyForRelease \cap alive = {} /\ kept \subseteq alive /\ alive \subseteq Packets /\ sent \subseteq Packets
    BY DEF StreamTypes
<1>4. Len(q) \in Nat /\ DOMAIN q = 1 .. Len(q) /\ Len(wire) \in Nat /\ DOMAIN wire = 1 .. Len(wire)
    BY <1>3, LenProperties
<1> HIDE DEF n
<1>5. /\ a \in Seq(Buffers) /\ Len(a) = n /\ \A i \in 1 .. n : a[i] = q[i]
      /\ c \in Seq(Buffers) /\ Len(c) = Len(q) - n /\ \A i \in 1 .. Len(q) - n : c[i] = q[n + i]
  <2>1. n \in 0 .. Len(q)
      BY <1>2, <1>4
  <2> QED
      BY <1>3, <2>1, CutSeq
<1>6. a \o c = q
  <2>1. 1 \in 1 .. Len(q) + 1 /\ n \in 1 - 1 .. Len(q) /\ Len(q) \in n .. Len(q)
      BY <1>2, <1>4
  <2>2. a \o c = SubSeq(q, 1, Len(q))
      BY <1>3, <2>1, ConcatAdjacentSubSeq
  <2> QED
      BY <1>3, <2>2, SubSeqFull
<1> HIDE DEF a, c, q
<1>7. (wire \o a) \o c = wire \o q
  <2>0. wire \in Seq(Buffers) /\ a \in Seq(Buffers) /\ c \in Seq(Buffers)
      BY <1>3, <1>5
  <2>1. (wire \o a) \o c = wire \o (a \o c)
      BY ONLY SMTT(40), <2>0, ConcatAssociative
  <2> QED
      BY <1>6, <2>1
<1>8. Underway' = Underway
    BY <1>1, <1>2, <1>7 DEF Underway, q
<1>9. wire \o a \in Seq(Buffers) /\ AllShaped(wire \o a) /\ AllShaped(c)
  <2>1. /\ wire \o a \in Seq(Buffers) /\ Len(wire \o a) = Len(wire) + n
        /\ \A i \in 1 .. Len(wire) + n : (wire \o a)[i] = IF i <= Len(wire) THEN wire[i] ELSE a[i - Len(wire)]
    <3>1. /\ wire \o a \in Seq(Buffers) /\ Len(wire \o a) = Len(wire) + Len(a)
          /\ \A i \in 1 .. Len(wire) + Len(a) :
                 (wire \o a)[i] = IF i <= Len(wire) THEN wire[i] ELSE a[i - Len(wire)]
        BY ZenonT(40), <1>3, <1>5, ConcatProperties
    <3> QED
        BY <1>5, <3>1
  <2> DEFINE w == wire \o a
  <2> HIDE DEF w
  <2>2. DOMAIN w = 1 .. Len(wire) + n /\ DOMAIN c = 1 .. Len(q) - n
      BY <1>5, <2>1, LenProperties DEF w
  <2>3. \A i \in 1 .. n : i \in DOMAIN q
      BY <1>2, <1>4
  <2>4. \A i \in 1 .. Len(q) - n : n + i \in DOMAIN q
      BY <1>2, <1>4
  <2>5. ASSUME NEW i \in 1 .. Len(wire) + n
        PROVE  Shaped(w[i])
    <3>1. CASE i <= Len(wire)
        BY <1>3, <1>4, <2>1, <3>1 DEF AllShaped, w
    <3>2. CASE ~(i <= Len(wire))
      <4>1. i - Len(wire) \in 1 .. n
          BY <1>2, <1>4, <3>2
      <4> QED
          BY <1>3, <1>5, <2>1, <2>3, <3>2, <4>1 DEF AllShaped, w
    <3> QED
        BY <3>1, <3>2
  <2>6. AllShaped(c)
      BY <1>3, <1>5, <2>2, <2>4 DEF AllShaped
  <2> QED
      BY <2>1, <2>2, <2>5, <2>6 DEF AllShaped, w
<1>10. /\ alive' \subseteq alive /\ kept \subseteq alive'
       /\ sent' \subseteq alive' /\ readyForRelease' \subseteq Packets \ alive'
       /\ IsFiniteSet(sent') /\ IsFiniteSet(readyForRelease')
       /\ sent' = sent \cap alive' /\ readyForRelease' = readyForRelease \cup (sent \ alive')
       /\ alive' = Left(pending, out'.queue, wire', kept)
  <2>1. Left(pending, out'.queue, wire', kept) \subseteq alive
      BY <1>3, LeftIs, Zenon
  <2>2. readyForRelease \cap Left(pending, out'.queue, wire', kept) = {}
      BY <1>3, <2>1
  <2>3. Destroy(pending, out'.queue, wire', kept, sent, readyForRelease)
      BY <1>1
  <2> DEFINE r == out'.queue
             w == wire'
  <2> HIDE DEF r, w
  <2>4. Destroy(pending, r, w, kept, sent, readyForRelease) /\ readyForRelease \cap Left(pending, r, w, kept) = {}
      BY <2>2, <2>3 DEF r, w
  <2>5. /\ alive' \subseteq alive /\ kept \subseteq alive'
        /\ sent' \subseteq alive' /\ readyForRelease' \subseteq Packets \ alive'
        /\ IsFiniteSet(sent') /\ IsFiniteSet(readyForRelease')
        /\ sent' = sent \cap alive' /\ readyForRelease' = readyForRelease \cup (sent \ alive')
        /\ alive' = Left(pending, r, w, kept)
      BY <1>3, <2>4, DestroyTypes
  <2> QED
      BY <2>5 DEF r, w
<1>11. StreamTypes'
  <2>1. out'.queue \in Seq(Buffers) /\ AllShaped(out'.queue) /\ wire' \in Seq(Buffers) /\ AllShaped(wire')
      BY <1>1, <1>2, <1>5, <1>9
  <2> QED
      BY <1>1, <1>3, <1>10, <2>1 DEF StreamTypes, AllShaped, WaitEntries
<1>12. sent' \cup readyForRelease' = sent \cup readyForRelease
    BY <1>10
<1> QED
    BY <1>2, <1>8, <1>10, <1>11, <1>12

--------------------------------------------------------------------------------
(***************************************************************************)
(* Steps of the client and of the signals keep the types.                  *)
(***************************************************************************)
ClientTypes ==
    /\ known \in [Signals -> [value : Told, domain : Told]]
    /\ DOMAIN referencedPackets \subseteq Packets
    /\ waiting \in [Packets -> Seq(WaitEntries)]
    /\ \A d \in Packets : \A i \in DOMAIN waiting[d] : DomainOf[waiting[d][i].packet] = d

(* The packets that have waited are packets.                               *)
LEMMA WaitingTypes ==
    ASSUME ClientTypes, NEW d \in Packets
    PROVE  /\ waiting[d] \in Seq(WaitEntries) /\ Len(waiting[d]) \in Nat /\ DOMAIN waiting[d] = 1 .. Len(waiting[d])
           /\ \A i \in DOMAIN waiting[d] :
                 /\ waiting[d][i] \in WaitEntries /\ waiting[d][i].packet \in Packets
                 /\ waiting[d][i].signal \in Signals /\ waiting[d][i].canRelease \in BOOLEAN
                 /\ waiting[d][i].more \in Seq(Signals)
<1>1. waiting[d] \in Seq(WaitEntries)
    BY DEF ClientTypes
<1>2. Len(waiting[d]) \in Nat /\ DOMAIN waiting[d] = 1 .. Len(waiting[d])
    BY <1>1, LenProperties
<1>3. \A i \in DOMAIN waiting[d] : waiting[d][i] \in WaitEntries
    BY <1>1, <1>2, ElementOfSeq
<1>4. \A w \in WaitEntries : w.packet \in Packets /\ w.signal \in Signals /\ w.canRelease \in BOOLEAN /\ w.more \in Seq(Signals)
    BY DEF WaitEntries
<1> QED
    BY <1>1, <1>2, <1>3, <1>4

(* addEventPacketBuffer.                                                   *)
LEMMA EventClient ==
    ASSUME ClientTypes, NEW b \in Buffers, Shaped(b), AddEventPacketBuffer(b)
    PROVE  ClientTypes'
<1>1. b.signal \in Signals /\ b.event.value \in Told /\ b.event.domain \in Told
    BY DEF AddEventPacketBuffer, Shaped, Buffers, Told
<1>2. known' \in [Signals -> [value : Told, domain : Told]]
  <2>1. known[b.signal] \in [value : Told, domain : Told]
      BY <1>1 DEF ClientTypes
  <2> QED
      BY <1>1, <2>1 DEF AddEventPacketBuffer, ClientTypes
<1>3. UNCHANGED <<referencedPackets, waiting>>
    BY DEF AddEventPacketBuffer
<1> QED
    BY <1>2, <1>3 DEF ClientTypes, WaitEntries

(* A buffer put at the end of those that wait for d.                       *)
LEMMA WaitLonger ==
    ASSUME ClientTypes, NEW d \in Packets, NEW w \in WaitEntries, DomainOf[w.packet] = d,
           UNCHANGED <<known, referencedPackets>>,
           waiting' = [waiting EXCEPT ![d] = Append(@, w)]
    PROVE  ClientTypes'
<1>1. waiting \in [Packets -> Seq(WaitEntries)]
    BY DEF ClientTypes
<1>2. waiting[d] \in Seq(WaitEntries) /\ Len(waiting[d]) \in Nat /\ DOMAIN waiting[d] = 1 .. Len(waiting[d])
    BY WaitingTypes
<1> DEFINE a == Append(waiting[d], w)
<1>3. /\ a \in Seq(WaitEntries) /\ Len(a) = Len(waiting[d]) + 1 /\ a[Len(waiting[d]) + 1] = w
      /\ \A i \in 1 .. Len(waiting[d]) : a[i] = waiting[d][i]
    BY <1>2, AppendProperties
<1>4. DOMAIN a = 1 .. Len(waiting[d]) + 1
    BY <1>3, LenProperties
<1>5. waiting' = [waiting EXCEPT ![d] = a]
    OBVIOUS
<1> HIDE DEF a
<1>6. waiting' \in [Packets -> Seq(WaitEntries)]
    BY <1>1, <1>3, <1>5
<1>7. \A i \in DOMAIN a : DomainOf[a[i].packet] = d
  <2>1. \A i \in 1 .. Len(waiting[d]) + 1 : i \in 1 .. Len(waiting[d]) \/ i = Len(waiting[d]) + 1
      BY <1>2
  <2>2. \A i \in 1 .. Len(waiting[d]) : DomainOf[waiting[d][i].packet] = d
      BY <1>2 DEF ClientTypes
  <2> QED
      BY <1>3, <1>4, <2>1, <2>2
<1>8. ASSUME NEW e \in Packets, NEW i \in DOMAIN waiting'[e]
      PROVE  DomainOf[waiting'[e][i].packet] = e
  <2>1. CASE e = d
      BY <1>1, <1>5, <1>7, <1>8, <2>1
  <2>2. CASE e # d
      BY <1>1, <1>5, <1>8, <2>2 DEF ClientTypes
  <2> QED
      BY <2>1, <2>2
<1>9. UNCHANGED <<known, referencedPackets>>
    OBVIOUS
<1> QED
    BY <1>6, <1>8, <1>9 DEF ClientTypes

(* Nothing waits any more for d.                                           *)
LEMMA WaitNoLonger ==
    ASSUME ClientTypes, NEW d \in Packets, UNCHANGED known,
           DOMAIN referencedPackets' \subseteq Packets,
           waiting' = [waiting EXCEPT ![d] = <<>>]
    PROVE  ClientTypes'
<1>1. waiting \in [Packets -> Seq(WaitEntries)] /\ <<>> \in Seq(WaitEntries) /\ DOMAIN <<>> = {}
    BY EmptySeq DEF ClientTypes
<1>2. waiting' \in [Packets -> Seq(WaitEntries)]
    BY <1>1
<1>3. ASSUME NEW e \in Packets, NEW i \in DOMAIN waiting'[e]
      PROVE  DomainOf[waiting'[e][i].packet] = e
  <2>1. CASE e = d
      BY <1>1, <1>3, <2>1
  <2>2. CASE e # d
      BY <1>1, <1>3, <2>2 DEF ClientTypes
  <2> QED
      BY <2>1, <2>2
<1>4. UNCHANGED known
    OBVIOUS
<1> QED
    BY <1>2, <1>3, <1>4 DEF ClientTypes

(* The packets remembered after those that have waited for d.              *)
LEMMA RememberedAre ==
    ASSUME ClientTypes, NEW b \in Buffers, b.packet \in Packets, NEW desc
    PROVE  DOMAIN Remember(RememberWoken(referencedPackets, waiting[b.packet]), b.packet, desc, b.canRelease) =
               DOMAIN referencedPackets
                   \cup {waiting[b.packet][i].packet : i \in {k \in DOMAIN waiting[b.packet] :
                                                                  ~waiting[b.packet][k].canRelease}}
                   \cup (IF b.canRelease THEN {} ELSE {b.packet})
    BY DEF Remember, RememberWoken

(* addDataPacketBuffer.                                                    *)
LEMMA DataClient ==
    ASSUME ClientTypes, NEW b \in Buffers, Shaped(b), AddDataPacketBuffer(b)
    PROVE  ClientTypes'
<1>1. b.packet \in Packets /\ b.signal \in Signals /\ b.canRelease \in BOOLEAN
    BY DEF AddDataPacketBuffer, Shaped, Buffers
<1>2. UNCHANGED known
    BY DEF AddDataPacketBuffer
<1>3. CASE Waits(b) /\ UNCHANGED referencedPackets /\ waiting' = [waiting EXCEPT ![DomainOf[b.packet]] = Append(@, Wait(b))]
  <2>1. DomainOf[b.packet] \in Packets
      BY <1>1, <1>3, PacketStreamingAssumption DEF Waits
  <2>2. Wait(b) \in WaitEntries /\ Wait(b).packet = b.packet
      BY <1>1 DEF Wait, WaitEntries
  <2> QED
      BY <1>2, <1>3, <2>1, <2>2, WaitLonger
<1>4. CASE UNCHANGED <<referencedPackets, waiting>>
    BY <1>2, <1>4 DEF ClientTypes
<1>5. CASE ProcessData(b)
  <2>1. waiting' = [waiting EXCEPT ![b.packet] = <<>>]
      BY <1>5 DEF ProcessData
  <2>2. DOMAIN referencedPackets' \subseteq Packets
    <3>1. \A i \in DOMAIN waiting[b.packet] : waiting[b.packet][i].packet \in Packets
        BY <1>1, WaitingTypes
    <3>2. DOMAIN referencedPackets' = DOMAIN referencedPackets
                   \cup {waiting[b.packet][i].packet : i \in {k \in DOMAIN waiting[b.packet] :
                                                                  ~waiting[b.packet][k].canRelease}}
                   \cup (IF b.canRelease THEN {} ELSE {b.packet})
        BY <1>1, <1>5, RememberedAre DEF ProcessData
    <3> QED
        BY <1>1, <3>1, <3>2 DEF ClientTypes
  <2> QED
      BY <1>1, <1>2, <2>1, <2>2, WaitNoLonger
<1> QED
    BY <1>3, <1>4, <1>5 DEF AddDataPacketBuffer, Throw

(* addReleasePacketBuffer.                                                 *)
LEMMA ReleaseClient ==
    ASSUME ClientTypes, NEW b \in Buffers, Shaped(b), AddReleasePacketBuffer(b)
    PROVE  ClientTypes'
<1>1. UNCHANGED known
    BY DEF AddReleasePacketBuffer
<1>2. CASE UNCHANGED <<referencedPackets, waiting>>
    BY <1>1, <1>2 DEF ClientTypes
<1>3. CASE /\ referencedPackets' = Forget(referencedPackets, b.ids)
           /\ waiting' = [d \in Packets |-> [i \in DOMAIN waiting[d] |->
                   IF waiting[d][i].packet \in b.ids \ DOMAIN referencedPackets
                   THEN [waiting[d][i] EXCEPT !.canRelease = ~@] ELSE waiting[d][i]]]
  <2>1. DOMAIN referencedPackets' \subseteq Packets
      BY <1>3 DEF Forget, ClientTypes
  <2>2. ASSUME NEW d \in Packets
        PROVE  /\ waiting'[d] \in Seq(WaitEntries) /\ DOMAIN waiting'[d] = DOMAIN waiting[d]
               /\ \A i \in DOMAIN waiting[d] : waiting'[d][i].packet = waiting[d][i].packet
    <3> DEFINE n == Len(waiting[d])
               e(i) == IF waiting[d][i].packet \in b.ids \ DOMAIN referencedPackets
                       THEN [waiting[d][i] EXCEPT !.canRelease = ~@] ELSE waiting[d][i]
    <3>1. /\ n \in Nat /\ DOMAIN waiting[d] = 1 .. n
          /\ \A i \in 1 .. n : waiting[d][i] \in WaitEntries
        BY WaitingTypes
    <3>2. \A i \in 1 .. n : e(i) \in WaitEntries /\ e(i).packet = waiting[d][i].packet
        BY <3>1 DEF WaitEntries
    <3>3. waiting'[d] = [i \in 1 .. n |-> e(i)]
        BY <1>3, <3>1
    <3> HIDE DEF n, e
    <3>4. waiting'[d] \in Seq(WaitEntries)
        BY <3>1, <3>2, <3>3
    <3> QED
        BY <3>1, <3>2, <3>3, <3>4
  <2>3. waiting' \in [Packets -> Seq(WaitEntries)]
      BY <1>3, <2>2
  <2>4. \A d \in Packets : \A i \in DOMAIN waiting'[d] : DomainOf[waiting'[d][i].packet] = d
      BY <2>2 DEF ClientTypes
  <2> QED
      BY <1>1, <2>1, <2>3, <2>4 DEF ClientTypes
<1> QED
    BY <1>2, <1>3 DEF AddReleasePacketBuffer, Throw

(* addAlreadySentPacketBuffer of a packet that waits: which buffer gets    *)
(* one more signal.                                                        *)
LEMMA WaitingMore ==
    ASSUME ClientTypes, NEW b \in Buffers, Shaped(b), b.type = "alreadySent", Found(b), AlreadySentWaiting(b)
    PROVE  \E d \in Packets : \E i \in DOMAIN waiting[d] :
               /\ d = DomainOf[b.packet] /\ waiting[d][i].packet = b.packet
               /\ waiting' = [waiting EXCEPT ![d] = [waiting[d] EXCEPT ![i] =
                      [waiting[d][i] EXCEPT !.more = Append(waiting[d][i].more, b.signal)]]]
<1> DEFINE d == DomainOf[b.packet]
           i == FirstOf(waiting[d], b.packet)
<1>1. b.packet \in Packets /\ b.signal \in Signals
    BY DEF Shaped
<1>2. b.packet \notin DOMAIN referencedPackets
    BY DEF AlreadySentWaiting
<1>3. d # NoPacket /\ b.packet \in WaitingFor(d)
    BY <1>2 DEF Found
<1>4. d \in Packets
    BY <1>1, <1>3, PacketStreamingAssumption
<1>5. waiting[d] \in Seq(WaitEntries) /\ DOMAIN waiting[d] = 1 .. Len(waiting[d])
    BY <1>4, WaitingTypes
<1>6. \E k \in DOMAIN waiting[d] : waiting[d][k].packet = b.packet
    BY <1>3 DEF WaitingFor
<1>7. i \in DOMAIN waiting[d] /\ waiting[d][i].packet = b.packet
    BY <1>5, <1>6, FirstOfIs
<1>8. waiting' = [waiting EXCEPT ![d] = [waiting[d] EXCEPT ![i] =
                      [waiting[d][i] EXCEPT !.more = Append(waiting[d][i].more, b.signal)]]]
    BY DEF AlreadySentWaiting
<1> HIDE DEF i
<1> QED
    BY <1>4, <1>7, <1>8

(* addAlreadySentPacketBuffer.                                             *)
LEMMA AlreadySentClient ==
    ASSUME ClientTypes, NEW b \in Buffers, Shaped(b), AddAlreadySentPacketBuffer(b)
    PROVE  ClientTypes'
<1>1. UNCHANGED known /\ b.type = "alreadySent" /\ b.packet \in Packets /\ b.signal \in Signals
    BY DEF AddAlreadySentPacketBuffer, Shaped
<1>2. CASE UNCHANGED <<referencedPackets, waiting>>
    BY <1>1, <1>2 DEF ClientTypes
<1>3. CASE AlreadySentReferenced(b)
    BY <1>1, <1>3 DEF AlreadySentReferenced, Forget, ClientTypes
<1>4. CASE Found(b) /\ AlreadySentWaiting(b)
  <2>1. PICK d \in Packets : \E i \in DOMAIN waiting[d] :
               /\ d = DomainOf[b.packet] /\ waiting[d][i].packet = b.packet
               /\ waiting' = [waiting EXCEPT ![d] = [waiting[d] EXCEPT ![i] =
                      [waiting[d][i] EXCEPT !.more = Append(waiting[d][i].more, b.signal)]]]
      BY <1>1, <1>4, WaitingMore
  <2>2. PICK i \in DOMAIN waiting[d] :
               /\ d = DomainOf[b.packet] /\ waiting[d][i].packet = b.packet
               /\ waiting' = [waiting EXCEPT ![d] = [waiting[d] EXCEPT ![i] =
                      [waiting[d][i] EXCEPT !.more = Append(waiting[d][i].more, b.signal)]]]
      BY <2>1
  <2>3. /\ waiting[d] \in Seq(WaitEntries) /\ DOMAIN waiting[d] = 1 .. Len(waiting[d])
        /\ waiting[d][i] \in WaitEntries /\ waiting[d][i].more \in Seq(Signals)
      BY WaitingTypes
  <2> DEFINE m == Append(waiting[d][i].more, b.signal)
             w == [waiting[d][i] EXCEPT !.more = m]
             a == [waiting[d] EXCEPT ![i] = w]
  <2>4. m \in Seq(Signals)
      BY <1>1, <2>3, AppendProperties
  <2>5. w \in WaitEntries /\ w.packet = waiting[d][i].packet
    <3> HIDE DEF m
    <3> QED
        BY <2>3, <2>4 DEF WaitEntries
  <2>6. waiting' = [waiting EXCEPT ![d] = a]
      BY <2>2
  <2> HIDE DEF w
  <2>7. a \in Seq(WaitEntries) /\ DOMAIN a = DOMAIN waiting[d]
      BY <2>3, <2>5, ExceptSeq
  <2>8. \A k \in DOMAIN waiting[d] : a[k].packet = waiting[d][k].packet
      BY <2>3, <2>5
  <2> HIDE DEF a
  <2>9. waiting \in [Packets -> Seq(WaitEntries)]
      BY DEF ClientTypes
  <2>10. waiting' \in [Packets -> Seq(WaitEntries)]
      BY <2>6, <2>7, <2>9
  <2>11. ASSUME NEW e \in Packets, NEW k \in DOMAIN waiting'[e]
         PROVE  DomainOf[waiting'[e][k].packet] = e
    <3>1. CASE e = d
        BY <2>6, <2>7, <2>8, <2>9, <2>11, <3>1 DEF ClientTypes
    <3>2. CASE e # d
        BY <2>6, <2>9, <2>11, <3>2 DEF ClientTypes
    <3> QED
        BY <3>1, <3>2
  <2>12. UNCHANGED referencedPackets
      BY <1>4 DEF AlreadySentWaiting
  <2> QED
      BY <1>1, <2>10, <2>11, <2>12 DEF ClientTypes
<1> QED
    BY <1>2, <1>3, <1>4 DEF AddAlreadySentPacketBuffer, Throw

(* The buffer at the head of the wire.                                     *)
LEMMA HeadOfWire ==
    ASSUME StreamTypes, wire # <<>>
    PROVE  /\ Head(wire) \in Buffers /\ Shaped(Head(wire)) /\ Head(wire) = wire[1]
           /\ Tail(wire) \in Seq(Buffers) /\ AllShaped(Tail(wire))
<1>1. wire \in Seq(Buffers) /\ AllShaped(wire)
    BY DEF StreamTypes
<1>2. Len(wire) \in Nat \ {0} /\ DOMAIN wire = 1 .. Len(wire)
    BY <1>1, EmptySeq, LenProperties
<1>3. /\ Head(wire) \in Buffers /\ Tail(wire) \in Seq(Buffers) /\ Len(Tail(wire)) = Len(wire) - 1
      /\ \A i \in 1 .. Len(Tail(wire)) : Tail(wire)[i] = wire[i + 1]
    BY <1>1, HeadTailProperties
<1>4. DOMAIN Tail(wire) = 1 .. Len(wire) - 1
    BY <1>3, LenProperties
<1>5. Head(wire) = wire[1] /\ 1 \in DOMAIN wire
    BY <1>1, <1>2
<1>6. \A i \in 1 .. Len(wire) - 1 : Tail(wire)[i] = wire[i + 1] /\ i + 1 \in DOMAIN wire
    BY <1>2, <1>3
<1> QED
    BY <1>1, <1>3, <1>4, <1>5, <1>6 DEF AllShaped

(* Packets destroyed by a step that adds none to what was sent.            *)
LEMMA DestroySame ==
    ASSUME StreamTypes, NEW creators, creators \subseteq kept, NEW pend, NEW queue, NEW onWire,
           Destroy(pend, queue, onWire, creators, sent, readyForRelease)
    PROVE  /\ alive' \subseteq alive /\ creators \subseteq alive' /\ alive' \subseteq Packets
           /\ sent' \subseteq alive' /\ readyForRelease' \subseteq Packets \ alive'
           /\ IsFiniteSet(sent') /\ IsFiniteSet(readyForRelease')
           /\ sent' \cup readyForRelease' = sent \cup readyForRelease
           /\ sent' = sent \cap alive' /\ alive' = Left(pend, queue, onWire, creators)
<1>1. /\ readyForRelease \subseteq Packets /\ IsFiniteSet(readyForRelease) /\ IsFiniteSet(sent)
      /\ readyForRelease \cap alive = {} /\ creators \subseteq alive /\ alive \subseteq Packets /\ sent \subseteq Packets
    BY DEF StreamTypes
<1>2. Left(pend, queue, onWire, creators) \subseteq alive
    BY <1>1, LeftIs
<1>3. readyForRelease \cap Left(pend, queue, onWire, creators) = {}
    BY <1>1, <1>2
<1>4. /\ alive' \subseteq alive /\ creators \subseteq alive'
      /\ sent' \subseteq alive' /\ readyForRelease' \subseteq Packets \ alive'
      /\ IsFiniteSet(sent') /\ IsFiniteSet(readyForRelease')
      /\ sent' = sent \cap alive' /\ readyForRelease' = readyForRelease \cup (sent \ alive')
      /\ alive' = Left(pend, queue, onWire, creators)
    BY <1>1, <1>3, DestroyTypes
<1> QED
    BY <1>1, <1>4

(* addPacketBuffer keeps the types.                                        *)
LEMMA ClientStepTypes ==
    ASSUME StreamTypes, AddPacketBuffer
    PROVE  /\ StreamTypes' /\ out' = out /\ wire' = Tail(wire)
           /\ alive' \subseteq alive /\ sent' \cup readyForRelease' = sent \cup readyForRelease
           /\ sent' = sent \cap alive' /\ alive' = Left(pending, out.queue, wire', kept)
<1>1. /\ wire # <<>> /\ wire' = Tail(wire)
      /\ Destroy(pending, out.queue, wire', kept, sent, readyForRelease)
      /\ UNCHANGED <<pending, source, kept, descriptorOf, sends, out, dataDescriptors, addedTo>>
    BY DEF AddPacketBuffer, sourceVars, serverVars
<1>2. /\ Head(wire) \in Buffers /\ Shaped(Head(wire))
      /\ Tail(wire) \in Seq(Buffers) /\ AllShaped(Tail(wire))
    BY <1>1, HeadOfWire
<1>3. ClientTypes
    BY DEF StreamTypes, ClientTypes
<1>4. ClientTypes'
  <2> DEFINE b == Head(wire)
  <2>1. \/ AddEventPacketBuffer(b) \/ AddDataPacketBuffer(b)
        \/ AddReleasePacketBuffer(b) \/ AddAlreadySentPacketBuffer(b)
      BY DEF AddPacketBuffer
  <2> HIDE DEF b
  <2>2. b \in Buffers /\ Shaped(b)
      BY <1>2 DEF b
  <2> QED
      BY <1>3, <2>1, <2>2, EventClient, DataClient, ReleaseClient, AlreadySentClient
<1>5. /\ alive' \subseteq alive /\ kept \subseteq alive' /\ alive' \subseteq Packets
      /\ sent' \subseteq alive' /\ readyForRelease' \subseteq Packets \ alive'
      /\ IsFiniteSet(sent') /\ IsFiniteSet(readyForRelease')
      /\ sent' \cup readyForRelease' = sent \cup readyForRelease
      /\ sent' = sent \cap alive' /\ alive' = Left(pending, out.queue, wire', kept)
  <2> DEFINE w == wire'
  <2> HIDE DEF w
  <2>1. Destroy(pending, out.queue, w, kept, sent, readyForRelease)
      BY <1>1 DEF w
  <2> QED
      BY <2>1, DestroySame DEF w
<1>6. StreamTypes'
    BY <1>1, <1>2, <1>4, <1>5 DEF StreamTypes, ClientTypes, AllShaped
<1> QED
    BY <1>1, <1>5, <1>6

(* The signals keep the types.                                             *)
LEMMA SourceTypes ==
    ASSUME StreamTypes, GroupsOK(out),
           \/ \E s \in Signals, e \in LaterEvents : SetDescriptor(s, e)
           \/ \E p \in Packets, s \in Signals : SendPacket(p, s)
           \/ \E p \in Packets : DropPacket(p)
    PROVE  StreamTypes' /\ GroupsOK(out')
<1>1. ASSUME NEW s \in Signals, NEW m \in Messages, pending' = [pending EXCEPT ![s] = Append(@, m)],
             UNCHANGED <<kept, out, dataDescriptors, alive, sent, readyForRelease, wire,
                         known, referencedPackets, waiting>>
      PROVE  StreamTypes' /\ GroupsOK(out')
  <2>1. pending' \in [Signals -> Seq(Messages)]
    <3>1. pending \in [Signals -> Seq(Messages)] /\ pending[s] \in Seq(Messages)
        BY DEF StreamTypes
    <3>2. Append(pending[s], m) \in Seq(Messages)
        BY <3>1, AppendProperties
    <3> QED
        BY <1>1, <3>1, <3>2
  <2> QED
      BY <1>1, <2>1 DEF StreamTypes, AllShaped
<1>2. ASSUME NEW s \in Signals, NEW e \in LaterEvents, SetDescriptor(s, e)
      PROVE  StreamTypes' /\ GroupsOK(out')
  <2>1. e \in Messages
      BY DEF LaterEvents, Event, Messages, Events, Told
  <2> QED
      BY <1>1, <1>2, <2>1 DEF SetDescriptor, serverVars, collection, clientVars
<1>3. ASSUME NEW p \in Packets, NEW s \in Signals, SendPacket(p, s)
      PROVE  StreamTypes' /\ GroupsOK(out')
  <2>1. Data(p) \in Messages
      BY DEF Messages
  <2> QED
      BY <1>1, <1>3, <2>1 DEF SendPacket, serverVars, collection, clientVars
<1>4. ASSUME NEW p \in Packets, DropPacket(p)
      PROVE  StreamTypes' /\ GroupsOK(out')
  <2>1. /\ kept' = kept \ {p} /\ Destroy(pending, out.queue, wire, kept', sent, readyForRelease)
        /\ UNCHANGED <<pending, out, dataDescriptors, wire, known, referencedPackets, waiting>>
      BY <1>4 DEF DropPacket, serverVars, clientVars
  <2> DEFINE c == kept'
  <2>2. c \subseteq kept
      BY <2>1
  <2>3. Destroy(pending, out.queue, wire, c, sent, readyForRelease)
      BY <2>1
  <2> HIDE DEF c
  <2>4. /\ alive' \subseteq alive /\ c \subseteq alive' /\ alive' \subseteq Packets
        /\ sent' \subseteq alive' /\ readyForRelease' \subseteq Packets \ alive'
        /\ IsFiniteSet(sent') /\ IsFiniteSet(readyForRelease')
      BY <2>2, <2>3, DestroySame
  <2>5. kept' \subseteq alive'
      BY <2>4 DEF c
  <2> QED
      BY <2>1, <2>4, <2>5 DEF StreamTypes, AllShaped
<1> QED
    BY <1>2, <1>3, <1>4

(* The first state.                                                        *)
LEMMA InitTypesOK ==
    ASSUME StreamInit
    PROVE  StreamTypes /\ GroupsOK(out)
<1>1. pending \in [Signals -> Seq(Messages)]
  <2>1. Event(FirstDescriptor, FirstDescriptor) \in Messages
      BY PacketStreamingAssumption DEF Event, Messages, Events, Told
  <2>2. <<Event(FirstDescriptor, FirstDescriptor)>> \in Seq(Messages)
      BY <2>1
  <2> QED
      BY <2>2 DEF StreamInit
<1>2. <<>> \in Seq(Buffers) /\ <<>> \in Seq(WaitEntries) /\ DOMAIN <<>> = {} /\ Len(<<>>) = 0
    BY EmptySeq
<1>3. StreamTypes
  <2>1. known \in [Signals -> [value : Told, domain : Told]]
      BY DEF StreamInit, Told
  <2>2. waiting \in [Packets -> Seq(WaitEntries)] /\ \A d \in Packets : DOMAIN waiting[d] = {}
      BY <1>2 DEF StreamInit
  <2>3. out.queue = <<>> /\ wire = <<>> /\ DOMAIN referencedPackets = {}
      BY DEF StreamInit
  <2>4. kept \subseteq alive /\ alive \subseteq Packets /\ sent = {} /\ readyForRelease = {} /\ dataDescriptors = {}
      BY DEF StreamInit
  <2> QED
      BY <1>1, <1>2, <2>1, <2>2, <2>3, <2>4, FS_EmptySet DEF StreamTypes, AllShaped
<1>4. GroupsOK(out)
  <2>1. /\ out = [queue |-> <<>>, groups |-> [g \in {} |-> 0], nonCacheable |-> 0, current |-> 0]
      BY DEF StreamInit
  <2>2. /\ out.queue = <<>> /\ DOMAIN out.groups = {} /\ out.nonCacheable = 0 /\ out.current = 0
        /\ out = [queue |-> out.queue, groups |-> out.groups, nonCacheable |-> out.nonCacheable,
                  current |-> out.current]
      BY <2>1
  <2>3. InGroup(<<>>, 0) = {}
      BY <1>2 DEF InGroup
  <2>4. Cardinality(InGroup(<<>>, 0)) = 0
      BY <2>3, FS_EmptySet
  <2>5. Contiguous(<<>>)
      BY <1>2 DEF Contiguous
  <2> QED
      BY <1>2, <2>2, <2>4, <2>5 DEF GroupsOK
<1> QED
    BY <1>3, <1>4

(* Every step keeps the types and the groups.                              *)
LEMMA NextTypesOK ==
    ASSUME StreamTypes, GroupsOK(out), [StreamNext]_streamVars
    PROVE  StreamTypes' /\ GroupsOK(out')
<1>1. CASE UNCHANGED streamVars
    BY <1>1 DEF streamVars, sourceVars, serverVars, collection, clientVars, StreamTypes, AllShaped
<1>2. ASSUME NEW s \in Signals, AddEventPacket(s)
      PROVE  StreamTypes' /\ GroupsOK(out')
    BY <1>2, AddEventTypes
<1>3. ASSUME NEW s \in Signals, NEW moved \in BOOLEAN, AddDataPacket(s, moved)
      PROVE  StreamTypes' /\ GroupsOK(out')
    BY <1>3, AddDataTypes
<1>4. CASE GetStreamingWriteTask
    BY <1>4, TakeTypes
<1>5. CASE AddPacketBuffer
    BY <1>5, ClientStepTypes
<1> QED
    BY <1>1, <1>2, <1>3, <1>4, <1>5, SourceTypes DEF StreamNext

(* The caching of buffers never throws linearCachingAssertion: whatever is *)
(* queued and taken, the counters queuePacketBuffer and                    *)
(* getStreamingWriteTasks keep for the groups of cacheable buffers are     *)
(* exact and a group lies in one piece in the queue.                       *)
THEOREM GroupCountersExact == StreamSpec => []GroupsExact
<1>1. StreamInit => StreamTypes /\ GroupsOK(out)
    BY InitTypesOK
<1>2. StreamTypes /\ GroupsOK(out) /\ [StreamNext]_streamVars => StreamTypes' /\ GroupsOK(out)'
    BY NextTypesOK
<1>3. StreamTypes /\ GroupsOK(out) => GroupsExact
  <2> SUFFICES ASSUME GroupsOK(out)
               PROVE  GroupsExact
      OBVIOUS
  <2> DEFINE q == out.queue
  <2>1. /\ DOMAIN out.groups = {q[i].group : i \in DOMAIN q} \ {0}
        /\ \A g \in DOMAIN out.groups : /\ out.groups[g].count = Cardinality(InGroup(q, g))
                                        /\ out.groups[g].size = Cardinality(Units(q, g))
        /\ Contiguous(q)
        /\ out.nonCacheable = Cardinality(InGroup(q, 0))
      BY DEF GroupsOK
  <2>2. \A g \in DOMAIN out.groups : \A i, j \in InGroup(q, g) : \A k \in i .. j : q[k].group = g
      BY <2>1 DEF InGroup, Contiguous
  <2> QED
      BY <2>1, <2>2 DEF GroupsExact
<1> QED
    BY <1>1, <1>2, <1>3, PTL DEF StreamSpec

--------------------------------------------------------------------------------
(***************************************************************************)
(* What is under way, with one buffer more and with one less.              *)
(***************************************************************************)

(* One more.                                                               *)
LEMMA LinkGrows ==
    ASSUME NEW U \in Seq(Buffers), NEW b \in Buffers, NEW H, NEW p
    PROVE  LET V == Append(U, b)
           IN /\ V \in Seq(Buffers) /\ Len(V) = Len(U) + 1 /\ Len(U) \in Nat /\ V[Len(U) + 1] = b
              /\ Comes(V, Len(V), H, p) <=> Comes(U, Len(U), H, p) \/ Carries(b, p)
              /\ NotEnded(V, Len(V), p) <=> NotEnded(U, Len(U), p) /\ ~Ends(b, p)
              /\ NotMentioned(V, Len(V), p) <=> NotMentioned(U, Len(U), p) /\ ~Mentions(b, p)
              /\ \A n \in 0 .. Len(U) : /\ Comes(V, n, H, p) <=> Comes(U, n, H, p)
                                        /\ NotEnded(V, n, p) <=> NotEnded(U, n, p)
                                        /\ NotMentioned(V, n, p) <=> NotMentioned(U, n, p)
<1> DEFINE V == Append(U, b)
           m == Len(U) + 1
<1>1. /\ V \in Seq(Buffers) /\ Len(V) = m /\ Len(U) \in Nat /\ V[m] = b
      /\ \A i \in 1 .. Len(U) : V[i] = U[i]
    BY AppendProperties, LenProperties
<1> HIDE DEF V
<1>2. \A i \in 1 .. m : i \in 1 .. Len(U) \/ i = m
    BY <1>1
<1>3. m \in 1 .. m /\ \A i \in 1 .. Len(U) : i \in 1 .. m
    BY <1>1
<1>4. \A n \in 0 .. Len(U) : \A i \in 1 .. n : V[i] = U[i]
    BY <1>1
<1>5. Comes(V, m, H, p) <=> Comes(U, Len(U), H, p) \/ Carries(b, p)
    BY <1>1, <1>2, <1>3 DEF Comes
<1>6. NotEnded(V, m, p) <=> NotEnded(U, Len(U), p) /\ ~Ends(b, p)
    BY <1>1, <1>2, <1>3 DEF NotEnded
<1>7. NotMentioned(V, m, p) <=> NotMentioned(U, Len(U), p) /\ ~Mentions(b, p)
    BY <1>1, <1>2, <1>3 DEF NotMentioned
<1>8. \A n \in 0 .. Len(U) : /\ Comes(V, n, H, p) <=> Comes(U, n, H, p)
                             /\ NotEnded(V, n, p) <=> NotEnded(U, n, p)
                             /\ NotMentioned(V, n, p) <=> NotMentioned(U, n, p)
    BY <1>4 DEF Comes, NotEnded, NotMentioned
<1> QED
    BY <1>1, <1>5, <1>6, <1>7, <1>8 DEF V

(* A buffer that may follow keeps the link in order.                       *)
LEMMA LinkAppend ==
    ASSUME NEW U \in Seq(Buffers), NEW b \in Buffers, NEW C, NEW H,
           LinkOK(U, C, H), MayFollow(U, Len(U), C, H, b)
    PROVE  LinkOK(Append(U, b), C, H)
<1> DEFINE V == Append(U, b)
<1>1. /\ V \in Seq(Buffers) /\ Len(V) = Len(U) + 1 /\ Len(U) \in Nat /\ V[Len(U) + 1] = b
      /\ \A i \in 1 .. Len(U) : V[i] = U[i]
    BY AppendProperties, LenProperties
<1>2. ASSUME NEW n \in 0 .. Len(U), NEW p
      PROVE  /\ Comes(V, n, H, p) <=> Comes(U, n, H, p)
             /\ NotEnded(V, n, p) <=> NotEnded(U, n, p)
             /\ NotMentioned(V, n, p) <=> NotMentioned(U, n, p)
    BY LinkGrows
<1> HIDE DEF V
<1>3. ASSUME NEW n \in 0 .. Len(U), NEW a, MayFollow(U, n, C, H, a)
      PROVE  MayFollow(V, n, C, H, a)
    BY <1>2, <1>3 DEF MayFollow
<1>4. ASSUME NEW i \in 1 .. Len(V)
      PROVE  MayFollow(V, i - 1, C, H, V[i])
  <2>1. i - 1 \in 0 .. Len(U)
      BY <1>1
  <2>2. CASE i \in 1 .. Len(U)
      BY <1>1, <1>3, <2>1, <2>2 DEF LinkOK
  <2>3. CASE i = Len(U) + 1
    <3>1. i - 1 = Len(U)
        BY <1>1, <2>3
    <3> QED
        BY <1>1, <1>3, <2>1, <2>3, <3>1
  <2> QED
      BY <1>1, <2>2, <2>3
<1> QED
    BY <1>4 DEF LinkOK, V

(* The first buffer is taken: C2 and H2 are what the client knows and may  *)
(* not forget afterwards.                                                  *)
LEMMA LinkTail ==
    ASSUME NEW U \in Seq(Buffers), U # <<>>, NEW C, NEW H, NEW C2, NEW H2, NEW S, NEW F, F \subseteq Packets,
           S \subseteq Packets,
           LinkOK(U, C, H), SentOK(U, H, S), UnsentOK(U, C, F),
           \A p \in Packets : p \in C2 => p \in C \/ Carries(U[1], p),
           \A p \in Packets : p \in H /\ ~Ends(U[1], p) => p \in H2,
           \A p \in Packets : Carries(U[1], p) /\ ~Ends(U[1], p) => p \in H2
    PROVE  LinkOK(Tail(U), C2, H2) /\ SentOK(Tail(U), H2, S) /\ UnsentOK(Tail(U), C2, F)
<1> DEFINE V == Tail(U)
           b == U[1]
<1>1. Len(U) \in Nat \ {0}
    BY EmptySeq
<1>2. V \in Seq(Buffers) /\ Len(V) = Len(U) - 1 /\ \A i \in 1 .. Len(V) : V[i] = U[i + 1]
    BY HeadTailProperties
<1> HIDE DEF V
<1>3. ASSUME NEW n \in 0 .. Len(V), NEW p \in Packets
      PROVE  /\ NotEnded(U, n + 1, p) => NotEnded(V, n, p) /\ ~Ends(b, p)
             /\ NotMentioned(U, n + 1, p) => NotMentioned(V, n, p) /\ ~Mentions(b, p)
             /\ Comes(U, n + 1, H, p) /\ NotEnded(U, n + 1, p) => Comes(V, n, H2, p)
  <2>1. 1 \in 1 .. n + 1 /\ \A i \in 1 .. n : V[i] = U[i + 1] /\ i + 1 \in 1 .. n + 1
      BY <1>1, <1>2
  <2>2. NotEnded(U, n + 1, p) => NotEnded(V, n, p) /\ ~Ends(b, p)
      BY <2>1 DEF NotEnded
  <2>3. NotMentioned(U, n + 1, p) => NotMentioned(V, n, p) /\ ~Mentions(b, p)
      BY <2>1 DEF NotMentioned
  <2>4. ASSUME Comes(U, n + 1, H, p), NotEnded(U, n + 1, p)
        PROVE  Comes(V, n, H2, p)
    <3>1. ~Ends(b, p)
        BY <2>2, <2>4
    <3>2. CASE p \in H
        BY <3>1, <3>2 DEF Comes
    <3>3. ASSUME NEW j \in 1 .. n + 1, Carries(U[j], p)
          PROVE  Comes(V, n, H2, p)
      <4>1. CASE j = 1
          BY <3>1, <3>3, <4>1 DEF Comes
      <4>2. CASE j # 1
        <5>1. j - 1 \in 1 .. n /\ (j - 1) + 1 = j
            BY <1>1, <1>2, <4>2
        <5>2. V[j - 1] = U[j]
            BY <2>1, <5>1
        <5> QED
            BY <3>3, <5>1, <5>2 DEF Comes
      <4> QED
          BY <4>1, <4>2
    <3> QED
        BY <2>4, <3>2, <3>3 DEF Comes
  <2> QED
      BY <2>2, <2>3, <2>4
<1>4. ASSUME NEW i \in 1 .. Len(V), NEW p \in Packets, Mentions(V[i], p)
      PROVE  /\ NotEnded(V, i - 1, p)
             /\ Carries(V[i], p) => p \notin C2 /\ NotMentioned(V, i - 1, p)
             /\ ~Carries(V[i], p) => Comes(V, i - 1, H2, p)
  <2>1. i + 1 \in 1 .. Len(U) /\ V[i] = U[i + 1] /\ (i + 1) - 1 = (i - 1) + 1 /\ i - 1 \in 0 .. Len(V)
      BY <1>1, <1>2
  <2>2. MayFollow(U, (i - 1) + 1, C, H, V[i])
      BY <2>1 DEF LinkOK
  <2>3. /\ NotEnded(U, (i - 1) + 1, p)
        /\ Carries(V[i], p) => p \notin C /\ NotMentioned(U, (i - 1) + 1, p)
        /\ ~Carries(V[i], p) => Comes(U, (i - 1) + 1, H, p)
      BY <1>4, <2>2 DEF MayFollow
  <2>4. /\ NotEnded(V, i - 1, p)
        /\ NotMentioned(U, (i - 1) + 1, p) => NotMentioned(V, i - 1, p) /\ ~Mentions(b, p)
        /\ Comes(U, (i - 1) + 1, H, p) => Comes(V, i - 1, H2, p)
      BY <1>3, <2>1, <2>3
  <2>5. ASSUME Carries(V[i], p)
        PROVE  p \notin C2
    <3>1. ~Carries(b, p) /\ p \notin C
        BY <2>3, <2>4, <2>5 DEF Carries, Mentions
    <3> QED
        BY <3>1
  <2> QED
      BY <2>3, <2>4, <2>5
<1>5. LinkOK(V, C2, H2)
    BY <1>4 DEF LinkOK, MayFollow
<1>6. Len(V) \in 0 .. Len(V) /\ Len(V) + 1 = Len(U)
    BY <1>1, <1>2
<1>7. SentOK(V, H2, S)
    BY <1>3, <1>6 DEF SentOK
<1>8. UnsentOK(V, C2, F)
  <2> SUFFICES ASSUME NEW p \in F
               PROVE  p \notin C2 /\ NotMentioned(V, Len(V), p)
      BY DEF UnsentOK
  <2>1. p \notin C /\ NotMentioned(U, Len(U), p)
      BY DEF UnsentOK
  <2>2. NotMentioned(V, Len(V), p) /\ ~Mentions(b, p)
      BY <1>3, <1>6, <2>1
  <2>3. ~Carries(b, p)
      BY <2>2 DEF Carries, Mentions
  <2> QED
      BY <2>1, <2>2, <2>3
<1> QED
    BY <1>5, <1>7, <1>8 DEF V

(* The descriptors, with one buffer more.                                  *)
LEMMA DescribedGrows ==
    ASSUME NEW U \in Seq(Buffers), NEW b \in Buffers, NEW k, DescribedOK(U, k),
           b.type \in {"data", "alreadySent"} => DescribedIn(U, Len(U), k, b.signal)
    PROVE  /\ DescribedOK(Append(U, b), k)
           /\ \A s : DescribedIn(U, Len(U), k, s) \/ Describes(b, s)
                         => DescribedIn(Append(U, b), Len(Append(U, b)), k, s)
<1> DEFINE V == Append(U, b)
           m == Len(U) + 1
<1>1. /\ V \in Seq(Buffers) /\ Len(V) = m /\ Len(U) \in Nat /\ V[m] = b
      /\ \A i \in 1 .. Len(U) : V[i] = U[i]
    BY AppendProperties, LenProperties
<1> HIDE DEF V
<1>2. m \in 1 .. m /\ m - 1 = Len(U) /\ \A i \in 1 .. Len(U) : i \in 1 .. m
    BY <1>1
<1>3. \A s : DescribedIn(U, Len(U), k, s) \/ Describes(b, s) => DescribedIn(V, Len(V), k, s)
    BY <1>1, <1>2 DEF DescribedIn
<1>4. \A n \in 0 .. Len(U) : \A s : DescribedIn(U, n, k, s) => DescribedIn(V, n, k, s)
  <2>1. \A n \in 0 .. Len(U) : \A i \in 1 .. n : V[i] = U[i]
      BY <1>1
  <2> QED
      BY <2>1 DEF DescribedIn
<1>5. ASSUME NEW i \in 1 .. Len(V), V[i].type \in {"data", "alreadySent"}
      PROVE  DescribedIn(V, i - 1, k, V[i].signal)
  <2>1. i - 1 \in 0 .. Len(U)
      BY <1>1
  <2>2. CASE i \in 1 .. Len(U)
      BY <1>1, <1>4, <1>5, <2>1, <2>2 DEF DescribedOK
  <2>3. CASE i = m
      BY <1>1, <1>2, <1>4, <1>5, <2>1, <2>3
  <2> QED
      BY <1>1, <2>2, <2>3
<1> QED
    BY <1>3, <1>5 DEF DescribedOK, V

(* The descriptors, with one buffer less.                                  *)
LEMMA DescribedTail ==
    ASSUME NEW U \in Seq(Buffers), U # <<>>, NEW k, NEW k2, DescribedOK(U, k),
           \A s \in Signals : k[s].value # Unchanged \/ Describes(U[1], s) => k2[s].value # Unchanged,
           AllShaped(U)
    PROVE  /\ DescribedOK(Tail(U), k2)
           /\ \A s \in Signals : DescribedIn(U, Len(U), k, s) => DescribedIn(Tail(U), Len(Tail(U)), k2, s)
<1> DEFINE V == Tail(U)
<1>1. Len(U) \in Nat \ {0} /\ DOMAIN U = 1 .. Len(U)
    BY EmptySeq, LenProperties
<1>2. V \in Seq(Buffers) /\ Len(V) = Len(U) - 1 /\ \A i \in 1 .. Len(V) : V[i] = U[i + 1]
    BY HeadTailProperties
<1> HIDE DEF V
<1>3. ASSUME NEW n \in 0 .. Len(V), NEW s \in Signals, DescribedIn(U, n + 1, k, s)
      PROVE  DescribedIn(V, n, k2, s)
  <2>1. CASE k[s].value # Unchanged
      BY <2>1 DEF DescribedIn
  <2>2. ASSUME NEW j \in 1 .. n + 1, Describes(U[j], s)
        PROVE  DescribedIn(V, n, k2, s)
    <3>1. CASE j = 1
        BY <2>2, <3>1 DEF DescribedIn
    <3>2. CASE j # 1
      <4>1. j - 1 \in 1 .. n /\ j - 1 \in 1 .. Len(V) /\ (j - 1) + 1 = j
          BY <1>1, <1>2, <3>2
      <4>2. V[j - 1] = U[j]
          BY <1>2, <4>1
      <4> QED
          BY <2>2, <4>1, <4>2 DEF DescribedIn
    <3> QED
        BY <3>1, <3>2
  <2> QED
      BY <1>3, <2>1, <2>2 DEF DescribedIn
<1>4. ASSUME NEW i \in 1 .. Len(V), V[i].type \in {"data", "alreadySent"}
      PROVE  DescribedIn(V, i - 1, k2, V[i].signal)
  <2>1. i + 1 \in 1 .. Len(U) /\ V[i] = U[i + 1] /\ (i + 1) - 1 = (i - 1) + 1 /\ i - 1 \in 0 .. Len(V)
      BY <1>1, <1>2
  <2>2. DescribedIn(U, (i - 1) + 1, k, V[i].signal)
      BY <1>4, <2>1 DEF DescribedOK
  <2>3. V[i].signal \in Signals
      BY <1>1, <1>4, <2>1 DEF AllShaped, Shaped
  <2> QED
      BY <1>3, <2>1, <2>2, <2>3
<1>5. Len(V) \in 0 .. Len(V) /\ Len(V) + 1 = Len(U)
    BY <1>1, <1>2
<1>6. \A s \in Signals : DescribedIn(U, Len(U), k, s) => DescribedIn(V, Len(V), k2, s)
    BY <1>3, <1>5
<1> QED
    BY <1>4, <1>6 DEF DescribedOK, V

(* The number of the group does not matter on the link.                    *)
LEMMA SameMeans ==
    ASSUME NEW c, NEW b, SameButGroup(c, b)
    PROVE  /\ \A p : /\ Mentions(c, p) <=> Mentions(b, p)
                     /\ Carries(c, p) <=> Carries(b, p)
                     /\ Ends(c, p) <=> Ends(b, p)
           /\ \A s : Describes(c, s) <=> Describes(b, s)
           /\ \A U, n, C, H : MayFollow(U, n, C, H, b) => MayFollow(U, n, C, H, c)
<1>1. \A p : Mentions(c, p) <=> Mentions(b, p)
    BY DEF SameButGroup, Mentions
<1>2. \A p : Carries(c, p) <=> Carries(b, p)
    BY DEF SameButGroup, Carries
<1>3. \A p : Ends(c, p) <=> Ends(b, p)
    BY DEF SameButGroup, Ends
<1>4. \A s : Describes(c, s) <=> Describes(b, s)
    BY DEF SameButGroup, Describes
<1>5. \A U, n, C, H : MayFollow(U, n, C, H, b) => MayFollow(U, n, C, H, c)
    BY <1>1, <1>2 DEF MayFollow
<1> QED
    BY <1>1, <1>2, <1>3, <1>4, <1>5

(* A queue grows at the end of what is under way.                          *)
LEMMA ConcatAppend ==
    ASSUME NEW w \in Seq(Buffers), NEW q \in Seq(Buffers), NEW c \in Buffers
    PROVE  w \o Append(q, c) = Append(w \o q, c)
<1>1. w \o q \in Seq(Buffers) /\ <<c>> \in Seq(Buffers)
    BY ConcatProperties
<1>2. Append(q, c) = q \o <<c>> /\ Append(w \o q, c) = (w \o q) \o <<c>>
    BY <1>1, AppendIsConcat
<1>3. (w \o q) \o <<c>> = w \o (q \o <<c>>)
    BY ONLY <1>1, w \in Seq(Buffers), q \in Seq(Buffers), ConcatAssociative
<1> QED
    BY <1>2, <1>3

(* A buffer and the release that is due after it: T are the packets that   *)
(* count as sent afterwards, F those that may still be sent for the first  *)
(* time.                                                                   *)
LEMMA QueuedLink ==
    ASSUME NEW w \in Seq(Buffers), NEW q \in Seq(Buffers), NEW b \in Buffers,
           NEW ready \in SUBSET Packets, IsFiniteSet(ready), NEW r, Queued(q, b, ready, r),
           NEW C, NEW H, NEW T \in SUBSET Packets, NEW F \in SUBSET Packets,
           LinkOK(w \o q, C, H), MayFollow(w \o q, Len(w \o q), C, H, b),
           \A p \in T \cup ready : /\ Comes(w \o q, Len(w \o q), H, p) \/ Carries(b, p)
                                   /\ NotEnded(w \o q, Len(w \o q), p) /\ ~Ends(b, p),
           \A p \in F : p \notin C /\ NotMentioned(w \o q, Len(w \o q), p) /\ ~Mentions(b, p),
           T \cap ready = {}, F \cap ready = {}
    PROVE  /\ w \o r \in Seq(Buffers) /\ LinkOK(w \o r, C, H)
           /\ SentOK(w \o r, H, T \cup ReadyAfter(ready))
           /\ UnsentOK(w \o r, C, F)
<1> DEFINE U == w \o q
<1>1. PICK c \in Buffers :
        /\ SameButGroup(c, b)
        /\ IF ReleaseDue(ready)
           THEN \E x \in Buffers : SameButGroup(x, ReleaseBuffer(ready)) /\ r = Append(Append(q, c), x)
           ELSE r = Append(q, c)
    BY DEF Queued
<1> DEFINE V == Append(U, c)
<1>2. U \in Seq(Buffers)
    BY ConcatProperties
<1>3. w \o Append(q, c) = V
    BY <1>1, ConcatAppend
<1> HIDE DEF U
<1>4. LinkOK(V, C, H)
  <2>1. MayFollow(U, Len(U), C, H, c)
      BY <1>1, SameMeans DEF U
  <2> QED
      BY <1>1, <1>2, <2>1, LinkAppend DEF U
<1>5. \A p : /\ Mentions(c, p) <=> Mentions(b, p)
             /\ Carries(c, p) <=> Carries(b, p)
             /\ Ends(c, p) <=> Ends(b, p)
    BY <1>1, SameMeans
<1>6. \A p : /\ V \in Seq(Buffers)
             /\ Comes(V, Len(V), H, p) <=> Comes(U, Len(U), H, p) \/ Carries(c, p)
             /\ NotEnded(V, Len(V), p) <=> NotEnded(U, Len(U), p) /\ ~Ends(c, p)
             /\ NotMentioned(V, Len(V), p) <=> NotMentioned(U, Len(U), p) /\ ~Mentions(c, p)
    BY <1>1, <1>2, LinkGrows
<1>7. SentOK(V, H, T \cup ready)
    BY <1>5, <1>6 DEF SentOK, U
<1>8. UnsentOK(V, C, F)
    BY <1>5, <1>6 DEF UnsentOK, U
<1> HIDE DEF V
<1>9. CASE ~ReleaseDue(ready)
  <2>1. w \o r = V /\ ReadyAfter(ready) = ready
      BY <1>1, <1>3, <1>9 DEF ReadyAfter
  <2> QED
      BY <1>4, <1>6, <1>7, <1>8, <2>1
<1>10. CASE ReleaseDue(ready)
  <2>1. PICK x \in Buffers : SameButGroup(x, ReleaseBuffer(ready)) /\ r = Append(Append(q, c), x)
      BY <1>1, <1>10
  <2> DEFINE W == Append(V, x)
  <2>2. w \o r = W
    <3>1. Append(q, c) \in Seq(Buffers)
        BY <1>1, AppendProperties
    <3>2. w \o Append(Append(q, c), x) = Append(w \o Append(q, c), x)
        BY <2>1, <3>1, ConcatAppend
    <3> QED
        BY <1>3, <2>1, <3>2
  <2>3. ReleaseBuffer(ready).type = "release" /\ ReleaseBuffer(ready).packet = NoPacket /\ ReleaseBuffer(ready).ids = ready
      BY ReleaseMade
  <2>4. \A p \in Packets : /\ Mentions(x, p) <=> p \in ready
                           /\ Ends(x, p) <=> p \in ready
                           /\ ~Carries(x, p)
      BY <2>1, <2>3, PacketStreamingAssumption DEF SameButGroup, Mentions, Ends, Carries
  <2>5. MayFollow(V, Len(V), C, H, x)
      BY <1>7, <2>4 DEF MayFollow, SentOK
  <2>6. LinkOK(W, C, H)
      BY <1>4, <1>6, <2>1, <2>5, LinkAppend
  <2>7. \A p : /\ W \in Seq(Buffers)
               /\ Comes(W, Len(W), H, p) <=> Comes(V, Len(V), H, p) \/ Carries(x, p)
               /\ NotEnded(W, Len(W), p) <=> NotEnded(V, Len(V), p) /\ ~Ends(x, p)
               /\ NotMentioned(W, Len(W), p) <=> NotMentioned(V, Len(V), p) /\ ~Mentions(x, p)
      BY <1>6, <2>1, LinkGrows
  <2>8. ReadyAfter(ready) = {}
      BY <1>10 DEF ReadyAfter
  <2> HIDE DEF W
  <2>9. SentOK(W, H, T)
      BY <1>7, <2>4, <2>7 DEF SentOK
  <2>10. UnsentOK(W, C, F)
      BY <1>8, <2>4, <2>7 DEF UnsentOK
  <2> QED
      BY <2>2, <2>6, <2>7, <2>8, <2>9, <2>10
<1> QED
    BY <1>9, <1>10

(* The same for the descriptors.                                           *)
LEMMA QueuedDescribed ==
    ASSUME NEW w \in Seq(Buffers), NEW q \in Seq(Buffers), NEW b \in Buffers,
           NEW ready \in SUBSET Packets, IsFiniteSet(ready), NEW r, Queued(q, b, ready, r), NEW k,
           DescribedOK(w \o q, k),
           b.type \in {"data", "alreadySent"} => DescribedIn(w \o q, Len(w \o q), k, b.signal)
    PROVE  /\ DescribedOK(w \o r, k)
           /\ \A s : DescribedIn(w \o q, Len(w \o q), k, s) \/ Describes(b, s)
                         => DescribedIn(w \o r, Len(w \o r), k, s)
<1> DEFINE U == w \o q
<1>1. PICK c \in Buffers :
        /\ SameButGroup(c, b)
        /\ IF ReleaseDue(ready)
           THEN \E x \in Buffers : SameButGroup(x, ReleaseBuffer(ready)) /\ r = Append(Append(q, c), x)
           ELSE r = Append(q, c)
    BY DEF Queued
<1> DEFINE V == Append(U, c)
<1>2. U \in Seq(Buffers)
    BY ConcatProperties
<1>3. w \o Append(q, c) = V
    BY <1>1, ConcatAppend
<1>4. c.type = b.type /\ c.signal = b.signal /\ \A s : Describes(c, s) <=> Describes(b, s)
    BY <1>1, SameMeans DEF SameButGroup
<1> HIDE DEF U
<1>5. DescribedOK(V, k) /\ \A s : DescribedIn(U, Len(U), k, s) \/ Describes(c, s) => DescribedIn(V, Len(V), k, s)
  <2>1. DescribedOK(U, k) /\ (c.type \in {"data", "alreadySent"} => DescribedIn(U, Len(U), k, c.signal))
      BY <1>4 DEF U
  <2> QED
      BY <1>1, <1>2, <2>1, DescribedGrows
<1>6. V \in Seq(Buffers)
    BY <1>1, <1>2, AppendProperties
<1> HIDE DEF V
<1>7. CASE ~ReleaseDue(ready)
  <2>1. w \o r = V
      BY <1>1, <1>3, <1>7
  <2> QED
      BY <1>4, <1>5, <2>1 DEF U
<1>8. CASE ReleaseDue(ready)
  <2>1. PICK x \in Buffers : SameButGroup(x, ReleaseBuffer(ready)) /\ r = Append(Append(q, c), x)
      BY <1>1, <1>8
  <2> DEFINE W == Append(V, x)
  <2>2. w \o r = W
    <3>1. Append(q, c) \in Seq(Buffers)
        BY <1>1, AppendProperties
    <3>2. w \o Append(Append(q, c), x) = Append(w \o Append(q, c), x)
        BY <2>1, <3>1, ConcatAppend
    <3> QED
        BY <1>3, <2>1, <3>2
  <2>3. ReleaseBuffer(ready).type = "release"
      BY ReleaseMade
  <2>4. x.type = "release"
      BY <2>1, <2>3 DEF SameButGroup
  <2>5. DescribedOK(W, k) /\ \A s : DescribedIn(V, Len(V), k, s) \/ Describes(x, s) => DescribedIn(W, Len(W), k, s)
      BY <1>5, <1>6, <2>1, <2>4, DescribedGrows
  <2> HIDE DEF W
  <2> QED
      BY <1>4, <1>5, <2>2, <2>5 DEF U
<1> QED
    BY <1>7, <1>8

--------------------------------------------------------------------------------
(***************************************************************************)
(* Steps of the server and of the signals keep the link in order.          *)
(***************************************************************************)

(* Whoever takes a message frees nothing that could still be added.        *)
LEMMA FreshTail ==
    ASSUME StreamTypes, NEW s \in Signals, pending[s] # <<>>
    PROVE  Fresh([pending EXCEPT ![s] = Tail(@)], kept) \subseteq Fresh(pending, kept)
<1>1. pending \in [Signals -> Seq(Messages)] /\ pending[s] \in Seq(Messages)
    BY DEF StreamTypes
<1>2. Tail(pending[s]) \in Seq(Messages) /\ Len(Tail(pending[s])) = Len(pending[s]) - 1
      /\ \A i \in 1 .. Len(Tail(pending[s])) : Tail(pending[s])[i] = pending[s][i + 1]
    BY <1>1, HeadTailProperties
<1>3. DOMAIN Tail(pending[s]) = 1 .. Len(pending[s]) - 1 /\ DOMAIN pending[s] = 1 .. Len(pending[s]) /\ Len(pending[s]) \in Nat
    BY <1>1, <1>2, LenProperties
<1>4. \A i \in 1 .. Len(pending[s]) - 1 : i + 1 \in 1 .. Len(pending[s])
    BY <1>3
<1>5. ToSet(Tail(pending[s])) \subseteq ToSet(pending[s])
    BY <1>2, <1>3, <1>4 DEF ToSet
<1>6. \A t \in Signals : ToSet([pending EXCEPT ![s] = Tail(@)][t]) \subseteq ToSet(pending[t])
    BY <1>1, <1>5
<1> QED
    BY <1>6 DEF Fresh

(* What may still be added is not destroyed.                               *)
LEMMA FreshLeft ==
    ASSUME NEW pend, NEW queue, NEW onWire, NEW creators, creators \subseteq alive,
           Fresh(pend, creators) \subseteq alive
    PROVE  Fresh(pend, creators) \subseteq Left(pend, queue, onWire, creators)
    BY LeftIs DEF Fresh

(* addDaqPacket of an event.                                               *)
LEMMA AddEventLink ==
    ASSUME StreamInv, NEW s \in Signals, AddEventPacket(s)
    PROVE  LinkInv' /\ DescribedInv' /\ failed' = FALSE
<1> DEFINE e == Head(pending[s])
           b == EventBuffer(s, e)
           rest == [pending EXCEPT ![s] = Tail(@)]
           C == KnownPackets
           H == HeldPackets
           F == Fresh(rest, kept) \ sent
<1>1. /\ StreamTypes /\ GroupsOK(out) /\ LinkInv /\ DescribedInv /\ failed = FALSE
    BY DEF StreamInv
<1>2. /\ pending[s] # <<>> /\ e.kind = "event"
      /\ dataDescriptors' = IF e.value = Unchanged THEN dataDescriptors ELSE dataDescriptors \cup {s}
      /\ pending' = rest
      /\ Destroy(rest, out'.queue, wire, kept, sent, ReadyAfter(readyForRelease))
      /\ UNCHANGED <<kept, wire, known, referencedPackets, waiting, failed>>
    BY DEF AddEventPacket, clientVars
<1>3. StreamTypes' /\ Queued(out.queue, b, readyForRelease, out'.queue)
    BY <1>1, AddEventTypes
<1>4. e \in Events
    BY <1>1, <1>2, FirstMessage
<1>5. b \in Buffers /\ Shaped(b) /\ b.type = "event" /\ b.signal = s /\ b.event = e
    BY <1>4, BuffersMade
<1> HIDE DEF b
<1>6. \A p \in Packets : ~Mentions(b, p) /\ ~Ends(b, p) /\ ~Carries(b, p)
    BY <1>5, PacketStreamingAssumption DEF Shaped, Mentions, Ends, Carries
<1>7. /\ readyForRelease \subseteq Packets /\ IsFiniteSet(readyForRelease)
      /\ readyForRelease \cap alive = {} /\ kept \subseteq alive /\ alive \subseteq Packets
      /\ sent \subseteq alive /\ out.queue \in Seq(Buffers) /\ wire \in Seq(Buffers)
    BY <1>1 DEF StreamTypes
<1>8. /\ LinkOK(Underway, C, H)
      /\ SentOK(Underway, H, sent \cup readyForRelease)
      /\ UnsentOK(Underway, C, Fresh(pending, kept) \ sent)
      /\ Fresh(pending, kept) \subseteq alive
    BY <1>1 DEF LinkInv
<1>9. Fresh(rest, kept) \subseteq Fresh(pending, kept)
    BY <1>1, <1>2, FreshTail
<1>10. KnownPackets' = C /\ HeldPackets' = H
    BY <1>2 DEF KnownPackets, HeldPackets, WaitingPackets, WaitingFor
<1> HIDE DEF C, H, rest
<1>11. MayFollow(Underway, Len(Underway), C, H, b)
    BY <1>6 DEF MayFollow
<1>12. \A p \in sent \cup readyForRelease :
           /\ Comes(Underway, Len(Underway), H, p) \/ Carries(b, p)
           /\ NotEnded(Underway, Len(Underway), p) /\ ~Ends(b, p)
    BY <1>6, <1>7, <1>8 DEF SentOK
<1>13. \A p \in F : p \notin C /\ NotMentioned(Underway, Len(Underway), p) /\ ~Mentions(b, p)
    BY <1>6, <1>7, <1>8, <1>9 DEF UnsentOK
<1>14. sent \cap readyForRelease = {} /\ F \cap readyForRelease = {} /\ F \subseteq Packets /\ sent \subseteq Packets
    BY <1>7, <1>8, <1>9
<1> HIDE DEF F
<1>15. /\ LinkOK(wire \o out'.queue, C, H)
       /\ SentOK(wire \o out'.queue, H, sent \cup ReadyAfter(readyForRelease))
       /\ UnsentOK(wire \o out'.queue, C, F)
  <2> DEFINE r == out'.queue
  <2>1. Queued(out.queue, b, readyForRelease, r)
      BY <1>3
  <2> HIDE DEF r
  <2>2. /\ wire \in Seq(Buffers) /\ out.queue \in Seq(Buffers) /\ b \in Buffers
        /\ readyForRelease \in SUBSET Packets /\ IsFiniteSet(readyForRelease)
        /\ sent \in SUBSET Packets /\ F \in SUBSET Packets
      BY <1>5, <1>7, <1>14
  <2>3. /\ LinkOK(wire \o out.queue, C, H) /\ MayFollow(wire \o out.queue, Len(wire \o out.queue), C, H, b)
        /\ \A p \in sent \cup readyForRelease :
               /\ Comes(wire \o out.queue, Len(wire \o out.queue), H, p) \/ Carries(b, p)
               /\ NotEnded(wire \o out.queue, Len(wire \o out.queue), p) /\ ~Ends(b, p)
        /\ \A p \in F : /\ p \notin C /\ NotMentioned(wire \o out.queue, Len(wire \o out.queue), p)
                        /\ ~Mentions(b, p)
      BY <1>8, <1>11, <1>12, <1>13 DEF Underway
  <2>4. LinkOK(wire \o r, C, H) /\ SentOK(wire \o r, H, sent \cup ReadyAfter(readyForRelease)) /\ UnsentOK(wire \o r, C, F)
      BY <1>14, <2>1, <2>2, <2>3, QueuedLink, Zenon
  <2> QED
      BY <2>4 DEF r
<1>16. Underway' = wire \o out'.queue
    BY <1>2 DEF Underway
<1>17. Fresh(rest, kept) \subseteq alive'
  <2>1. Fresh(rest, kept) \subseteq alive
      BY <1>8, <1>9
  <2>2. alive' = Left(rest, out'.queue, wire, kept)
      BY <1>2 DEF Destroy
  <2> DEFINE r == out'.queue
  <2> HIDE DEF r
  <2>3. Fresh(rest, kept) \subseteq Left(rest, r, wire, kept)
      BY <1>7, <2>1, FreshLeft
  <2> QED
      BY <2>2, <2>3 DEF r
<1>18. sent' = sent \cap alive' /\ readyForRelease' = ReadyAfter(readyForRelease) \cup (sent \ alive')
    BY <1>2 DEF Destroy
<1>19. LinkInv'
  <2>1. SentOK(wire \o out'.queue, H, sent' \cup readyForRelease')
      BY <1>15, <1>18 DEF SentOK
  <2>2. UnsentOK(wire \o out'.queue, C, Fresh(rest, kept) \ sent')
      BY <1>15, <1>17, <1>18 DEF UnsentOK, F
  <2> QED
      BY <1>2, <1>10, <1>15, <1>16, <1>17, <2>1, <2>2 DEF LinkInv, Fresh
<1>20. DescribedInv'
  <2> DEFINE r == out'.queue
  <2>1. Queued(out.queue, b, readyForRelease, r)
      BY <1>3
  <2> HIDE DEF r
  <2>2. /\ DescribedOK(Underway, known) /\ \A t \in dataDescriptors : DescribedIn(Underway, Len(Underway), known, t)
        /\ \A d \in Packets : \A i \in DOMAIN waiting[d] : known[waiting[d][i].signal].value # Unchanged
      BY <1>1 DEF DescribedInv
  <2>3. /\ DescribedOK(wire \o r, known)
        /\ \A t : DescribedIn(Underway, Len(Underway), known, t) \/ Describes(b, t)
                      => DescribedIn(wire \o r, Len(wire \o r), known, t)
      BY <1>5, <1>7, <2>1, <2>2, QueuedDescribed DEF Underway
  <2>4. \A t \in dataDescriptors' : t \in dataDescriptors \/ Describes(b, t)
      BY <1>2, <1>5 DEF Describes
  <2>5. \A t \in dataDescriptors' : DescribedIn(wire \o r, Len(wire \o r), known, t)
      BY <2>2, <2>3, <2>4
  <2> QED
      BY <1>2, <1>16, <2>2, <2>3, <2>5 DEF DescribedInv, DescribedOK, DescribedIn, r
<1> QED
    BY <1>1, <1>2, <1>19, <1>20

(* addDaqPacket of a data packet.                                          *)
LEMMA AddDataLink ==
    ASSUME StreamInv, NEW s \in Signals, NEW moved \in BOOLEAN, AddDataPacket(s, moved)
    PROVE  LinkInv' /\ DescribedInv' /\ failed' = FALSE
<1> DEFINE p0 == Head(pending[s]).packet
           m == Mark(s, moved)
           b == Added(s, moved)
           S == SentNow(s, moved)
           gone == Gone(s, moved)
           ready == readyForRelease \cup gone
           rest == [pending EXCEPT ![s] = Tail(@)]
           C == KnownPackets
           H == HeldPackets
           T == S \ gone
           F == Fresh(rest, kept) \ sent'
<1>1. /\ StreamTypes /\ GroupsOK(out) /\ LinkInv /\ DescribedInv /\ failed = FALSE
    BY DEF StreamInv
<1>2. /\ pending[s] # <<>> /\ Head(pending[s]).kind = "data" /\ s \in dataDescriptors
      /\ pending' = rest
      /\ UNCHANGED <<kept, dataDescriptors, wire, known, referencedPackets, waiting, failed>>
    BY DEF AddDataPacket, clientVars
<1>3. /\ StreamTypes' /\ Queued(out.queue, b, ready, out'.queue)
      /\ gone \subseteq S /\ gone \cap alive' = {}
      /\ sent' = T \cap alive' /\ readyForRelease' = ReadyAfter(ready) \cup (T \ alive')
      /\ alive' = Left(rest, out'.queue, wire, kept)
      /\ p0 \in Packets /\ Data(p0) \in ToSet(pending[s])
    BY <1>1, AddDataTypes
<1>4. /\ readyForRelease \subseteq Packets /\ IsFiniteSet(readyForRelease) /\ IsFiniteSet(sent)
      /\ readyForRelease \cap alive = {} /\ kept \subseteq alive /\ alive \subseteq Packets
      /\ sent \subseteq alive /\ out.queue \in Seq(Buffers) /\ wire \in Seq(Buffers)
    BY <1>1 DEF StreamTypes
<1>5. /\ LinkOK(Underway, C, H)
      /\ SentOK(Underway, H, sent \cup readyForRelease)
      /\ UnsentOK(Underway, C, Fresh(pending, kept) \ sent)
      /\ Fresh(pending, kept) \subseteq alive
    BY <1>1 DEF LinkInv
<1>6. p0 \in Fresh(pending, kept) /\ p0 \in alive
    BY <1>3, <1>5 DEF Fresh
<1>7. m \in BOOLEAN
    BY DEF Mark, OnlyReference, HeldDirectly
<1>8. /\ b \in Buffers /\ Shaped(b) /\ b.signal = s /\ b.packet = p0 /\ b.canRelease = m /\ b.ids = {}
      /\ p0 \in sent => b.type = "alreadySent"
      /\ p0 \notin sent => b.type = "data"
  <2>1. /\ b \in Buffers /\ Shaped(b) /\ b.signal = s /\ b.packet = p0 /\ b.canRelease = m
        /\ p0 \in sent => b.type = "alreadySent"
        /\ p0 \notin sent => b.type = "data"
    <3> HIDE DEF m
    <3>1. b = IF p0 \in sent THEN AlreadySentBuffer(s, p0, m) ELSE DataBuffer(s, p0, m)
        BY DEF Added, m
    <3> QED
        BY <1>3, <1>7, <3>1, BuffersMade
  <2> QED
      BY <2>1 DEF Shaped
<1>9. S = IF m THEN sent \ {p0} ELSE sent \cup {p0}
    BY DEF SentNow, SentAfter
<1>10. m => p0 \notin Fresh(rest, kept)
    BY DEF Mark, OnlyReference, HeldDirectly, Fresh
<1>11. Fresh(rest, kept) \subseteq Fresh(pending, kept)
    BY <1>1, <1>2, FreshTail
<1>12. KnownPackets' = C /\ HeldPackets' = H
    BY <1>2 DEF KnownPackets, HeldPackets, WaitingPackets, WaitingFor
<1> HIDE DEF p0, m, b, S, gone, rest, C, H
<1>13. /\ \A p : Mentions(b, p) <=> p = p0
       /\ \A p : Ends(b, p) <=> p = p0 /\ m
       /\ \A p : Carries(b, p) <=> p = p0 /\ p0 \notin sent
    BY <1>7, <1>8 DEF Mentions, Ends, Carries
<1>14. /\ p0 \in sent => Comes(Underway, Len(Underway), H, p0) /\ NotEnded(Underway, Len(Underway), p0)
       /\ p0 \notin sent => p0 \notin C /\ NotMentioned(Underway, Len(Underway), p0)
    BY <1>5, <1>6 DEF SentOK, UnsentOK
<1>15. NotEnded(Underway, Len(Underway), p0)
    BY <1>14 DEF NotEnded, NotMentioned, Ends, Mentions
<1>16. MayFollow(Underway, Len(Underway), C, H, b)
    BY <1>13, <1>14, <1>15 DEF MayFollow
<1>17. S \subseteq alive /\ S \subseteq Packets /\ ready \subseteq Packets /\ IsFiniteSet(ready)
  <2>1. S \subseteq alive /\ S \subseteq Packets /\ ready \subseteq Packets
      BY <1>3, <1>4, <1>6, <1>9
  <2>2. IsFiniteSet(sent \cup {p0})
      BY <1>4, FS_AddElement
  <2>3. gone \subseteq sent \cup {p0}
      BY <1>3, <1>9
  <2>4. IsFiniteSet(gone)
      BY <2>2, <2>3, FS_Subset
  <2>5. IsFiniteSet(ready)
      BY <1>4, <2>4, FS_Union
  <2> QED
      BY <2>1, <2>5
<1>18. \A p \in S \cup readyForRelease :
           /\ Comes(Underway, Len(Underway), H, p) \/ Carries(b, p)
           /\ NotEnded(Underway, Len(Underway), p) /\ ~Ends(b, p)
  <2> SUFFICES ASSUME NEW p \in S \cup readyForRelease
               PROVE  /\ Comes(Underway, Len(Underway), H, p) \/ Carries(b, p)
                      /\ NotEnded(Underway, Len(Underway), p) /\ ~Ends(b, p)
      OBVIOUS
  <2>1. CASE p = p0
    <3>1. p0 \in S
        BY <1>4, <1>6, <2>1
    <3>2. ~m
        BY <1>9, <3>1
    <3> QED
        BY <1>13, <1>14, <1>15, <2>1, <3>2
  <2>2. CASE p # p0
    <3>1. p \in sent \cup readyForRelease
        BY <1>9, <2>2
    <3> QED
        BY <1>5, <1>13, <2>2, <3>1 DEF SentOK
  <2> QED
      BY <2>1, <2>2
<1>19. Fresh(rest, kept) \subseteq alive'
  <2>1. Fresh(rest, kept) \subseteq alive
      BY <1>5, <1>11
  <2> DEFINE r == out'.queue
  <2> HIDE DEF r
  <2>2. Fresh(rest, kept) \subseteq Left(rest, r, wire, kept)
      BY <1>4, <2>1, FreshLeft
  <2> QED
      BY <1>3, <2>2 DEF r
<1>20. \A p \in F : p \notin S /\ p # p0 /\ p \notin sent /\ p \in Fresh(pending, kept) /\ p \notin ready
  <2> SUFFICES ASSUME NEW p \in F
               PROVE  p \notin S /\ p # p0 /\ p \notin sent /\ p \in Fresh(pending, kept) /\ p \notin ready
      OBVIOUS
  <2>1. p \in Fresh(rest, kept) /\ p \in alive' /\ p \notin sent'
      BY <1>19
  <2>2. p \notin S /\ p \notin gone
      BY <1>3, <2>1
  <2>3. p # p0
      BY <1>9, <1>10, <2>1, <2>2
  <2>4. p \in alive
      BY <1>5, <1>11, <2>1
  <2> QED
      BY <1>4, <1>9, <1>11, <2>1, <2>2, <2>3, <2>4
<1>21. \A p \in F : p \notin C /\ NotMentioned(Underway, Len(Underway), p) /\ ~Mentions(b, p)
    BY <1>5, <1>13, <1>20 DEF UnsentOK
<1>22. T \cap ready = {} /\ F \cap ready = {} /\ F \subseteq Packets /\ T \subseteq Packets /\ T \cup ready \subseteq S \cup readyForRelease
    BY <1>3, <1>4, <1>17, <1>20 DEF Fresh
<1> HIDE DEF F, T
<1>23. /\ LinkOK(wire \o out'.queue, C, H)
       /\ SentOK(wire \o out'.queue, H, T \cup ReadyAfter(ready))
       /\ UnsentOK(wire \o out'.queue, C, F)
  <2> DEFINE r == out'.queue
             Rd == ready
  <2>1. Queued(out.queue, b, Rd, r)
      BY <1>3
  <2>2. /\ \A p \in T \cup Rd : /\ Comes(Underway, Len(Underway), H, p) \/ Carries(b, p)
                                /\ NotEnded(Underway, Len(Underway), p) /\ ~Ends(b, p)
        /\ T \cap Rd = {} /\ F \cap Rd = {} /\ Rd \in SUBSET Packets /\ IsFiniteSet(Rd)
      BY <1>17, <1>18, <1>22
  <2> HIDE DEF r, Rd
  <2>3. /\ wire \in Seq(Buffers) /\ out.queue \in Seq(Buffers) /\ b \in Buffers
        /\ T \in SUBSET Packets /\ F \in SUBSET Packets
      BY <1>4, <1>8, <1>22
  <2>4. /\ LinkOK(wire \o out.queue, C, H) /\ MayFollow(wire \o out.queue, Len(wire \o out.queue), C, H, b)
        /\ \A p \in T \cup Rd :
               /\ Comes(wire \o out.queue, Len(wire \o out.queue), H, p) \/ Carries(b, p)
               /\ NotEnded(wire \o out.queue, Len(wire \o out.queue), p) /\ ~Ends(b, p)
        /\ \A p \in F : /\ p \notin C /\ NotMentioned(wire \o out.queue, Len(wire \o out.queue), p)
                        /\ ~Mentions(b, p)
      BY <1>5, <1>16, <1>21, <2>2 DEF Underway
  <2>5. LinkOK(wire \o r, C, H) /\ SentOK(wire \o r, H, T \cup ReadyAfter(Rd)) /\ UnsentOK(wire \o r, C, F)
    <3>1. T \cap Rd = {} /\ F \cap Rd = {} /\ Rd \in SUBSET Packets /\ IsFiniteSet(Rd)
        BY <2>2
    <3> QED
        BY <2>1, <2>3, <2>4, <3>1, QueuedLink, Zenon
  <2> QED
      BY <2>5 DEF r, Rd
<1>24. Underway' = wire \o out'.queue
    BY <1>2 DEF Underway
<1>25. LinkInv'
  <2>1. SentOK(wire \o out'.queue, H, sent' \cup readyForRelease')
      BY <1>3, <1>23 DEF SentOK
  <2>2. UnsentOK(wire \o out'.queue, C, Fresh(rest, kept) \ sent')
      BY <1>23 DEF UnsentOK, F
  <2> QED
      BY <1>2, <1>12, <1>19, <1>23, <1>24, <2>1, <2>2 DEF LinkInv, Fresh
<1>26. DescribedInv'
  <2> DEFINE r == out'.queue
             Rd == ready
  <2>1. Queued(out.queue, b, Rd, r) /\ Rd \in SUBSET Packets /\ IsFiniteSet(Rd)
      BY <1>3, <1>17
  <2> HIDE DEF r, Rd
  <2>2. /\ DescribedOK(Underway, known) /\ \A t \in dataDescriptors : DescribedIn(Underway, Len(Underway), known, t)
        /\ \A d \in Packets : \A i \in DOMAIN waiting[d] : known[waiting[d][i].signal].value # Unchanged
      BY <1>1 DEF DescribedInv
  <2>3. /\ DescribedOK(wire \o r, known)
        /\ \A t : DescribedIn(Underway, Len(Underway), known, t) \/ Describes(b, t)
                      => DescribedIn(wire \o r, Len(wire \o r), known, t)
      BY <1>2, <1>4, <1>8, <2>1, <2>2, QueuedDescribed DEF Underway
  <2>4. \A t \in dataDescriptors' : DescribedIn(wire \o r, Len(wire \o r), known, t)
      BY <1>2, <2>2, <2>3
  <2> QED
      BY <1>2, <1>24, <2>2, <2>3, <2>4 DEF DescribedInv, DescribedOK, DescribedIn, r
<1> QED
    BY <1>1, <1>2, <1>25, <1>26

(* Steps that leave the link and the client alone.                         *)
LEMMA SameLink ==
    ASSUME StreamInv, Underway' = Underway,
           UNCHANGED <<known, referencedPackets, waiting, failed, dataDescriptors>>,
           sent' \cup readyForRelease' \subseteq sent \cup readyForRelease, sent' = sent \cap alive',
           Fresh(pending', kept') \subseteq Fresh(pending, kept), Fresh(pending', kept') \subseteq alive'
    PROVE  LinkInv' /\ DescribedInv' /\ failed' = FALSE
<1>1. /\ LinkOK(Underway, KnownPackets, HeldPackets)
      /\ SentOK(Underway, HeldPackets, sent \cup readyForRelease)
      /\ UnsentOK(Underway, KnownPackets, Fresh(pending, kept) \ sent)
    BY DEF StreamInv, LinkInv
<1>2. KnownPackets' = KnownPackets /\ HeldPackets' = HeldPackets
    BY DEF KnownPackets, HeldPackets, WaitingPackets, WaitingFor
<1>3. SentOK(Underway, HeldPackets, sent' \cup readyForRelease')
    BY <1>1 DEF SentOK
<1>4. UnsentOK(Underway, KnownPackets, Fresh(pending', kept') \ sent')
    BY <1>1 DEF UnsentOK
<1>5. LinkInv'
    BY <1>1, <1>2, <1>3, <1>4 DEF LinkInv, Fresh
<1>6. DescribedInv'
    BY DEF StreamInv, DescribedInv, DescribedOK, DescribedIn
<1> QED
    BY <1>5, <1>6 DEF StreamInv

(* getStreamingWriteTasks.                                                 *)
LEMMA TakeLink ==
    ASSUME StreamInv, GetStreamingWriteTask
    PROVE  LinkInv' /\ DescribedInv' /\ failed' = FALSE
<1>1. StreamTypes /\ GroupsOK(out) /\ Fresh(pending, kept) \subseteq alive /\ kept \subseteq alive
    BY DEF StreamInv, LinkInv, StreamTypes
<1>2. /\ Underway' = Underway /\ sent' \cup readyForRelease' = sent \cup readyForRelease
      /\ sent' = sent \cap alive' /\ alive' = Left(pending, out'.queue, wire', kept)
    BY <1>1, TakeTypes
<1>3. UNCHANGED <<pending, kept, known, referencedPackets, waiting, failed, dataDescriptors>>
    BY DEF GetStreamingWriteTask, sourceVars, clientVars
<1>4. Fresh(pending, kept) \subseteq alive'
  <2> DEFINE r == out'.queue
             w == wire'
  <2> HIDE DEF r, w
  <2>1. Fresh(pending, kept) \subseteq Left(pending, r, w, kept)
      BY <1>1, FreshLeft
  <2> QED
      BY <1>2, <2>1 DEF r, w
<1>5. Fresh(pending', kept') = Fresh(pending, kept)
    BY <1>3 DEF Fresh
<1> QED
    BY <1>2, <1>3, <1>4, <1>5, SameLink

(* The signals.                                                            *)
LEMMA SourceLink ==
    ASSUME StreamInv,
           \/ \E s \in Signals, e \in LaterEvents : SetDescriptor(s, e)
           \/ \E p \in Packets, s \in Signals : SendPacket(p, s)
           \/ \E p \in Packets : DropPacket(p)
    PROVE  LinkInv' /\ DescribedInv' /\ failed' = FALSE
<1>1. /\ StreamTypes /\ Fresh(pending, kept) \subseteq alive /\ kept \subseteq alive
      /\ sent \subseteq alive /\ pending \in [Signals -> Seq(Messages)]
    BY DEF StreamInv, LinkInv, StreamTypes
<1>2. ASSUME NEW s \in Signals, NEW m \in Messages, pending' = [pending EXCEPT ![s] = Append(@, m)],
             \A p \in Packets : m = Data(p) => p \in kept,
             UNCHANGED <<kept, out, dataDescriptors, alive, sent, readyForRelease, wire,
                         known, referencedPackets, waiting, failed>>
      PROVE  LinkInv' /\ DescribedInv' /\ failed' = FALSE
  <2>1. pending[s] \in Seq(Messages)
      BY <1>1
  <2> DEFINE a == Append(pending[s], m)
  <2>2. /\ a \in Seq(Messages) /\ Len(a) = Len(pending[s]) + 1 /\ a[Len(pending[s]) + 1] = m
        /\ \A i \in 1 .. Len(pending[s]) : a[i] = pending[s][i]
        /\ Len(pending[s]) \in Nat /\ DOMAIN pending[s] = 1 .. Len(pending[s])
      BY <2>1, AppendProperties, LenProperties
  <2> HIDE DEF a
  <2>3. DOMAIN a = 1 .. Len(pending[s]) + 1
      BY <2>2, LenProperties
  <2>4. ToSet(a) \subseteq ToSet(pending[s]) \cup {m}
    <3>1. \A i \in 1 .. Len(pending[s]) + 1 : i \in 1 .. Len(pending[s]) \/ i = Len(pending[s]) + 1
        BY <2>2
    <3> QED
        BY <2>2, <2>3, <3>1 DEF ToSet
  <2>5. pending' = [pending EXCEPT ![s] = a]
      BY <1>2 DEF a
  <2>6. \A t \in Signals : ToSet(pending'[t]) \subseteq ToSet(pending[t]) \cup {m}
      BY <1>1, <2>4, <2>5
  <2>7. Fresh(pending', kept') \subseteq Fresh(pending, kept)
      BY <1>2, <2>6 DEF Fresh
  <2>8. Underway' = Underway /\ sent' = sent \cap alive'
      BY <1>1, <1>2 DEF Underway
  <2> QED
      BY <1>1, <1>2, <2>7, <2>8, SameLink
<1>3. ASSUME NEW s \in Signals, NEW e \in LaterEvents, SetDescriptor(s, e)
      PROVE  LinkInv' /\ DescribedInv' /\ failed' = FALSE
  <2>1. e \in Messages /\ \A p \in Packets : e # Data(p)
    <3>1. e \in Messages
        BY DEF LaterEvents, Event, Messages, Events, Told
    <3>2. e.kind = "event"
        BY DEF LaterEvents, Event
    <3>3. \A p : Data(p).kind = "data"
        BY DEF Data
    <3> QED
        BY <3>1, <3>2, <3>3
  <2> QED
      BY <1>2, <1>3, <2>1 DEF SetDescriptor, serverVars, collection, clientVars
<1>4. ASSUME NEW p \in Packets, NEW s \in Signals, SendPacket(p, s)
      PROVE  LinkInv' /\ DescribedInv' /\ failed' = FALSE
  <2>1. Data(p) \in Messages /\ p \in kept
      BY <1>4 DEF Messages, SendPacket
  <2>2. \A q \in Packets : Data(p) = Data(q) => q \in kept
      BY <2>1 DEF Data
  <2> QED
      BY <1>2, <1>4, <2>1, <2>2 DEF SendPacket, serverVars, collection, clientVars
<1>5. ASSUME NEW p \in Packets, DropPacket(p)
      PROVE  LinkInv' /\ DescribedInv' /\ failed' = FALSE
  <2>1. /\ kept' = kept \ {p} /\ Destroy(pending, out.queue, wire, kept', sent, readyForRelease)
        /\ UNCHANGED <<pending, out, dataDescriptors, wire, known, referencedPackets, waiting, failed>>
      BY <1>5 DEF DropPacket, serverVars, clientVars
  <2> DEFINE c == kept'
  <2>2. c \subseteq kept
      BY <2>1
  <2>3. Destroy(pending, out.queue, wire, c, sent, readyForRelease)
      BY <2>1
  <2> HIDE DEF c
  <2>4. /\ sent' \cup readyForRelease' = sent \cup readyForRelease
        /\ sent' = sent \cap alive' /\ alive' = Left(pending, out.queue, wire, c)
      BY <1>1, <2>2, <2>3, DestroySame
  <2>5. Fresh(pending, c) \subseteq Fresh(pending, kept)
      BY <2>2 DEF Fresh
  <2>6. Fresh(pending, c) \subseteq alive /\ c \subseteq alive
      BY <1>1, <2>2, <2>5
  <2>7. Fresh(pending, c) \subseteq alive'
      BY <2>4, <2>6, FreshLeft
  <2>8. Fresh(pending', kept') = Fresh(pending, c) /\ Underway' = Underway
      BY <2>1 DEF Fresh, c, Underway
  <2> QED
      BY <2>1, <2>4, <2>5, <2>7, <2>8, SameLink
<1> QED
    BY <1>3, <1>4, <1>5

--------------------------------------------------------------------------------
(***************************************************************************)
(* Steps of the client.                                                    *)
(***************************************************************************)
WaitersDescribed ==
    \A d \in Packets : \A i \in DOMAIN waiting[d] : known[waiting[d][i].signal].value # Unchanged

(* What the link promises about the buffer the client takes.               *)
Expected(b) ==
    /\ \A p \in Packets : Mentions(b, p) => /\ Carries(b, p) => p \notin KnownPackets
                                            /\ ~Carries(b, p) => p \in HeldPackets
    /\ b.type \in {"data", "alreadySent"} => known[b.signal].value # Unchanged

(* What the client makes of it.                                            *)
Taken(b) ==
    /\ failed' = FALSE
    /\ \A p \in Packets : p \in KnownPackets' => p \in KnownPackets \/ Carries(b, p)
    /\ \A p \in Packets : p \in HeldPackets /\ ~Ends(b, p) => p \in HeldPackets'
    /\ \A p \in Packets : Carries(b, p) /\ ~Ends(b, p) => p \in HeldPackets'
    /\ \A s \in Signals : known[s].value # Unchanged \/ Describes(b, s) => known'[s].value # Unchanged
    /\ WaitersDescribed'

(* Membership.                                                             *)
LEMMA KnownMeans ==
    \A p \in Packets :
        /\ p \in KnownPackets <=>
               p \in DOMAIN referencedPackets
                   \/ \E d \in Packets : \E i \in DOMAIN waiting[d] : waiting[d][i].packet = p
        /\ p \in HeldPackets <=>
               p \in DOMAIN referencedPackets
                   \/ \E d \in Packets : \E i \in DOMAIN waiting[d] :
                          waiting[d][i].packet = p /\ ~waiting[d][i].canRelease
    BY DEF KnownPackets, HeldPackets, WaitingPackets, WaitingFor

(* addEventPacketBuffer.                                                   *)
LEMMA EventTaken ==
    ASSUME ClientTypes, WaitersDescribed, failed = FALSE, NEW b \in Buffers, Shaped(b), AddEventPacketBuffer(b)
    PROVE  Taken(b)
<1>1. /\ b.type = "event" /\ UNCHANGED <<referencedPackets, waiting, failed>> /\ b.signal \in Signals
      /\ known' = [known EXCEPT
            ![b.signal].value = IF b.event.value = Unchanged THEN @ ELSE b.event.value,
            ![b.signal].domain = IF b.event.domain = Unchanged THEN @ ELSE b.event.domain]
    BY DEF AddEventPacketBuffer, Shaped
<1>2. KnownPackets' = KnownPackets /\ HeldPackets' = HeldPackets
    BY <1>1 DEF KnownPackets, HeldPackets, WaitingPackets, WaitingFor
<1>3. \A p : ~Carries(b, p)
    BY <1>1 DEF Carries
<1>4. known \in [Signals -> [value : Told, domain : Told]]
    BY DEF ClientTypes
<1>5. ASSUME NEW s \in Signals, known[s].value # Unchanged \/ Describes(b, s)
      PROVE  known'[s].value # Unchanged
  <2>1. CASE s # b.signal
    <3>1. known'[s] = known[s]
        BY <1>1, <1>4, <2>1
    <3> QED
        BY <1>5, <2>1, <3>1 DEF Describes
  <2>2. CASE s = b.signal
    <3>1. known[s] \in [value : Told, domain : Told]
        BY <1>4
    <3>2. known'[s].value = IF b.event.value = Unchanged THEN known[s].value ELSE b.event.value
        BY <1>1, <1>4, <2>2, <3>1
    <3> QED
        BY <1>5, <2>2, <3>2 DEF Describes
  <2> QED
      BY <2>1, <2>2
<1>6. WaitersDescribed'
  <2>1. \A d \in Packets : \A i \in DOMAIN waiting[d] : waiting[d][i].signal \in Signals
      BY WaitingTypes
  <2> QED
      BY <1>1, <1>5, <2>1 DEF WaitersDescribed
<1> QED
    BY <1>1, <1>2, <1>3, <1>5, <1>6 DEF Taken

(* addDataPacketBuffer.                                                    *)
LEMMA DataTaken ==
    ASSUME ClientTypes, WaitersDescribed, failed = FALSE, NEW b \in Buffers, Shaped(b), Expected(b),
           AddDataPacketBuffer(b)
    PROVE  Taken(b)
<1> DEFINE v == b.packet
<1>1. v \in Packets /\ b.signal \in Signals /\ b.canRelease \in BOOLEAN /\ b.type = "data" /\ b.ids = {}
    BY DEF AddDataPacketBuffer, Shaped, Buffers
<1>2. UNCHANGED known /\ known[b.signal].value # Unchanged
    BY <1>1 DEF AddDataPacketBuffer, Expected
<1>3. \A p : (Carries(b, p) <=> p = v) /\ (Ends(b, p) <=> p = v /\ b.canRelease) /\ ~Describes(b, b.signal)
    BY <1>1 DEF Carries, Ends, Describes
<1>4. \A s : ~Describes(b, s)
    BY <1>1 DEF Describes
<1>5. CASE Waits(b) /\ UNCHANGED <<referencedPackets, failed>>
           /\ waiting' = [waiting EXCEPT ![DomainOf[b.packet]] = Append(@, Wait(b))]
  <2> DEFINE d == DomainOf[b.packet]
             n == Len(waiting[d])
             a == Append(waiting[d], Wait(b))
  <2>1. d \in Packets
      BY <1>1, <1>5, PacketStreamingAssumption DEF Waits
  <2>2. Wait(b) \in WaitEntries /\ Wait(b).packet = v /\ Wait(b).signal = b.signal /\ Wait(b).canRelease = b.canRelease
      BY <1>1 DEF Wait, WaitEntries
  <2>3. waiting[d] \in Seq(WaitEntries) /\ n \in Nat /\ DOMAIN waiting[d] = 1 .. n
      BY <2>1, WaitingTypes
  <2>4. /\ a \in Seq(WaitEntries) /\ Len(a) = n + 1 /\ a[n + 1] = Wait(b)
        /\ \A i \in 1 .. n : a[i] = waiting[d][i]
      BY <2>2, <2>3, AppendProperties
  <2> HIDE DEF a
  <2>5. DOMAIN a = 1 .. n + 1 /\ n + 1 \in 1 .. n + 1 /\ \A i \in 1 .. n + 1 : i \in 1 .. n \/ i = n + 1
      BY <2>3, <2>4, LenProperties
  <2>6. waiting \in [Packets -> Seq(WaitEntries)] /\ waiting' = [waiting EXCEPT ![d] = a]
      BY <1>5 DEF ClientTypes, a
  <2>7. waiting'[d] = a /\ \A e \in Packets : e # d => waiting'[e] = waiting[e]
      BY <2>1, <2>6
  <2> HIDE DEF d, n
  <2>8. \A e \in Packets : \A i \in DOMAIN waiting[e] : i \in DOMAIN waiting'[e] /\ waiting'[e][i] = waiting[e][i]
    <3>1. \A i \in 1 .. n : i \in 1 .. n + 1
        BY <2>3
    <3> QED
        BY <2>3, <2>4, <2>5, <2>7, <3>1
  <2>9. \A e \in Packets : \A i \in DOMAIN waiting'[e] :
            waiting'[e][i] = Wait(b) \/ (i \in DOMAIN waiting[e] /\ waiting'[e][i] = waiting[e][i])
    <3> SUFFICES ASSUME NEW e \in Packets, NEW i \in DOMAIN waiting'[e]
                 PROVE  waiting'[e][i] = Wait(b) \/ (i \in DOMAIN waiting[e] /\ waiting'[e][i] = waiting[e][i])
        OBVIOUS
    <3>1. CASE e = d
        BY <2>3, <2>4, <2>5, <2>7, <3>1
    <3>2. CASE e # d
        BY <2>7, <3>2
    <3> QED
        BY <3>1, <3>2
  <2>10. n + 1 \in DOMAIN waiting'[d] /\ waiting'[d][n + 1] = Wait(b)
      BY <2>4, <2>5, <2>7
  <2>11. \A p \in Packets : p \in KnownPackets' => p \in KnownPackets \/ Carries(b, p)
      BY <1>3, <1>5, <2>2, <2>9 DEF KnownPackets, WaitingPackets, WaitingFor
  <2>12. \A p \in Packets : p \in HeldPackets => p \in HeldPackets'
    <3> SUFFICES ASSUME NEW p \in Packets, p \in HeldPackets
                 PROVE  p \in HeldPackets'
        OBVIOUS
    <3>1. CASE p \in DOMAIN referencedPackets
        BY <1>5, <3>1 DEF HeldPackets
    <3>2. ASSUME NEW e \in Packets, NEW i \in DOMAIN waiting[e], waiting[e][i].packet = p, ~waiting[e][i].canRelease
          PROVE  p \in HeldPackets'
      <4>1. i \in DOMAIN waiting'[e] /\ waiting'[e][i].packet = p /\ ~waiting'[e][i].canRelease
          BY <2>8, <3>2
      <4> QED
          BY <4>1 DEF HeldPackets
    <3> QED
        BY <3>1, <3>2 DEF HeldPackets
  <2>13. ~b.canRelease => v \in HeldPackets'
    <3> SUFFICES ASSUME ~b.canRelease
                 PROVE  v \in HeldPackets'
        OBVIOUS
    <3>1. waiting'[d][n + 1].packet = v /\ ~waiting'[d][n + 1].canRelease
        BY <2>2, <2>10
    <3> QED
        BY <1>1, <2>1, <2>10, <3>1 DEF HeldPackets
  <2>14. WaitersDescribed'
    <3> SUFFICES ASSUME NEW e \in Packets, NEW i \in DOMAIN waiting'[e]
                 PROVE  known[waiting'[e][i].signal].value # Unchanged
        BY <1>2 DEF WaitersDescribed
    <3> QED
        BY <1>2, <2>2, <2>9 DEF WaitersDescribed
  <2> QED
      BY <1>2, <1>3, <1>4, <1>5, <2>11, <2>12, <2>13, <2>14 DEF Taken
<1>6. CASE ~Waits(b)
  <2>1. ~Undescribed(b)
      BY <1>1, <1>2 DEF Undescribed, WaitersDescribed
  <2>2. ProcessData(b) /\ UNCHANGED failed
      BY <1>6, <2>1 DEF AddDataPacketBuffer
  <2>3. waiting \in [Packets -> Seq(WaitEntries)] /\ waiting' = [waiting EXCEPT ![v] = <<>>]
      BY <2>2 DEF ProcessData, ClientTypes
  <2>4. waiting'[v] = <<>> /\ DOMAIN <<>> = {} /\ \A e \in Packets : e # v => waiting'[e] = waiting[e]
      BY <1>1, <2>3
  <2>5. DOMAIN referencedPackets' = DOMAIN referencedPackets
                   \cup {waiting[v][i].packet : i \in {k \in DOMAIN waiting[v] : ~waiting[v][k].canRelease}}
                   \cup (IF b.canRelease THEN {} ELSE {v})
      BY <1>1, <2>2, RememberedAre DEF ProcessData
  <2>6. \A e \in Packets : \A i \in DOMAIN waiting'[e] : i \in DOMAIN waiting[e] /\ waiting'[e][i] = waiting[e][i]
      BY <2>4
  <2>7. \A p \in Packets : p \in KnownPackets' => p \in KnownPackets \/ p = v
    <3> SUFFICES ASSUME NEW p \in Packets, p \in KnownPackets'
                 PROVE  p \in KnownPackets \/ p = v
        OBVIOUS
    <3>1. CASE p \in DOMAIN referencedPackets'
        BY <1>1, <2>5, <3>1 DEF KnownPackets, WaitingPackets, WaitingFor
    <3>2. ASSUME NEW e \in Packets, NEW i \in DOMAIN waiting'[e], waiting'[e][i].packet = p
          PROVE  p \in KnownPackets
        BY <2>6, <3>2 DEF KnownPackets, WaitingPackets, WaitingFor
    <3> QED
        BY <3>1, <3>2 DEF KnownPackets, WaitingPackets, WaitingFor
  <2>8. \A p \in Packets : p \in HeldPackets => p \in HeldPackets'
    <3> SUFFICES ASSUME NEW p \in Packets, p \in HeldPackets
                 PROVE  p \in HeldPackets'
        OBVIOUS
    <3>1. CASE p \in DOMAIN referencedPackets
        BY <2>5, <3>1 DEF HeldPackets
    <3>2. ASSUME NEW e \in Packets, NEW i \in DOMAIN waiting[e], waiting[e][i].packet = p, ~waiting[e][i].canRelease
          PROVE  p \in HeldPackets'
      <4>1. CASE e = v
          BY <2>5, <3>2, <4>1 DEF HeldPackets
      <4>2. CASE e # v
          BY <2>4, <3>2, <4>2 DEF HeldPackets
      <4> QED
          BY <4>1, <4>2
    <3> QED
        BY <3>1, <3>2 DEF HeldPackets
  <2>9. ~b.canRelease => v \in HeldPackets'
      BY <2>5 DEF HeldPackets
  <2>10. WaitersDescribed'
      BY <1>2, <2>6 DEF WaitersDescribed
  <2> QED
      BY <1>2, <1>3, <1>4, <2>2, <2>7, <2>8, <2>9, <2>10 DEF Taken
<1> QED
    BY <1>5, <1>6 DEF AddDataPacketBuffer

(* addReleasePacketBuffer.                                                 *)
LEMMA ReleaseTaken ==
    ASSUME ClientTypes, WaitersDescribed, failed = FALSE, NEW b \in Buffers, Shaped(b), Expected(b),
           AddReleasePacketBuffer(b)
    PROVE  Taken(b)
<1>1. b.type = "release" /\ b.ids \subseteq Packets /\ UNCHANGED known
    BY DEF AddReleasePacketBuffer, Buffers
<1>2. \A p : ~Carries(b, p) /\ \A s : ~Describes(b, s)
    BY <1>1 DEF Carries, Describes
<1>3. b.ids \subseteq HeldPackets
    BY <1>1, <1>2 DEF Expected, Mentions
<1>4. b.ids \subseteq DOMAIN referencedPackets \cup WaitingPackets
    BY <1>3 DEF HeldPackets, WaitingPackets, WaitingFor
<1>5. /\ referencedPackets' = Forget(referencedPackets, b.ids)
      /\ waiting' = [d \in Packets |-> [i \in DOMAIN waiting[d] |->
                   IF waiting[d][i].packet \in b.ids \ DOMAIN referencedPackets
                   THEN [waiting[d][i] EXCEPT !.canRelease = ~@] ELSE waiting[d][i]]]
      /\ UNCHANGED failed
    BY <1>4 DEF AddReleasePacketBuffer
<1>6. DOMAIN referencedPackets' = DOMAIN referencedPackets \ b.ids
    BY <1>5 DEF Forget
<1>7. ASSUME NEW d \in Packets
      PROVE  /\ DOMAIN waiting'[d] = DOMAIN waiting[d]
             /\ \A i \in DOMAIN waiting[d] :
                    /\ waiting'[d][i].packet = waiting[d][i].packet
                    /\ waiting'[d][i].signal = waiting[d][i].signal
                    /\ waiting[d][i].packet \notin b.ids => waiting'[d][i] = waiting[d][i]
  <2>1. DOMAIN waiting'[d] = DOMAIN waiting[d]
      BY <1>5
  <2>2. ASSUME NEW i \in DOMAIN waiting[d]
        PROVE  /\ waiting'[d][i].packet = waiting[d][i].packet
               /\ waiting'[d][i].signal = waiting[d][i].signal
               /\ waiting[d][i].packet \notin b.ids => waiting'[d][i] = waiting[d][i]
    <3>1. waiting'[d][i] = IF waiting[d][i].packet \in b.ids \ DOMAIN referencedPackets
                           THEN [waiting[d][i] EXCEPT !.canRelease = ~@] ELSE waiting[d][i]
        BY <1>5
    <3>2. waiting[d][i] \in WaitEntries
        BY WaitingTypes
    <3>3. [waiting[d][i] EXCEPT !.canRelease = ~@].packet = waiting[d][i].packet
          /\ [waiting[d][i] EXCEPT !.canRelease = ~@].signal = waiting[d][i].signal
        BY <3>2 DEF WaitEntries
    <3> QED
        BY <3>1, <3>3
  <2> QED
      BY <2>1, <2>2
<1>8. \A p \in Packets : p \in KnownPackets' => p \in KnownPackets
    BY <1>6, <1>7 DEF KnownPackets, WaitingPackets, WaitingFor
<1>9. ASSUME NEW p \in Packets, p \in HeldPackets, ~Ends(b, p)
      PROVE  p \in HeldPackets'
  <2>1. p \notin b.ids
      BY <1>9 DEF Ends
  <2>2. CASE p \in DOMAIN referencedPackets
      BY <1>6, <2>1, <2>2 DEF HeldPackets
  <2>3. ASSUME NEW e \in Packets, NEW i \in DOMAIN waiting[e], waiting[e][i].packet = p, ~waiting[e][i].canRelease
        PROVE  p \in HeldPackets'
    <3>1. i \in DOMAIN waiting'[e] /\ waiting'[e][i] = waiting[e][i]
        BY <1>7, <2>1, <2>3
    <3> QED
        BY <2>3, <3>1 DEF HeldPackets
  <2> QED
      BY <1>9, <2>2, <2>3 DEF HeldPackets
<1>10. WaitersDescribed'
    BY <1>1, <1>7 DEF WaitersDescribed
<1> QED
    BY <1>1, <1>2, <1>5, <1>8, <1>9, <1>10 DEF Taken

(* addAlreadySentPacketBuffer.                                             *)
LEMMA AlreadySentTaken ==
    ASSUME ClientTypes, WaitersDescribed, failed = FALSE, NEW b \in Buffers, Shaped(b), Expected(b),
           AddAlreadySentPacketBuffer(b)
    PROVE  Taken(b)
<1> DEFINE v == b.packet
<1>1. b.type = "alreadySent" /\ v \in Packets /\ b.signal \in Signals /\ b.ids = {} /\ UNCHANGED known
    BY DEF AddAlreadySentPacketBuffer, Shaped
<1>2. \A p : ~Carries(b, p) /\ \A s : ~Describes(b, s)
    BY <1>1 DEF Carries, Describes
<1>3. v \in HeldPackets /\ known[b.signal].value # Unchanged
    BY <1>1, <1>2 DEF Expected, Mentions
<1>4. Found(b)
  <2>1. CASE v \in DOMAIN referencedPackets
      BY <2>1 DEF Found
  <2>2. ASSUME NEW e \in Packets, NEW i \in DOMAIN waiting[e], waiting[e][i].packet = v
        PROVE  Found(b)
    <3>1. DomainOf[v] = e
        BY <2>2 DEF ClientTypes
    <3>2. v \in WaitingFor(e) /\ e # NoPacket
        BY <2>2, PacketStreamingAssumption DEF WaitingFor
    <3> QED
        BY <3>1, <3>2 DEF Found
  <2> QED
      BY <1>3, <2>1, <2>2 DEF HeldPackets
<1>5. AlreadySentReferenced(b) \/ AlreadySentWaiting(b)
    BY <1>3, <1>4 DEF AddAlreadySentPacketBuffer
<1>6. CASE AlreadySentReferenced(b)
  <2>1. UNCHANGED <<waiting, failed>>
      BY <1>6 DEF AlreadySentReferenced
  <2>2. /\ DOMAIN referencedPackets' \subseteq DOMAIN referencedPackets
        /\ \A p \in DOMAIN referencedPackets : ~(p = v /\ b.canRelease) => p \in DOMAIN referencedPackets'
      BY <1>6 DEF AlreadySentReferenced, Forget
  <2>3. \A p \in Packets : p \in KnownPackets' => p \in KnownPackets
      BY <2>1, <2>2 DEF KnownPackets, WaitingPackets, WaitingFor
  <2>4. \A p \in Packets : p \in HeldPackets /\ ~Ends(b, p) => p \in HeldPackets'
      BY <2>1, <2>2 DEF HeldPackets, Ends
  <2>5. WaitersDescribed'
      BY <1>1, <2>1 DEF WaitersDescribed
  <2> QED
      BY <1>1, <1>2, <2>1, <2>3, <2>4, <2>5 DEF Taken
<1>7. CASE AlreadySentWaiting(b)
  <2>1. PICK d \in Packets : \E i \in DOMAIN waiting[d] :
               /\ d = DomainOf[b.packet] /\ waiting[d][i].packet = b.packet
               /\ waiting' = [waiting EXCEPT ![d] = [waiting[d] EXCEPT ![i] =
                      [waiting[d][i] EXCEPT !.more = Append(waiting[d][i].more, b.signal)]]]
      BY <1>1, <1>4, <1>7, WaitingMore
  <2>2. PICK i \in DOMAIN waiting[d] :
               /\ d = DomainOf[b.packet] /\ waiting[d][i].packet = b.packet
               /\ waiting' = [waiting EXCEPT ![d] = [waiting[d] EXCEPT ![i] =
                      [waiting[d][i] EXCEPT !.more = Append(waiting[d][i].more, b.signal)]]]
      BY <2>1
  <2> DEFINE w == [waiting[d][i] EXCEPT !.more = Append(waiting[d][i].more, b.signal)]
  <2>3. waiting[d][i] \in WaitEntries
      BY WaitingTypes
  <2>4. w.packet = waiting[d][i].packet /\ w.signal = waiting[d][i].signal /\ w.canRelease = waiting[d][i].canRelease
      BY <2>3 DEF WaitEntries
  <2>5. waiting' = [waiting EXCEPT ![d] = [waiting[d] EXCEPT ![i] = w]]
      BY <2>2
  <2> HIDE DEF w
  <2>6. waiting \in [Packets -> Seq(WaitEntries)]
      BY DEF ClientTypes
  <2>7. ASSUME NEW e \in Packets
        PROVE  /\ DOMAIN waiting'[e] = DOMAIN waiting[e]
               /\ \A k \in DOMAIN waiting[e] :
                      /\ waiting'[e][k].packet = waiting[e][k].packet
                      /\ waiting'[e][k].signal = waiting[e][k].signal
                      /\ waiting'[e][k].canRelease = waiting[e][k].canRelease
    <3>1. CASE e = d
      <4>1. waiting'[e] = [waiting[d] EXCEPT ![i] = w]
          BY <2>5, <2>6, <3>1
      <4> QED
          BY <2>4, <3>1, <4>1
    <3>2. CASE e # d
        BY <2>5, <2>6, <3>2
    <3> QED
        BY <3>1, <3>2
  <2>8. UNCHANGED <<referencedPackets, failed>>
      BY <1>7 DEF AlreadySentWaiting
  <2>9. \A p \in Packets : p \in KnownPackets' => p \in KnownPackets
      BY <2>7, <2>8 DEF KnownPackets, WaitingPackets, WaitingFor
  <2>10. \A p \in Packets : p \in HeldPackets => p \in HeldPackets'
      BY <2>7, <2>8 DEF HeldPackets
  <2>11. WaitersDescribed'
      BY <1>1, <2>7 DEF WaitersDescribed
  <2> QED
      BY <1>1, <1>2, <2>8, <2>9, <2>10, <2>11 DEF Taken
<1> QED
    BY <1>5, <1>6, <1>7

(* The first buffer under way is the head of the wire.                     *)
LEMMA UnderwayTail ==
    ASSUME NEW w \in Seq(Buffers), w # <<>>, NEW q \in Seq(Buffers)
    PROVE  /\ w \o q \in Seq(Buffers) /\ w \o q # <<>> /\ (w \o q)[1] = w[1]
           /\ Tail(w) \o q = Tail(w \o q)
<1> DEFINE U == w \o q
<1>1. Len(w) \in Nat \ {0} /\ Len(q) \in Nat
    BY EmptySeq, LenProperties
<1>2. /\ U \in Seq(Buffers) /\ Len(U) = Len(w) + Len(q)
      /\ \A i \in 1 .. Len(w) + Len(q) : U[i] = IF i <= Len(w) THEN w[i] ELSE q[i - Len(w)]
    BY ConcatProperties
<1>3. Tail(w) \in Seq(Buffers) /\ Len(Tail(w)) = Len(w) - 1 /\ \A i \in 1 .. Len(Tail(w)) : Tail(w)[i] = w[i + 1]
    BY HeadTailProperties
<1> DEFINE V == Tail(w) \o q
           t == Tail(w)
<1> HIDE DEF U, t
<1>4. /\ V \in Seq(Buffers) /\ Len(V) = Len(t) + Len(q)
      /\ \A i \in 1 .. Len(t) + Len(q) : V[i] = IF i <= Len(t) THEN t[i] ELSE q[i - Len(t)]
    BY <1>3, ConcatProperties DEF t
<1> HIDE DEF V
<1>5. U # <<>>
    BY <1>1, <1>2
<1>6. Tail(U) \in Seq(Buffers) /\ Len(Tail(U)) = Len(U) - 1 /\ \A i \in 1 .. Len(Tail(U)) : Tail(U)[i] = U[i + 1]
    BY <1>2, <1>5, HeadTailProperties
<1>7. Len(t) = Len(w) - 1 /\ Len(V) = Len(Tail(U))
    BY <1>1, <1>2, <1>3, <1>4, <1>6 DEF t
<1>8. ASSUME NEW i \in 1 .. Len(V)
      PROVE  V[i] = Tail(U)[i]
  <2>1. i \in 1 .. Len(t) + Len(q) /\ i + 1 \in 1 .. Len(w) + Len(q) /\ i \in 1 .. Len(Tail(U))
      BY <1>1, <1>2, <1>4, <1>6, <1>7
  <2>2. V[i] = IF i <= Len(t) THEN t[i] ELSE q[i - Len(t)]
      BY <1>4, <2>1
  <2>3. Tail(U)[i] = IF i + 1 <= Len(w) THEN w[i + 1] ELSE q[(i + 1) - Len(w)]
      BY <1>2, <1>6, <2>1
  <2>4. i <= Len(t) <=> i + 1 <= Len(w)
      BY <1>1, <1>7, <2>1
  <2>5. i <= Len(t) => t[i] = w[i + 1]
      BY <1>1, <1>3, <1>7 DEF t
  <2>6. (i + 1) - Len(w) = i - Len(t)
      BY <1>1, <1>7, <2>1
  <2>7. CASE i <= Len(t)
    <3>1. V[i] = t[i] /\ Tail(U)[i] = w[i + 1] /\ t[i] = w[i + 1]
        BY <2>2, <2>3, <2>4, <2>5, <2>7
    <3> QED
        BY <3>1
  <2>8. CASE ~(i <= Len(t))
    <3>1. V[i] = q[i - Len(t)] /\ Tail(U)[i] = q[(i + 1) - Len(w)]
        BY <2>2, <2>3, <2>4, <2>8
    <3>2. q[(i + 1) - Len(w)] = q[i - Len(t)]
        BY <2>6, Zenon
    <3> QED
        BY <3>1, <3>2, Zenon
  <2> QED
      BY <2>7, <2>8
<1>9. V = Tail(U)
    BY <1>4, <1>6, <1>7, <1>8, SeqEqual
<1>10. U[1] = w[1]
    BY <1>1, <1>2
<1> QED
    BY <1>2, <1>5, <1>9, <1>10 DEF U, V

(* addPacketBuffer: the client does not throw, and the link stays in order. *)
LEMMA ClientLink ==
    ASSUME StreamInv, AddPacketBuffer
    PROVE  LinkInv' /\ DescribedInv' /\ failed' = FALSE
<1> DEFINE b == Head(wire)
           U == Underway
           C == KnownPackets
           H == HeldPackets
           S == sent \cup readyForRelease
           F == Fresh(pending, kept) \ sent
<1>1. /\ StreamTypes /\ ClientTypes /\ WaitersDescribed /\ failed = FALSE
      /\ LinkOK(U, C, H) /\ SentOK(U, H, S) /\ UnsentOK(U, C, F)
      /\ Fresh(pending, kept) \subseteq alive
      /\ DescribedOK(U, known) /\ \A s \in dataDescriptors : DescribedIn(U, Len(U), known, s)
    BY DEF StreamInv, LinkInv, DescribedInv, StreamTypes, ClientTypes, WaitersDescribed
<1>2. /\ wire # <<>> /\ wire' = Tail(wire)
      /\ \/ AddEventPacketBuffer(b) \/ AddDataPacketBuffer(b)
         \/ AddReleasePacketBuffer(b) \/ AddAlreadySentPacketBuffer(b)
      /\ UNCHANGED <<pending, kept, out, dataDescriptors>>
    BY DEF AddPacketBuffer, sourceVars, serverVars
<1>3. /\ b \in Buffers /\ Shaped(b) /\ b = wire[1]
    BY <1>1, <1>2, HeadOfWire
<1>4. /\ StreamTypes' /\ sent' \cup readyForRelease' = S
      /\ sent' = sent \cap alive' /\ alive' = Left(pending, out.queue, wire', kept)
    BY <1>1, ClientStepTypes
<1>5. /\ wire \in Seq(Buffers) /\ out.queue \in Seq(Buffers) /\ kept \subseteq alive /\ alive \subseteq Packets
      /\ readyForRelease \subseteq Packets /\ sent \subseteq alive /\ dataDescriptors \subseteq Signals
      /\ AllShaped(wire) /\ AllShaped(out.queue)
    BY <1>1 DEF StreamTypes
<1>6. U \in Seq(Buffers) /\ U # <<>> /\ U[1] = b /\ Underway' = Tail(U)
  <2>1. U \in Seq(Buffers) /\ U # <<>> /\ U[1] = wire[1] /\ Tail(wire) \o out.queue = Tail(U)
      BY <1>2, <1>5, UnderwayTail DEF Underway
  <2> QED
      BY <1>2, <1>3, <2>1 DEF Underway
<1>7. Len(U) \in Nat \ {0}
    BY <1>6, EmptySeq
<1> HIDE DEF b, U
<1>8. Expected(b)
  <2>1. MayFollow(U, 0, C, H, b)
    <3>1. 1 \in 1 .. Len(U) /\ 1 - 1 = 0
        BY <1>7
    <3> QED
        BY <1>1, <1>6, <3>1 DEF LinkOK
  <2>2. \A p \in Packets : Comes(U, 0, H, p) => p \in H
      BY DEF Comes
  <2>3. b.type \in {"data", "alreadySent"} => DescribedIn(U, 0, known, b.signal)
    <3>1. 1 \in 1 .. Len(U) /\ 1 - 1 = 0
        BY <1>7
    <3> QED
        BY <1>1, <1>6, <3>1 DEF DescribedOK
  <2>4. b.type \in {"data", "alreadySent"} => known[b.signal].value # Unchanged
      BY <2>3 DEF DescribedIn
  <2> QED
      BY <2>1, <2>2, <2>4 DEF Expected, MayFollow
<1>9. Taken(b)
    BY <1>1, <1>2, <1>3, <1>8, EventTaken, DataTaken, ReleaseTaken, AlreadySentTaken
<1> DEFINE C2 == KnownPackets'
           H2 == HeldPackets'
<1>10. /\ \A p \in Packets : p \in C2 => p \in C \/ Carries(U[1], p)
       /\ \A p \in Packets : p \in H /\ ~Ends(U[1], p) => p \in H2
       /\ \A p \in Packets : Carries(U[1], p) /\ ~Ends(U[1], p) => p \in H2
    BY <1>6, <1>9 DEF Taken
<1>11. S \subseteq Packets /\ F \subseteq Packets
    BY <1>5 DEF Fresh
<1> HIDE DEF C, H, S, F, C2, H2
<1>12. LinkOK(Tail(U), C2, H2) /\ SentOK(Tail(U), H2, S) /\ UnsentOK(Tail(U), C2, F)
    BY <1>1, <1>6, <1>10, <1>11, LinkTail, Zenon
<1>13. Fresh(pending, kept) \subseteq alive'
  <2> DEFINE w == wire'
  <2> HIDE DEF w
  <2>1. Fresh(pending, kept) \subseteq Left(pending, out.queue, w, kept)
      BY <1>1, <1>5, FreshLeft
  <2> QED
      BY <1>4, <2>1 DEF w
<1>14. Fresh(pending, kept) \ sent' = F
    BY <1>4, <1>13 DEF F
<1>15. LinkInv'
    BY <1>2, <1>4, <1>6, <1>12, <1>13, <1>14 DEF LinkInv, Fresh, C2, H2
<1>16. DescribedInv'
  <2> DEFINE k2 == known'
  <2>1. \A s \in Signals : known[s].value # Unchanged \/ Describes(U[1], s) => k2[s].value # Unchanged
      BY <1>6, <1>9 DEF Taken
  <2>2. AllShaped(U)
    <3>1. /\ Len(wire) \in Nat /\ Len(out.queue) \in Nat /\ DOMAIN wire = 1 .. Len(wire)
          /\ DOMAIN out.queue = 1 .. Len(out.queue) /\ DOMAIN U = 1 .. Len(U)
        BY <1>5, <1>6, LenProperties
    <3>2. /\ Len(U) = Len(wire) + Len(out.queue)
          /\ \A i \in 1 .. Len(wire) + Len(out.queue) :
                 U[i] = IF i <= Len(wire) THEN wire[i] ELSE out.queue[i - Len(wire)]
        BY <1>5, ConcatProperties DEF U, Underway
    <3>3. ASSUME NEW i \in 1 .. Len(U)
          PROVE  Shaped(U[i])
      <4>1. CASE i <= Len(wire)
          BY <1>5, <3>1, <3>2, <4>1 DEF AllShaped
      <4>2. CASE ~(i <= Len(wire))
        <5>1. i - Len(wire) \in 1 .. Len(out.queue)
            BY <3>1, <3>2, <4>2
        <5> QED
            BY <1>5, <3>1, <3>2, <4>2, <5>1 DEF AllShaped
      <4> QED
          BY <4>1, <4>2
    <3> QED
        BY <3>1, <3>3 DEF AllShaped
  <2> HIDE DEF k2
  <2>3. /\ DescribedOK(Tail(U), k2)
        /\ \A s \in Signals : DescribedIn(U, Len(U), known, s) => DescribedIn(Tail(U), Len(Tail(U)), k2, s)
      BY <1>1, <1>6, <2>1, <2>2, DescribedTail
  <2>4. \A s \in dataDescriptors' : DescribedIn(Tail(U), Len(Tail(U)), k2, s)
      BY <1>1, <1>2, <1>5, <2>3
  <2>5. WaitersDescribed'
      BY <1>9 DEF Taken
  <2> QED
      BY <1>6, <2>3, <2>4, <2>5 DEF DescribedInv, DescribedOK, DescribedIn, WaitersDescribed, k2
<1> QED
    BY <1>9, <1>15, <1>16 DEF Taken

(* The first state.                                                        *)
LEMMA InitStreamInv ==
    ASSUME StreamInit
    PROVE  StreamInv
<1>1. StreamTypes /\ GroupsOK(out)
    BY InitTypesOK
<1>2. /\ wire = <<>> /\ out.queue = <<>> /\ sent = {} /\ readyForRelease = {} /\ dataDescriptors = {}
      /\ alive = Packets /\ DOMAIN referencedPackets = {} /\ \A d \in Packets : waiting[d] = <<>>
      /\ failed = FALSE
    BY DEF StreamInit
<1>3. DOMAIN <<>> = {} /\ Len(<<>>) = 0
    OBVIOUS
<1>4. Underway = <<>> /\ Len(Underway) = 0
  <2>1. <<>> \in Seq(Buffers)
      BY EmptySeq
  <2>2. <<>> \o <<>> = <<>>
      BY <2>1, ConcatEmptySeq
  <2> QED
      BY <1>2, <1>3, <2>2 DEF Underway
<1>5. KnownPackets = {}
    BY <1>2, <1>3 DEF KnownPackets, WaitingPackets, WaitingFor
<1>6. LinkInv
    BY <1>2, <1>4, <1>5 DEF LinkInv, LinkOK, SentOK, UnsentOK, NotMentioned, Fresh
<1>7. DescribedInv
    BY <1>2, <1>3, <1>4 DEF DescribedInv, DescribedOK
<1> QED
    BY <1>1, <1>2, <1>6, <1>7 DEF StreamInv

(* Every step.                                                             *)
LEMMA NextStreamInv ==
    ASSUME StreamInv, [StreamNext]_streamVars
    PROVE  StreamInv'
<1>1. StreamTypes /\ GroupsOK(out)
    BY DEF StreamInv
<1>2. StreamTypes' /\ GroupsOK(out')
    BY <1>1, NextTypesOK
<1>3. LinkInv' /\ DescribedInv' /\ failed' = FALSE
  <2>1. CASE UNCHANGED streamVars
    <3>1. UNCHANGED <<pending, kept, known, referencedPackets, waiting, failed, dataDescriptors, sent, readyForRelease,
                      alive, wire, out>>
        BY <2>1 DEF streamVars, sourceVars, serverVars, collection, clientVars
    <3>2. Underway' = Underway /\ sent' = sent \cap alive' /\ Fresh(pending', kept') = Fresh(pending, kept)
        BY <1>1, <3>1 DEF Underway, StreamTypes, Fresh
    <3>3. Fresh(pending, kept) \subseteq alive
        BY DEF StreamInv, LinkInv
    <3> QED
        BY <3>1, <3>2, <3>3, SameLink
  <2>2. ASSUME NEW s \in Signals, AddEventPacket(s)
        PROVE  LinkInv' /\ DescribedInv' /\ failed' = FALSE
      BY <2>2, AddEventLink
  <2>3. ASSUME NEW s \in Signals, NEW moved \in BOOLEAN, AddDataPacket(s, moved)
        PROVE  LinkInv' /\ DescribedInv' /\ failed' = FALSE
      BY <2>3, AddDataLink
  <2>4. CASE GetStreamingWriteTask
      BY <2>4, TakeLink
  <2>5. CASE AddPacketBuffer
      BY <2>5, ClientLink
  <2> QED
      BY <2>1, <2>2, <2>3, <2>4, <2>5, SourceLink DEF StreamNext
<1> QED
    BY <1>2, <1>3 DEF StreamInv

(* The client never throws: however packets are sent, sent again, handed   *)
(* over and destroyed, and however their buffers are grouped and delayed,  *)
(* every id addAlreadySentPacketBuffer and addReleasePacketBuffer are      *)
(* given is one the client knows, and every signal's data follow a         *)
(* descriptor.                                                             *)
THEOREM LinkNeverBreaks == StreamSpec => []ClientNeverThrows
<1>1. StreamInit => StreamInv
    BY InitStreamInv
<1>2. StreamInv /\ [StreamNext]_streamVars => StreamInv'
    BY NextStreamInv
<1>3. StreamInv => ClientNeverThrows
    BY DEF StreamInv, ClientNeverThrows
<1> QED
    BY <1>1, <1>2, <1>3, PTL DEF StreamSpec

--------------------------------------------------------------------------------
(***************************************************************************)
(* Nothing is kept for good.                                               *)
(***************************************************************************)

(* A packet waits in one place, or is referenced, or neither.              *)
OnePlace ==
    /\ \A d \in Packets : \A i, j \in DOMAIN waiting[d] :
           waiting[d][i].packet = waiting[d][j].packet => i = j
    /\ \A d \in Packets : \A i \in DOMAIN waiting[d] :
           waiting[d][i].packet \notin DOMAIN referencedPackets

(* A buffer that makes the client keep a packet, and one that frees it.    *)
Keeps(b, p) == Carries(b, p) /\ ~b.canRelease
Frees(b, p) == p \in b.ids \/ (b.type = "alreadySent" /\ b.packet = p /\ b.canRelease)

(* Whatever is kept, H, or will be, is freed: R are the packets whose      *)
(* release is still to be sent.                                            *)
FreedIn(U, R, p) == p \in R \/ \E i \in 1 .. Len(U) : Frees(U[i], p)
LeakOK(U, H, R) ==
    \A p \in Packets : p \in H \/ (\E i \in 1 .. Len(U) : Keeps(U[i], p)) => FreedIn(U, R, p)

LeakInv == OnePlace /\ LeakOK(Underway, HeldPackets, sent \cup readyForRelease \cup flagLost)

(* A buffer at the end.                                                    *)
LEMMA LeakAppend ==
    ASSUME NEW U \in Seq(Buffers), NEW b \in Buffers, NEW H, NEW R, NEW R2, LeakOK(U, H, R),
           \A p \in Packets : p \in R \/ Keeps(b, p) => p \in R2 \/ Frees(b, p)
    PROVE  Append(U, b) \in Seq(Buffers) /\ LeakOK(Append(U, b), H, R2)
<1> DEFINE V == Append(U, b)
<1>1. /\ V \in Seq(Buffers) /\ Len(V) = Len(U) + 1 /\ V[Len(U) + 1] = b
      /\ \A i \in 1 .. Len(U) : V[i] = U[i]
    BY AppendProperties
<1>2. Len(U) \in Nat
    OBVIOUS
<1> HIDE DEF V
<1>3. Len(U) + 1 \in 1 .. Len(V) /\ \A i \in 1 .. Len(V) : i \in 1 .. Len(U) \/ i = Len(U) + 1
    BY <1>1, <1>2
<1>4. \A i \in 1 .. Len(U) : i \in 1 .. Len(V)
    BY <1>1, <1>2
<1>5. ASSUME NEW p \in Packets, p \in H \/ \E i \in 1 .. Len(V) : Keeps(V[i], p)
      PROVE  FreedIn(V, R2, p)
  <2>1. (p \in H \/ \E i \in 1 .. Len(U) : Keeps(U[i], p)) \/ Keeps(b, p)
      BY <1>1, <1>3, <1>5
  <2>2. p \in R \/ Keeps(b, p) \/ \E i \in 1 .. Len(U) : Frees(U[i], p)
      BY <2>1 DEF LeakOK, FreedIn
  <2>3. p \in R2 \/ Frees(b, p) \/ \E i \in 1 .. Len(U) : Frees(U[i], p)
      BY <2>2
  <2> QED
      BY <1>1, <1>3, <1>4, <2>3 DEF FreedIn
<1> QED
    BY <1>1, <1>5 DEF LeakOK, V

(* The first buffer is taken.                                              *)
LEMMA LeakTail ==
    ASSUME NEW U \in Seq(Buffers), U # <<>>, NEW C, NEW H, NEW H2, NEW R, NEW R2, LeakOK(U, H, R), LinkOK(U, C, H),
           \A p \in Packets : p \in H2 => p \in H \/ Keeps(U[1], p),
           \A p \in Packets : p \in H2 /\ Frees(U[1], p) => p \in R2,
           \A p \in Packets : p \in R => p \in R2
    PROVE  LeakOK(Tail(U), H2, R2)
<1> DEFINE V == Tail(U)
<1>1. Len(U) \in Nat \ {0}
    BY EmptySeq
<1>2. V \in Seq(Buffers) /\ Len(V) = Len(U) - 1 /\ \A i \in 1 .. Len(V) : V[i] = U[i + 1]
    BY HeadTailProperties
<1> HIDE DEF V
<1>3. 1 \in 1 .. Len(U) /\ \A i \in 1 .. Len(V) : i + 1 \in 1 .. Len(U)
    BY <1>1, <1>2
<1>4. ASSUME NEW i \in 1 .. Len(U), i # 1
      PROVE  \E k \in 1 .. Len(V) : V[k] = U[i]
  <2>1. i - 1 \in 1 .. Len(V) /\ (i - 1) + 1 = i
      BY <1>1, <1>2, <1>4
  <2> QED
      BY <1>2, <2>1
<1>5. ASSUME NEW p \in Packets, p \in H2 \/ \E i \in 1 .. Len(V) : Keeps(V[i], p)
      PROVE  FreedIn(V, R2, p)
  <2>1. p \in H \/ \E i \in 1 .. Len(U) : Keeps(U[i], p)
      BY <1>2, <1>3, <1>5
  <2>2. p \in R \/ \E i \in 1 .. Len(U) : Frees(U[i], p)
      BY <2>1 DEF LeakOK, FreedIn
  <2>3. Frees(U[1], p) => p \in R2
    <3> SUFFICES ASSUME Frees(U[1], p), NEW i \in 1 .. Len(V), Keeps(V[i], p)
                 PROVE  FALSE
        BY <1>5
    <3>1. Carries(U[i + 1], p) /\ i + 1 \in 1 .. Len(U) /\ (i + 1) - 1 = i /\ i \in Nat /\ 1 \in 1 .. i
        BY <1>2, <1>3 DEF Keeps
    <3>2. MayFollow(U, i, C, H, U[i + 1])
        BY <3>1 DEF LinkOK
    <3>3. NotMentioned(U, i, p)
        BY <3>1, <3>2 DEF MayFollow, Mentions, Carries
    <3> QED
        BY <3>1, <3>3 DEF NotMentioned, Mentions, Frees
  <2> QED
      BY <1>4, <2>2, <2>3 DEF FreedIn
<1> QED
    BY <1>5 DEF LeakOK, V

(* A buffer and the release that is due after it.                          *)
LEMMA QueuedLeak ==
    ASSUME NEW w \in Seq(Buffers), NEW q \in Seq(Buffers), NEW b \in Buffers,
           NEW ready \in SUBSET Packets, IsFiniteSet(ready), NEW r, Queued(q, b, ready, r),
           NEW H, NEW R, NEW T, LeakOK(w \o q, H, R),
           \A p \in Packets : p \in R \/ Keeps(b, p) => p \in T \cup ready \/ Frees(b, p)
    PROVE  LeakOK(w \o r, H, T \cup ReadyAfter(ready))
<1> DEFINE U == w \o q
<1>1. PICK c \in Buffers :
        /\ SameButGroup(c, b)
        /\ IF ReleaseDue(ready)
           THEN \E x \in Buffers : SameButGroup(x, ReleaseBuffer(ready)) /\ r = Append(Append(q, c), x)
           ELSE r = Append(q, c)
    BY DEF Queued
<1> DEFINE V == Append(U, c)
<1>2. U \in Seq(Buffers)
    BY ConcatProperties
<1>3. w \o Append(q, c) = V
    BY <1>1, ConcatAppend
<1>4. \A p : (Keeps(c, p) <=> Keeps(b, p)) /\ (Frees(c, p) <=> Frees(b, p))
    BY <1>1 DEF SameButGroup, Keeps, Carries, Frees
<1> HIDE DEF U
<1>5. V \in Seq(Buffers) /\ LeakOK(V, H, T \cup ready)
  <2>1. LeakOK(U, H, R) /\ \A p \in Packets : p \in R \/ Keeps(c, p) => p \in T \cup ready \/ Frees(c, p)
      BY <1>4 DEF U
  <2> QED
      BY <1>1, <1>2, <2>1, LeakAppend
<1> HIDE DEF V
<1>6. CASE ~ReleaseDue(ready)
  <2>1. w \o r = V /\ ReadyAfter(ready) = ready
      BY <1>1, <1>3, <1>6 DEF ReadyAfter
  <2> QED
      BY <1>5, <2>1
<1>7. CASE ReleaseDue(ready)
  <2>1. PICK x \in Buffers : SameButGroup(x, ReleaseBuffer(ready)) /\ r = Append(Append(q, c), x)
      BY <1>1, <1>7
  <2>2. w \o r = Append(V, x)
    <3>1. Append(q, c) \in Seq(Buffers)
        BY <1>1, AppendProperties
    <3>2. w \o Append(Append(q, c), x) = Append(w \o Append(q, c), x)
        BY <2>1, <3>1, ConcatAppend
    <3> QED
        BY <1>3, <2>1, <3>2
  <2>3. ReleaseBuffer(ready).type = "release" /\ ReleaseBuffer(ready).ids = ready
      BY ReleaseMade
  <2>4. \A p : ~Keeps(x, p) /\ (Frees(x, p) <=> p \in ready)
      BY <2>1, <2>3 DEF SameButGroup, Keeps, Carries, Frees
  <2>5. \A p \in Packets : p \in T \cup ready \/ Keeps(x, p) => p \in T \/ Frees(x, p)
      BY <2>4
  <2>6. LeakOK(Append(V, x), H, T)
      BY <1>5, <2>1, <2>5, LeakAppend
  <2>7. T \cup ReadyAfter(ready) = T
      BY <1>7 DEF ReadyAfter
  <2> QED
      BY <2>2, <2>6, <2>7
<1> QED
    BY <1>6, <1>7

(* What a step of the client does to what it keeps.                        *)
Freed(b) ==
    /\ OnePlace'
    /\ \A p \in Packets : p \in HeldPackets' => p \in HeldPackets \/ Keeps(b, p)
    /\ \A p \in Packets : p \in HeldPackets' /\ Frees(b, p) => p \in flagLost'
    /\ flagLost \subseteq flagLost'

(* addEventPacketBuffer.                                                   *)
LEMMA EventFreed ==
    ASSUME OnePlace, NEW b \in Buffers, Shaped(b), AddEventPacketBuffer(b)
    PROVE  Freed(b)
<1>1. b.type = "event" /\ b.ids = {} /\ UNCHANGED <<referencedPackets, waiting, flagLost>>
    BY DEF AddEventPacketBuffer, Shaped
<1>2. HeldPackets' = HeldPackets /\ OnePlace'
    BY <1>1 DEF HeldPackets, OnePlace
<1> QED
    BY <1>1, <1>2 DEF Freed, Frees

(* addDataPacketBuffer of a packet that has to wait.                       *)
LEMMA WaitFreed ==
    ASSUME ClientTypes, OnePlace, NEW b \in Buffers, Shaped(b), Expected(b), b.type = "data", Waits(b),
           waiting' = [waiting EXCEPT ![DomainOf[b.packet]] = Append(@, Wait(b))],
           UNCHANGED <<referencedPackets, flagLost>>
    PROVE  Freed(b)
<1> DEFINE v == b.packet
           d == DomainOf[b.packet]
           n == Len(waiting[d])
           a == Append(waiting[d], Wait(b))
<1>1. v \in Packets /\ b.signal \in Signals /\ b.canRelease \in BOOLEAN /\ b.ids = {}
    BY DEF Shaped, Buffers
<1>2. d \in Packets
    BY <1>1, PacketStreamingAssumption DEF Waits
<1>3. Wait(b) \in WaitEntries /\ Wait(b).packet = v /\ Wait(b).canRelease = b.canRelease
    BY <1>1 DEF Wait, WaitEntries
<1>4. waiting[d] \in Seq(WaitEntries) /\ n \in Nat /\ DOMAIN waiting[d] = 1 .. n
    BY <1>2, WaitingTypes
<1>5. /\ a \in Seq(WaitEntries) /\ Len(a) = n + 1 /\ a[n + 1] = Wait(b)
      /\ \A i \in 1 .. n : a[i] = waiting[d][i]
    BY <1>3, <1>4, AppendProperties
<1> HIDE DEF a
<1>6. DOMAIN a = 1 .. n + 1 /\ \A i \in 1 .. n + 1 : i \in 1 .. n \/ i = n + 1
    BY <1>4, <1>5, LenProperties
<1>7. waiting \in [Packets -> Seq(WaitEntries)] /\ waiting' = [waiting EXCEPT ![d] = a]
    BY DEF ClientTypes, a
<1>8. waiting'[d] = a /\ \A e \in Packets : e # d => waiting'[e] = waiting[e]
    BY <1>2, <1>7
<1> HIDE DEF d, n
<1>9. v \notin DOMAIN referencedPackets /\ \A e \in Packets : \A i \in DOMAIN waiting[e] : waiting[e][i].packet # v
  <2>1. v \notin KnownPackets
      BY <1>1 DEF Expected, Mentions, Carries
  <2> QED
      BY <1>1, <2>1, KnownMeans
<1>10. ASSUME NEW e \in Packets, NEW i \in DOMAIN waiting'[e]
       PROVE  \/ e = d /\ i = n + 1 /\ waiting'[e][i] = Wait(b)
              \/ i \in DOMAIN waiting[e] /\ waiting'[e][i] = waiting[e][i]
  <2>1. CASE e = d
      BY <1>4, <1>5, <1>6, <1>8, <1>10, <2>1
  <2>2. CASE e # d
      BY <1>8, <1>10, <2>2
  <2> QED
      BY <2>1, <2>2
<1>11. OnePlace'
  <2>1. ASSUME NEW e \in Packets, NEW i \in DOMAIN waiting'[e], NEW j \in DOMAIN waiting'[e],
               waiting'[e][i].packet = waiting'[e][j].packet
        PROVE  i = j
    <3>1. \/ e = d /\ i = n + 1 /\ waiting'[e][i].packet = v
          \/ i \in DOMAIN waiting[e] /\ waiting'[e][i] = waiting[e][i]
        BY <1>3, <1>10
    <3>2. \/ e = d /\ j = n + 1 /\ waiting'[e][j].packet = v
          \/ j \in DOMAIN waiting[e] /\ waiting'[e][j] = waiting[e][j]
        BY <1>3, <1>10
    <3> QED
        BY <1>9, <2>1, <3>1, <3>2 DEF OnePlace
  <2>2. ASSUME NEW e \in Packets, NEW i \in DOMAIN waiting'[e]
        PROVE  waiting'[e][i].packet \notin DOMAIN referencedPackets
      BY <1>3, <1>9, <1>10 DEF OnePlace
  <2> QED
      BY <2>1, <2>2 DEF OnePlace
<1>12. ASSUME NEW p \in Packets, p \in HeldPackets'
       PROVE  p \in HeldPackets \/ Keeps(b, p)
  <2>1. CASE p \in DOMAIN referencedPackets
      BY <2>1 DEF HeldPackets
  <2>2. ASSUME NEW e \in Packets, NEW i \in DOMAIN waiting'[e], waiting'[e][i].packet = p, ~waiting'[e][i].canRelease
        PROVE  p \in HeldPackets \/ Keeps(b, p)
    <3>1. CASE i \in DOMAIN waiting[e] /\ waiting'[e][i] = waiting[e][i]
        BY <2>2, <3>1 DEF HeldPackets
    <3>2. CASE waiting'[e][i] = Wait(b)
        BY <1>3, <2>2, <3>2 DEF Keeps, Carries
    <3> QED
        BY <1>10, <3>1, <3>2
  <2> QED
      BY <1>12, <2>1, <2>2 DEF HeldPackets
<1>13. \A p : ~Frees(b, p)
    BY <1>1 DEF Frees
<1> QED
    BY <1>11, <1>12, <1>13 DEF Freed

(* The same of one that arrives, with those that have waited for it.       *)
LEMMA ProcessFreed ==
    ASSUME ClientTypes, OnePlace, NEW b \in Buffers, Shaped(b), Expected(b), b.type = "data", ProcessData(b),
           UNCHANGED flagLost
    PROVE  Freed(b)
<1> DEFINE v == b.packet
<1>1. v \in Packets /\ b.ids = {}
    BY DEF Shaped
<1>2. waiting \in [Packets -> Seq(WaitEntries)] /\ waiting' = [waiting EXCEPT ![v] = <<>>]
    BY DEF ProcessData, ClientTypes
<1>3. waiting'[v] = <<>> /\ DOMAIN <<>> = {} /\ \A e \in Packets : e # v => waiting'[e] = waiting[e]
    BY <1>1, <1>2
<1>4. DOMAIN referencedPackets' = DOMAIN referencedPackets
                 \cup {waiting[v][i].packet : i \in {k \in DOMAIN waiting[v] : ~waiting[v][k].canRelease}}
                 \cup (IF b.canRelease THEN {} ELSE {v})
    BY <1>1, RememberedAre DEF ProcessData
<1>5. \A e \in Packets : \A i \in DOMAIN waiting'[e] : e # v /\ i \in DOMAIN waiting[e] /\ waiting'[e][i] = waiting[e][i]
    BY <1>3
<1>6. v \notin DOMAIN referencedPackets /\ \A e \in Packets : \A i \in DOMAIN waiting[e] : waiting[e][i].packet # v
  <2>1. v \notin KnownPackets
      BY <1>1 DEF Expected, Mentions, Carries
  <2> QED
      BY <1>1, <2>1, KnownMeans
<1>7. \A e \in Packets : \A i \in DOMAIN waiting[e] : DomainOf[waiting[e][i].packet] = e
    BY DEF ClientTypes
<1>8. OnePlace'
  <2>1. ASSUME NEW e \in Packets, NEW i \in DOMAIN waiting'[e]
        PROVE  waiting'[e][i].packet \notin DOMAIN referencedPackets'
    <3>1. e # v /\ i \in DOMAIN waiting[e] /\ waiting'[e][i] = waiting[e][i]
        BY <1>5
    <3>2. waiting[e][i].packet \notin DOMAIN referencedPackets /\ waiting[e][i].packet # v
        BY <1>6, <3>1 DEF OnePlace
    <3>3. \A k \in DOMAIN waiting[v] : waiting[v][k].packet # waiting[e][i].packet
        BY <1>1, <1>7, <3>1
    <3> QED
        BY <1>4, <3>1, <3>2, <3>3
  <2>2. ASSUME NEW e \in Packets, NEW i \in DOMAIN waiting'[e], NEW j \in DOMAIN waiting'[e],
               waiting'[e][i].packet = waiting'[e][j].packet
        PROVE  i = j
      BY <1>5, <2>2 DEF OnePlace
  <2> QED
      BY <2>1, <2>2 DEF OnePlace
<1>9. ASSUME NEW p \in Packets, p \in HeldPackets'
      PROVE  p \in HeldPackets \/ Keeps(b, p)
  <2>1. CASE p \in DOMAIN referencedPackets'
    <3>1. CASE p \in DOMAIN referencedPackets
        BY <3>1 DEF HeldPackets
    <3>2. CASE \E i \in DOMAIN waiting[v] : waiting[v][i].packet = p /\ ~waiting[v][i].canRelease
        BY <1>1, <3>2 DEF HeldPackets
    <3>3. CASE p = v /\ ~b.canRelease
        BY <3>3 DEF Keeps, Carries
    <3> QED
        BY <1>4, <2>1, <3>1, <3>2, <3>3
  <2>2. ASSUME NEW e \in Packets, NEW i \in DOMAIN waiting'[e], waiting'[e][i].packet = p, ~waiting'[e][i].canRelease
        PROVE  p \in HeldPackets
      BY <1>5, <2>2 DEF HeldPackets
  <2> QED
      BY <1>9, <2>1, <2>2 DEF HeldPackets
<1>10. \A p : ~Frees(b, p)
    BY <1>1 DEF Frees
<1> QED
    BY <1>8, <1>9, <1>10 DEF Freed

(* addReleasePacketBuffer.                                                 *)
LEMMA ReleaseFreed ==
    ASSUME ClientTypes, OnePlace, NEW b \in Buffers, Shaped(b), Expected(b), AddReleasePacketBuffer(b)
    PROVE  Freed(b)
<1>1. b.type = "release" /\ b.ids \subseteq Packets
    BY DEF AddReleasePacketBuffer, Buffers
<1>2. \A p : ~Carries(b, p) /\ (Frees(b, p) <=> p \in b.ids)
    BY <1>1 DEF Carries, Frees
<1>3. b.ids \subseteq HeldPackets
    BY <1>1, <1>2 DEF Expected, Mentions
<1>4. b.ids \subseteq DOMAIN referencedPackets \cup WaitingPackets
    BY <1>3 DEF HeldPackets, WaitingPackets, WaitingFor
<1>5. /\ referencedPackets' = Forget(referencedPackets, b.ids)
      /\ waiting' = [d \in Packets |-> [i \in DOMAIN waiting[d] |->
                   IF waiting[d][i].packet \in b.ids \ DOMAIN referencedPackets
                   THEN [waiting[d][i] EXCEPT !.canRelease = ~@] ELSE waiting[d][i]]]
      /\ UNCHANGED flagLost
    BY <1>4 DEF AddReleasePacketBuffer
<1>6. DOMAIN referencedPackets' = DOMAIN referencedPackets \ b.ids
    BY <1>5 DEF Forget
<1>7. ASSUME NEW d \in Packets
      PROVE  /\ DOMAIN waiting'[d] = DOMAIN waiting[d]
             /\ \A i \in DOMAIN waiting[d] :
                    /\ waiting'[d][i].packet = waiting[d][i].packet
                    /\ waiting[d][i].packet \notin b.ids => waiting'[d][i] = waiting[d][i]
                    /\ waiting[d][i].packet \in b.ids \ DOMAIN referencedPackets =>
                           (waiting'[d][i].canRelease <=> ~waiting[d][i].canRelease)
  <2>1. DOMAIN waiting'[d] = DOMAIN waiting[d]
      BY <1>5
  <2>2. ASSUME NEW i \in DOMAIN waiting[d]
        PROVE  /\ waiting'[d][i].packet = waiting[d][i].packet
               /\ waiting[d][i].packet \notin b.ids => waiting'[d][i] = waiting[d][i]
               /\ waiting[d][i].packet \in b.ids \ DOMAIN referencedPackets =>
                      (waiting'[d][i].canRelease <=> ~waiting[d][i].canRelease)
    <3>1. waiting'[d][i] = IF waiting[d][i].packet \in b.ids \ DOMAIN referencedPackets
                           THEN [waiting[d][i] EXCEPT !.canRelease = ~@] ELSE waiting[d][i]
        BY <1>5
    <3>2. waiting[d][i] \in WaitEntries
        BY WaitingTypes
    <3>3. [waiting[d][i] EXCEPT !.canRelease = ~@].packet = waiting[d][i].packet
          /\ ([waiting[d][i] EXCEPT !.canRelease = ~@].canRelease <=> ~waiting[d][i].canRelease)
        BY <3>2 DEF WaitEntries
    <3> QED
        BY <3>1, <3>3
  <2> QED
      BY <2>1, <2>2
<1>8. OnePlace'
    BY <1>6, <1>7 DEF OnePlace
<1>9. ASSUME NEW p \in Packets, p \in HeldPackets'
      PROVE  p \in HeldPackets /\ p \notin b.ids
  <2>1. CASE p \in DOMAIN referencedPackets'
      BY <1>6, <2>1 DEF HeldPackets
  <2>2. ASSUME NEW e \in Packets, NEW i \in DOMAIN waiting'[e], waiting'[e][i].packet = p, ~waiting'[e][i].canRelease
        PROVE  p \in HeldPackets /\ p \notin b.ids
    <3>1. i \in DOMAIN waiting[e] /\ waiting[e][i].packet = p
        BY <1>7, <2>2
    <3>2. p \notin b.ids
      <4> SUFFICES ASSUME p \in b.ids
                   PROVE  FALSE
          OBVIOUS
      <4>1. p \notin DOMAIN referencedPackets
          BY <3>1 DEF OnePlace
      <4>2. waiting[e][i].canRelease
          BY <1>7, <2>2, <3>1, <4>1
      <4>3. PICK f \in Packets : \E j \in DOMAIN waiting[f] : waiting[f][j].packet = p /\ ~waiting[f][j].canRelease
          BY <1>3, <4>1 DEF HeldPackets
      <4>4. PICK j \in DOMAIN waiting[f] : waiting[f][j].packet = p /\ ~waiting[f][j].canRelease
          BY <4>3
      <4>5. f = e
          BY <3>1, <4>4 DEF ClientTypes
      <4>6. i = j
          BY <3>1, <4>4, <4>5 DEF OnePlace
      <4> QED
          BY <4>2, <4>4, <4>5, <4>6
    <3> QED
        BY <1>7, <2>2, <3>1, <3>2 DEF HeldPackets
  <2> QED
      BY <1>9, <2>1, <2>2 DEF HeldPackets
<1> QED
    BY <1>2, <1>5, <1>8, <1>9 DEF Freed

(* addAlreadySentPacketBuffer.                                             *)
LEMMA AlreadySentFreed ==
    ASSUME ClientTypes, OnePlace, NEW b \in Buffers, Shaped(b), Expected(b), AddAlreadySentPacketBuffer(b)
    PROVE  Freed(b)
<1> DEFINE v == b.packet
<1>1. b.type = "alreadySent" /\ v \in Packets /\ b.signal \in Signals /\ b.ids = {} /\ b.canRelease \in BOOLEAN
    BY DEF AddAlreadySentPacketBuffer, Shaped, Buffers
<1>2. \A p : ~Carries(b, p) /\ (Frees(b, p) <=> p = v /\ b.canRelease)
    BY <1>1 DEF Carries, Frees
<1>3. v \in HeldPackets /\ known[b.signal].value # Unchanged
    BY <1>1, <1>2 DEF Expected, Mentions
<1>4. Found(b)
  <2>1. CASE v \in DOMAIN referencedPackets
      BY <2>1 DEF Found
  <2>2. ASSUME NEW e \in Packets, NEW i \in DOMAIN waiting[e], waiting[e][i].packet = v
        PROVE  Found(b)
    <3>1. DomainOf[v] = e
        BY <2>2 DEF ClientTypes
    <3>2. v \in WaitingFor(e) /\ e # NoPacket
        BY <2>2, PacketStreamingAssumption DEF WaitingFor
    <3> QED
        BY <3>1, <3>2 DEF Found
  <2> QED
      BY <1>3, <2>1, <2>2 DEF HeldPackets
<1>5. AlreadySentReferenced(b) \/ AlreadySentWaiting(b)
    BY <1>3, <1>4 DEF AddAlreadySentPacketBuffer
<1>6. CASE AlreadySentReferenced(b)
  <2>1. UNCHANGED <<waiting, flagLost>> /\ v \in DOMAIN referencedPackets
      BY <1>6 DEF AlreadySentReferenced
  <2>2. /\ DOMAIN referencedPackets' \subseteq DOMAIN referencedPackets
        /\ b.canRelease => v \notin DOMAIN referencedPackets'
      BY <1>6 DEF AlreadySentReferenced, Forget
  <2>3. \A e \in Packets : \A i \in DOMAIN waiting[e] : waiting[e][i].packet # v
      BY <2>1 DEF OnePlace
  <2>4. OnePlace'
      BY <2>1, <2>2 DEF OnePlace
  <2>5. \A p \in Packets : p \in HeldPackets' => p \in HeldPackets /\ ~(p = v /\ b.canRelease)
      BY <2>1, <2>2, <2>3 DEF HeldPackets
  <2> QED
      BY <1>2, <2>1, <2>4, <2>5 DEF Freed
<1>7. CASE AlreadySentWaiting(b)
  <2>1. PICK d \in Packets : \E i \in DOMAIN waiting[d] :
               /\ d = DomainOf[b.packet] /\ waiting[d][i].packet = b.packet
               /\ waiting' = [waiting EXCEPT ![d] = [waiting[d] EXCEPT ![i] =
                      [waiting[d][i] EXCEPT !.more = Append(waiting[d][i].more, b.signal)]]]
      BY <1>1, <1>4, <1>7, WaitingMore
  <2>2. PICK i \in DOMAIN waiting[d] :
               /\ d = DomainOf[b.packet] /\ waiting[d][i].packet = b.packet
               /\ waiting' = [waiting EXCEPT ![d] = [waiting[d] EXCEPT ![i] =
                      [waiting[d][i] EXCEPT !.more = Append(waiting[d][i].more, b.signal)]]]
      BY <2>1
  <2> DEFINE w == [waiting[d][i] EXCEPT !.more = Append(waiting[d][i].more, b.signal)]
  <2>3. waiting[d][i] \in WaitEntries
      BY WaitingTypes
  <2>4. w.packet = waiting[d][i].packet /\ w.canRelease = waiting[d][i].canRelease
      BY <2>3 DEF WaitEntries
  <2>5. waiting' = [waiting EXCEPT ![d] = [waiting[d] EXCEPT ![i] = w]]
      BY <2>2
  <2> HIDE DEF w
  <2>6. waiting \in [Packets -> Seq(WaitEntries)]
      BY DEF ClientTypes
  <2>7. ASSUME NEW e \in Packets
        PROVE  /\ DOMAIN waiting'[e] = DOMAIN waiting[e]
               /\ \A k \in DOMAIN waiting[e] :
                      /\ waiting'[e][k].packet = waiting[e][k].packet
                      /\ waiting'[e][k].canRelease = waiting[e][k].canRelease
    <3>1. CASE e = d
      <4>1. waiting'[e] = [waiting[d] EXCEPT ![i] = w]
          BY <2>5, <2>6, <3>1
      <4> QED
          BY <2>4, <3>1, <4>1
    <3>2. CASE e # d
        BY <2>5, <2>6, <3>2
    <3> QED
        BY <3>1, <3>2
  <2>8. /\ UNCHANGED referencedPackets
        /\ flagLost' = IF b.canRelease THEN flagLost \cup {v} ELSE flagLost
      BY <1>7 DEF AlreadySentWaiting
  <2>9. OnePlace'
      BY <2>7, <2>8 DEF OnePlace
  <2>10. \A p \in Packets : p \in HeldPackets' => p \in HeldPackets
      BY <2>7, <2>8 DEF HeldPackets
  <2> QED
      BY <1>2, <2>8, <2>9, <2>10 DEF Freed
<1> QED
    BY <1>5, <1>6, <1>7

(* addDaqPacket of an event.                                               *)
LEMMA AddEventLeak ==
    ASSUME StreamInv, LeakInv, NEW s \in Signals, AddEventPacket(s)
    PROVE  LeakInv'
<1> DEFINE e == Head(pending[s])
           b == EventBuffer(s, e)
           H == HeldPackets
           ready == readyForRelease
           T == sent \cup flagLost
<1>1. StreamTypes /\ GroupsOK(out)
    BY DEF StreamInv
<1>2. /\ pending[s] # <<>> /\ e.kind = "event"
      /\ Destroy(pending', out'.queue, wire, kept, sent, ReadyAfter(readyForRelease))
      /\ UNCHANGED <<wire, referencedPackets, waiting, flagLost>>
    BY DEF AddEventPacket, clientVars
<1>3. Queued(out.queue, b, ready, out'.queue)
    BY <1>1, AddEventTypes
<1>4. e \in Events
    BY <1>1, <1>2, FirstMessage
<1>5. b \in Buffers /\ b.type = "event"
    BY <1>4, BuffersMade
<1>6. /\ ready \in SUBSET Packets /\ IsFiniteSet(ready)
      /\ out.queue \in Seq(Buffers) /\ wire \in Seq(Buffers)
    BY <1>1 DEF StreamTypes
<1>7. OnePlace' /\ HeldPackets' = H
    BY <1>2 DEF LeakInv, OnePlace, HeldPackets
<1>8. LeakOK(wire \o out.queue, H, sent \cup readyForRelease \cup flagLost)
    BY DEF LeakInv, Underway
<1> HIDE DEF b, H
<1>9. \A p \in Packets : p \in sent \cup readyForRelease \cup flagLost \/ Keeps(b, p) => p \in T \cup ready \/ Frees(b, p)
    BY <1>5 DEF Keeps, Carries
<1>10. LeakOK(wire \o out'.queue, H, T \cup ReadyAfter(ready))
  <2> DEFINE r == out'.queue
             q == out.queue
             R == sent \cup readyForRelease \cup flagLost
  <2>1. Queued(q, b, ready, r)
      BY <1>3
  <2>2. /\ LeakOK(wire \o q, H, R)
        /\ \A p \in Packets : p \in R \/ Keeps(b, p) => p \in T \cup ready \/ Frees(b, p)
      BY <1>8, <1>9
  <2>3. q \in Seq(Buffers) /\ ready \in SUBSET Packets /\ IsFiniteSet(ready)
      BY <1>6
  <2> HIDE DEF r, q, R, T, ready
  <2>4. LeakOK(wire \o r, H, T \cup ReadyAfter(ready))
      BY ZenonT(40), <1>5, <1>6, <2>1, <2>2, <2>3, QueuedLeak
  <2> QED
      BY <2>4 DEF r
<1>11. sent' = sent \cap alive' /\ readyForRelease' = ReadyAfter(readyForRelease) \cup (sent \ alive')
    BY <1>2 DEF Destroy
<1>12. T \cup ReadyAfter(ready) = sent' \cup readyForRelease' \cup flagLost'
    BY <1>2, <1>11
<1>13. Underway' = wire \o out'.queue
    BY <1>2 DEF Underway
<1> QED
    BY <1>7, <1>10, <1>12, <1>13 DEF LeakInv

(* addDaqPacket of a data packet.                                          *)
LEMMA AddDataLeak ==
    ASSUME StreamInv, LeakInv, NEW s \in Signals, NEW moved \in BOOLEAN, AddDataPacket(s, moved)
    PROVE  LeakInv'
<1> DEFINE p0 == Head(pending[s]).packet
           m == Mark(s, moved)
           b == Added(s, moved)
           S == SentNow(s, moved)
           gone == Gone(s, moved)
           ready == readyForRelease \cup gone
           rest == [pending EXCEPT ![s] = Tail(@)]
           H == HeldPackets
           T == (S \ gone) \cup flagLost
<1>1. StreamTypes /\ GroupsOK(out) /\ Fresh(pending, kept) \subseteq alive
    BY DEF StreamInv, LinkInv
<1>2. UNCHANGED <<wire, referencedPackets, waiting, flagLost>>
    BY DEF AddDataPacket, clientVars
<1>3. /\ Queued(out.queue, b, ready, out'.queue)
      /\ gone \subseteq S
      /\ sent' = (S \ gone) \cap alive' /\ readyForRelease' = ReadyAfter(ready) \cup ((S \ gone) \ alive')
      /\ p0 \in Packets /\ Data(p0) \in ToSet(pending[s])
    BY <1>1, AddDataTypes
<1>4. /\ readyForRelease \subseteq Packets /\ IsFiniteSet(readyForRelease) /\ IsFiniteSet(sent)
      /\ readyForRelease \cap alive = {} /\ alive \subseteq Packets
      /\ sent \subseteq alive /\ out.queue \in Seq(Buffers) /\ wire \in Seq(Buffers)
    BY <1>1 DEF StreamTypes
<1>5. p0 \in alive
    BY <1>1, <1>3 DEF Fresh
<1>6. m \in BOOLEAN
    BY DEF Mark, OnlyReference, HeldDirectly
<1>7. /\ b \in Buffers /\ b.packet = p0 /\ b.canRelease = m
      /\ p0 \in sent => b.type = "alreadySent"
      /\ p0 \notin sent => b.type = "data"
  <2> HIDE DEF m
  <2>1. b = IF p0 \in sent THEN AlreadySentBuffer(s, p0, m) ELSE DataBuffer(s, p0, m)
      BY DEF Added, m
  <2> QED
      BY <1>3, <1>6, <2>1, BuffersMade
<1>8. S = IF m THEN sent \ {p0} ELSE sent \cup {p0}
    BY DEF SentNow, SentAfter
<1>9. OnePlace' /\ HeldPackets' = H
    BY <1>2 DEF LeakInv, OnePlace, HeldPackets
<1>10. LeakOK(wire \o out.queue, H, sent \cup readyForRelease \cup flagLost)
    BY DEF LeakInv, Underway
<1> HIDE DEF p0, m, b, S, gone, rest, H
<1>11. ready \in SUBSET Packets /\ IsFiniteSet(ready)
  <2>1. S \subseteq sent \cup {p0}
      BY <1>8
  <2>2. IsFiniteSet(sent \cup {p0})
      BY <1>4, FS_AddElement
  <2>3. IsFiniteSet(gone)
      BY <1>3, <2>1, <2>2, FS_Subset
  <2> QED
      BY <1>3, <1>4, <2>1, <2>3, FS_Union
<1>12. \A p \in Packets : p \in sent \cup readyForRelease \cup flagLost \/ Keeps(b, p) => p \in T \cup ready \/ Frees(b, p)
  <2> SUFFICES ASSUME NEW p \in Packets, p \in sent \cup readyForRelease \cup flagLost \/ Keeps(b, p)
               PROVE  p \in T \cup ready \/ Frees(b, p)
      OBVIOUS
  <2>1. CASE p # p0
      BY <1>7, <1>8, <2>1 DEF Keeps, Carries
  <2>2. CASE p = p0 /\ ~m
      BY <1>8, <2>2
  <2>3. CASE p = p0 /\ m
    <3>1. p0 \in sent => Frees(b, p)
        BY <1>7, <2>3 DEF Frees
    <3>2. ~Keeps(b, p) /\ p \notin readyForRelease
        BY <1>4, <1>5, <1>7, <2>3 DEF Keeps
    <3> QED
        BY <2>3, <3>1, <3>2
  <2> QED
      BY <1>6, <2>1, <2>2, <2>3
<1>13. LeakOK(wire \o out'.queue, H, T \cup ReadyAfter(ready))
  <2> DEFINE r == out'.queue
             R == sent \cup readyForRelease \cup flagLost
  <2>1. Queued(out.queue, b, ready, r)
      BY <1>3
  <2>2. LeakOK(wire \o out.queue, H, R) /\ \A p \in Packets : p \in R \/ Keeps(b, p) => p \in T \cup ready \/ Frees(b, p)
      BY <1>10, <1>12
  <2> HIDE DEF r, R, T, ready
  <2>3. wire \in Seq(Buffers) /\ out.queue \in Seq(Buffers) /\ b \in Buffers
      BY <1>4, <1>7
  <2>4. LeakOK(wire \o r, H, T \cup ReadyAfter(ready))
      BY ZenonT(40), <1>11, <2>1, <2>2, <2>3, QueuedLeak
  <2> QED
      BY <2>4 DEF r
<1>14. T \cup ReadyAfter(ready) = sent' \cup readyForRelease' \cup flagLost'
    BY <1>2, <1>3
<1>15. Underway' = wire \o out'.queue
    BY <1>2 DEF Underway
<1> QED
    BY <1>9, <1>13, <1>14, <1>15 DEF LeakInv

(* Steps that leave the link and the client alone.                         *)
LEMMA SameLeak ==
    ASSUME LeakInv, Underway' = Underway, UNCHANGED <<referencedPackets, waiting, flagLost>>,
           sent' \cup readyForRelease' = sent \cup readyForRelease
    PROVE  LeakInv'
<1>1. OnePlace' /\ HeldPackets' = HeldPackets
    BY DEF LeakInv, OnePlace, HeldPackets
<1>2. sent' \cup readyForRelease' \cup flagLost' = sent \cup readyForRelease \cup flagLost
    OBVIOUS
<1> QED
    BY <1>1, <1>2 DEF LeakInv

(* addPacketBuffer.                                                        *)
LEMMA ClientLeak ==
    ASSUME StreamInv, LeakInv, AddPacketBuffer
    PROVE  LeakInv'
<1> DEFINE b == Head(wire)
           U == Underway
           C == KnownPackets
           H == HeldPackets
           R == sent \cup readyForRelease \cup flagLost
<1>1. /\ StreamTypes /\ ClientTypes /\ WaitersDescribed /\ failed = FALSE /\ OnePlace
      /\ LinkOK(U, C, H) /\ DescribedOK(U, known) /\ LeakOK(U, H, R)
    BY DEF StreamInv, LinkInv, DescribedInv, StreamTypes, ClientTypes, WaitersDescribed, LeakInv
<1>2. /\ wire # <<>> /\ wire' = Tail(wire)
      /\ \/ AddEventPacketBuffer(b) \/ AddDataPacketBuffer(b)
         \/ AddReleasePacketBuffer(b) \/ AddAlreadySentPacketBuffer(b)
      /\ UNCHANGED out
    BY DEF AddPacketBuffer, serverVars
<1>3. b \in Buffers /\ Shaped(b) /\ b = wire[1]
    BY <1>1, <1>2, HeadOfWire
<1>4. sent' \cup readyForRelease' = sent \cup readyForRelease
    BY <1>1, ClientStepTypes
<1>5. wire \in Seq(Buffers) /\ out.queue \in Seq(Buffers)
    BY <1>1 DEF StreamTypes
<1>6. U \in Seq(Buffers) /\ U # <<>> /\ U[1] = b /\ Underway' = Tail(U)
  <2>1. U \in Seq(Buffers) /\ U # <<>> /\ U[1] = wire[1] /\ Tail(wire) \o out.queue = Tail(U)
      BY <1>2, <1>5, UnderwayTail DEF Underway
  <2> QED
      BY <1>2, <1>3, <2>1 DEF Underway
<1>7. 1 \in 1 .. Len(U) /\ 1 - 1 = 0
    BY <1>6, EmptySeq
<1> HIDE DEF b, U
<1>8. Expected(b)
  <2>1. MayFollow(U, 0, C, H, b)
      BY <1>1, <1>6, <1>7 DEF LinkOK
  <2>2. \A p \in Packets : Comes(U, 0, H, p) => p \in H
      BY DEF Comes
  <2>3. b.type \in {"data", "alreadySent"} => DescribedIn(U, 0, known, b.signal)
      BY <1>1, <1>6, <1>7 DEF DescribedOK
  <2>4. b.type \in {"data", "alreadySent"} => known[b.signal].value # Unchanged
      BY <2>3 DEF DescribedIn
  <2> QED
      BY <2>1, <2>2, <2>4 DEF Expected, MayFollow
<1>9. Freed(b)
  <2>1. CASE AddDataPacketBuffer(b)
    <3>1. b.type = "data" /\ b.packet \in Packets
        BY <1>3, <2>1 DEF AddDataPacketBuffer, Shaped
    <3>2. CASE Waits(b)
      <4>1. /\ waiting' = [waiting EXCEPT ![DomainOf[b.packet]] = Append(@, Wait(b))]
            /\ UNCHANGED <<referencedPackets, flagLost>>
          BY <2>1, <3>2 DEF AddDataPacketBuffer
      <4> QED
          BY <1>1, <1>3, <1>8, <3>1, <3>2, <4>1, WaitFreed
    <3>3. CASE ~Waits(b)
      <4>1. ~Undescribed(b)
          BY <1>1, <1>8, <3>1 DEF Undescribed, WaitersDescribed, Expected
      <4>2. ProcessData(b) /\ UNCHANGED flagLost
          BY <2>1, <3>3, <4>1 DEF AddDataPacketBuffer
      <4> QED
          BY <1>1, <1>3, <1>8, <3>1, <4>2, ProcessFreed
    <3> QED
        BY <3>2, <3>3
  <2> QED
      BY <1>1, <1>2, <1>3, <1>8, <2>1, EventFreed, ReleaseFreed, AlreadySentFreed
<1> DEFINE H2 == HeldPackets'
           R2 == sent' \cup readyForRelease' \cup flagLost'
<1>10. /\ \A p \in Packets : p \in H2 => p \in H \/ Keeps(U[1], p)
       /\ \A p \in Packets : p \in H2 /\ Frees(U[1], p) => p \in R2
       /\ \A p \in Packets : p \in R => p \in R2
    BY <1>4, <1>6, <1>9 DEF Freed
<1> HIDE DEF C, H, R, H2, R2
<1>11. LeakOK(Tail(U), H2, R2)
    BY <1>1, <1>6, <1>10, LeakTail, Zenon
<1> QED
    BY <1>6, <1>9, <1>11 DEF LeakInv, Freed, H2, R2

(* Every step.                                                             *)
LEMMA NextLeak ==
    ASSUME StreamInv, LeakInv, [StreamNext]_streamVars
    PROVE  LeakInv'
<1>1. StreamTypes /\ GroupsOK(out) /\ kept \subseteq alive
    BY DEF StreamInv, StreamTypes
<1>2. CASE \/ UNCHANGED streamVars
           \/ \E s \in Signals, e \in LaterEvents : SetDescriptor(s, e)
           \/ \E p \in Packets, s \in Signals : SendPacket(p, s)
  <2>1. UNCHANGED <<referencedPackets, waiting, flagLost, sent, readyForRelease, wire, out>>
      BY <1>2 DEF streamVars, SetDescriptor, SendPacket, serverVars, collection, clientVars
  <2>2. Underway' = Underway
      BY <2>1 DEF Underway
  <2> QED
      BY <2>1, <2>2, SameLeak
<1>3. ASSUME NEW p \in Packets, DropPacket(p)
      PROVE  LeakInv'
  <2> DEFINE c == kept'
  <2>1. /\ UNCHANGED <<out, wire, referencedPackets, waiting, flagLost>> /\ c \subseteq kept
        /\ Destroy(pending, out.queue, wire, c, sent, readyForRelease)
      BY <1>3 DEF DropPacket, serverVars, clientVars
  <2> HIDE DEF c
  <2>2. sent' \cup readyForRelease' = sent \cup readyForRelease
      BY <1>1, <2>1, DestroySame
  <2>3. Underway' = Underway
      BY <2>1 DEF Underway
  <2> QED
      BY <2>1, <2>2, <2>3, SameLeak
<1>4. CASE GetStreamingWriteTask
  <2>1. Underway' = Underway /\ sent' \cup readyForRelease' = sent \cup readyForRelease
      BY <1>1, <1>4, TakeTypes
  <2>2. UNCHANGED <<referencedPackets, waiting, flagLost>>
      BY <1>4 DEF GetStreamingWriteTask, clientVars
  <2> QED
      BY <2>1, <2>2, SameLeak
<1>5. ASSUME NEW s \in Signals, AddEventPacket(s)
      PROVE  LeakInv'
    BY <1>5, AddEventLeak
<1>6. ASSUME NEW s \in Signals, NEW moved \in BOOLEAN, AddDataPacket(s, moved)
      PROVE  LeakInv'
    BY <1>6, AddDataLeak
<1>7. CASE AddPacketBuffer
    BY <1>7, ClientLeak
<1> QED
    BY <1>2, <1>3, <1>4, <1>5, <1>6, <1>7 DEF StreamNext

(* The invariants say what NoLeak says.                                    *)
LEMMA LeakMeans ==
    ASSUME StreamInv, LeakInv
    PROVE  NoLeak
<1>1. /\ StreamTypes /\ out.queue \in Seq(Buffers) /\ wire \in Seq(Buffers)
      /\ LeakOK(Underway, HeldPackets, sent \cup readyForRelease \cup flagLost)
    BY DEF StreamInv, StreamTypes, LeakInv
<1>2. /\ \A i \in DOMAIN out.queue : out.queue[i] \in Buffers
      /\ \A i \in DOMAIN wire : wire[i] \in Buffers
    BY <1>1, ElementOfSeq, LenProperties
<1>3. WaitingPackets \subseteq Packets
  <2>1. ClientTypes
      BY <1>1 DEF StreamTypes, ClientTypes
  <2>2. \A d \in Packets : \A i \in DOMAIN waiting[d] : waiting[d][i] \in WaitEntries
      BY <2>1, WaitingTypes
  <2> QED
      BY <2>2 DEF WaitingPackets, WaitingFor, WaitEntries
<1>4. StreamTypeOK
    BY <1>1, <1>2, <1>3 DEF StreamTypeOK, StreamTypes
<1>5. Underway \in Seq(Buffers) /\ DOMAIN Underway = 1 .. Len(Underway)
    BY <1>1, ConcatProperties, LenProperties DEF Underway
<1>6. \A p \in HeldPackets : ReleaseComes(p)
  <2>1. HeldPackets \subseteq Packets
      BY <1>1 DEF HeldPackets, StreamTypes
  <2> QED
      BY <1>1, <1>5, <2>1 DEF LeakOK, FreedIn, Frees, ReleaseComes
<1>7. \A p \in DOMAIN referencedPackets : ReleaseComes(p)
    BY <1>6 DEF HeldPackets
<1>8. ASSUME NEW d \in Packets, NEW i \in DOMAIN waiting[d], ~waiting[d][i].canRelease
      PROVE  ReleaseComes(waiting[d][i].packet)
  <2>1. waiting[d][i].packet \in HeldPackets
      BY <1>3, <1>8 DEF HeldPackets, WaitingPackets, WaitingFor
  <2> QED
      BY <1>6, <2>1
<1> QED
    BY <1>4, <1>7, <1>8 DEF NoLeak

(* No leak at the client: every packet it keeps for later references is    *)
(* one the server still counts as sent, or whose release is owed or on its *)
(* way, whenever and wherever packets are destroyed, except after a last   *)
(* reference handed over while the packet waited, the flag of which        *)
(* addAlreadySentPacketBuffer ignores.                                     *)
THEOREM NothingKeptForGood == StreamSpec => []NoLeak
<1>1. StreamInit => StreamInv /\ LeakInv
  <2> SUFFICES ASSUME StreamInit
               PROVE  StreamInv /\ LeakInv
      OBVIOUS
  <2>1. StreamInv
      BY InitStreamInv
  <2>2. /\ wire = <<>> /\ out.queue = <<>> /\ DOMAIN referencedPackets = {} /\ \A d \in Packets : waiting[d] = <<>>
      BY DEF StreamInit
  <2>3. DOMAIN <<>> = {} /\ Len(<<>>) = 0 /\ <<>> \in Seq(Buffers)
      BY EmptySeq
  <2>4. Underway = <<>>
      BY <2>2, <2>3, ConcatEmptySeq DEF Underway
  <2>5. OnePlace /\ HeldPackets = {}
      BY <2>2, <2>3 DEF OnePlace, HeldPackets
  <2>6. \A i \in 1 .. Len(Underway) : FALSE
      BY <2>3, <2>4
  <2> QED
      BY <2>1, <2>5, <2>6 DEF LeakInv, LeakOK
<1>2. StreamInv /\ LeakInv /\ [StreamNext]_streamVars => StreamInv' /\ LeakInv'
    BY NextStreamInv, NextLeak
<1>3. StreamInv /\ LeakInv => NoLeak
    BY LeakMeans
<1> QED
    BY <1>1, <1>2, <1>3, PTL DEF StreamSpec
--------------------------------------------------------------------------------
(***************************************************************************)
(* What the client receives.  FlattenSeq is defined by recursion: f[i] is  *)
(* the concatenation of the first i sequences.                             *)
(***************************************************************************)
StepsOf(ss, f, n) == f = [i \in 1 .. n |-> IF i = 1 THEN ss[i] ELSE f[i - 1] \o ss[i]]

(* There are such steps: the least place without them would have them.     *)
LEMMA StepsExist ==
    ASSUME NEW ss, NEW n \in Nat \ {0}
    PROVE  \E f : StepsOf(ss, f, n)
<1> DEFINE T == {k \in 1 .. n : ~\E f : StepsOf(ss, f, k)}
<1>1. SUFFICES ASSUME T # {} PROVE FALSE
    OBVIOUS
<1>2. PICK m \in T : \A y \in T : m <= y
    BY <1>1, FirstOne
<1>3. m \in 1 .. n /\ ~\E f : StepsOf(ss, f, m)
    BY <1>2
<1>4. CASE m = 1
  <2>1. StepsOf(ss, [i \in 1 .. 1 |-> ss[i]], 1)
      BY DEF StepsOf
  <2> QED
      BY <1>3, <1>4, <2>1
<1>5. CASE m # 1
  <2>1. m - 1 \in 1 .. n /\ m - 1 \notin T
      BY <1>2, <1>3, <1>5
  <2>2. PICK f : StepsOf(ss, f, m - 1)
      BY <2>1
  <2> DEFINE g == [i \in 1 .. m |-> IF i = 1 THEN ss[i] ELSE f[i - 1] \o ss[i]]
  <2> HIDE DEF T
  <2>3. \A i \in 1 .. m - 1 : g[i] = f[i]
    <3> SUFFICES ASSUME NEW i \in 1 .. m - 1
                 PROVE  g[i] = f[i]
        OBVIOUS
    <3>1. g[i] = IF i = 1 THEN ss[i] ELSE f[i - 1] \o ss[i]
        BY <1>3
    <3>2. f[i] = IF i = 1 THEN ss[i] ELSE f[i - 1] \o ss[i]
        BY <2>2 DEF StepsOf
    <3> QED
        BY <3>1, <3>2
  <2>4. \A i \in 1 .. m : g[i] = IF i = 1 THEN ss[i] ELSE g[i - 1] \o ss[i]
    <3> SUFFICES ASSUME NEW i \in 1 .. m
                 PROVE  g[i] = IF i = 1 THEN ss[i] ELSE g[i - 1] \o ss[i]
        OBVIOUS
    <3>1. i # 1 => i - 1 \in 1 .. m - 1
        BY <1>3
    <3> QED
        BY <1>3, <2>3, <3>1
  <2>5. g = [i \in 1 .. m |-> g[i]]
      OBVIOUS
  <2> HIDE DEF g
  <2>6. StepsOf(ss, g, m)
      BY <2>4, <2>5 DEF StepsOf
  <2> QED
      BY <1>3, <2>6
<1> QED
    BY <1>4, <1>5

(* FlattenSeq is the last of the steps.                                    *)
LEMMA FlattenSteps ==
    ASSUME NEW ss, Len(ss) \in Nat \ {0}
    PROVE  \E f : StepsOf(ss, f, Len(ss)) /\ FlattenSeq(ss) = f[Len(ss)]
<1>1. \E f : f = [i \in 1 .. Len(ss) |-> IF i = 1 THEN ss[i] ELSE f[i - 1] \o ss[i]]
    BY StepsExist DEF StepsOf
<1> DEFINE f == CHOOSE f : f = [i \in 1 .. Len(ss) |-> IF i = 1 THEN ss[i] ELSE f[i - 1] \o ss[i]]
<1>2. StepsOf(ss, f, Len(ss))
    BY <1>1 DEF StepsOf
<1>3. FlattenSeq(ss) = f[Len(ss)]
    BY DEF FlattenSeq
<1> QED
    BY <1>2, <1>3

(* The elements come from the sequences.                                   *)
LEMMA FlattenIn ==
    ASSUME NEW S, NEW ss \in Seq(Seq(S))
    PROVE  FlattenSeq(ss) \in Seq(S)
<1>1. CASE Len(ss) = 0
    BY <1>1 DEF FlattenSeq
<1>2. CASE Len(ss) # 0
  <2>1. PICK f : StepsOf(ss, f, Len(ss)) /\ FlattenSeq(ss) = f[Len(ss)]
      BY <1>2, FlattenSteps
  <2> DEFINE n == Len(ss)
             T == {k \in 1 .. n : f[k] \notin Seq(S)}
  <2>2. n \in Nat \ {0}
      BY <1>2
  <2> HIDE DEF n
  <2>3. SUFFICES ASSUME T # {} PROVE FALSE
      BY <2>1, <2>2 DEF n
  <2>4. PICK m \in T : \A y \in T : m <= y
      BY <2>2, <2>3, FirstOne
  <2>5. m \in 1 .. n /\ f[m] \notin Seq(S)
      BY <2>4
  <2>6. f[m] = IF m = 1 THEN ss[m] ELSE f[m - 1] \o ss[m]
      BY <2>1, <2>5 DEF StepsOf, n
  <2>7. ss[m] \in Seq(S)
      BY <2>5 DEF n
  <2>8. m # 1 => f[m - 1] \in Seq(S)
    <3> SUFFICES ASSUME m # 1 PROVE f[m - 1] \in Seq(S)
        OBVIOUS
    <3>1. m - 1 \in 1 .. n /\ ~(m <= m - 1)
        BY <2>2, <2>5
    <3> QED
        BY <2>4, <3>1
  <2> QED
      BY <2>5, <2>6, <2>7, <2>8, ConcatProperties
<1> QED
    BY <1>1, <1>2
(* What the queue of the client holds.                                     *)
DataItems(P) == [kind : {"data"}, signal : Signals, packet : P, descriptor : Told]
EventItems == [kind : {"event"}, signal : Signals, value : Told, domain : Told]
Items == DataItems(Packets) \cup EventItems

ReceivedTypes ==
    /\ received \in Seq(Items)
    /\ \A p \in DOMAIN referencedPackets : referencedPackets[p] \in Told

(* What one buffer that has waited puts into the queue.                    *)
LEMMA WokenItems ==
    ASSUME ClientTypes, NEW d \in Packets
    PROVE  [i \in DOMAIN waiting[d] |-> Woken(waiting[d][i])] \in Seq(Seq(DataItems(WaitingFor(d))))
<1> DEFINE S == DataItems(WaitingFor(d))
<1>1. waiting[d] \in Seq(WaitEntries) /\ Len(waiting[d]) \in Nat /\ DOMAIN waiting[d] = 1 .. Len(waiting[d])
    BY WaitingTypes
<1>2. ASSUME NEW i \in DOMAIN waiting[d]
      PROVE  Woken(waiting[d][i]) \in Seq(S)
  <2> DEFINE w == waiting[d][i]
             x == known[w.signal].value
  <2>1. w.packet \in WaitingFor(d) /\ w.signal \in Signals /\ w.more \in Seq(Signals)
      BY WaitingTypes DEF WaitingFor
  <2>2. x \in Told
      BY <2>1 DEF ClientTypes
  <2> HIDE DEF w, x
  <2>3. Received(w.signal, w.packet, x) \in S
      BY <2>1, <2>2 DEF DataItems, Received
  <2>4. Len(w.more) \in Nat /\ DOMAIN w.more = 1 .. Len(w.more) /\ \A k \in DOMAIN w.more : w.more[k] \in Signals
      BY <2>1, LenProperties, ElementOfSeq
  <2>5. \A k \in DOMAIN w.more : Received(w.more[k], w.packet, x) \in S
      BY <2>1, <2>2, <2>4 DEF DataItems, Received
  <2> HIDE DEF S
  <2>6. [k \in DOMAIN w.more |-> Received(w.more[k], w.packet, x)] \in Seq(S)
      BY <2>4, <2>5, IsASeq
  <2>7. <<Received(w.signal, w.packet, x)>> \in Seq(S)
      BY <2>3
  <2>8. Woken(w) = <<Received(w.signal, w.packet, x)>>
                       \o [k \in DOMAIN w.more |-> Received(w.more[k], w.packet, x)]
      BY DEF Woken, x
  <2>9. Woken(w) \in Seq(S)
      BY <2>6, <2>7, <2>8, ConcatProperties
  <2> QED
      BY <2>9 DEF w
<1> HIDE DEF S
<1>3. [i \in DOMAIN waiting[d] |-> Woken(waiting[d][i])] \in Seq(Seq(S))
    BY <1>1, <1>2, IsASeq
<1> QED
    BY <1>3 DEF S

(* addDataPacketBuffer of a packet that need not wait puts it into the     *)
(* queue, and then some of those that have waited for it.                  *)
LEMMA ProcessReceived ==
    ASSUME ClientTypes, ReceivedTypes, NEW b \in Buffers, b.packet \in Packets, b.signal \in Signals, ProcessData(b)
    PROVE  \E q \in Seq(DataItems(Packets)) :
               /\ received' = Append(received, Received(b.signal, b.packet, known[b.signal].value)) \o q
               /\ q \in Seq(DataItems(WaitingFor(b.packet)))
<1> DEFINE d == b.packet
           ws == [i \in DOMAIN waiting[d] |-> Woken(waiting[d][i])]
           q == FlattenSeq(ws)
           x == Received(b.signal, b.packet, known[b.signal].value)
<1>1. ws \in Seq(Seq(DataItems(WaitingFor(d))))
    BY WokenItems
<1> HIDE DEF ws
<1>2. q \in Seq(DataItems(WaitingFor(d)))
    BY <1>1, FlattenIn
<1>3. DataItems(WaitingFor(d)) \subseteq DataItems(Packets)
  <2>1. WaitingFor(d) \subseteq Packets
      BY WaitingTypes DEF WaitingFor
  <2> QED
      BY <2>1 DEF DataItems
<1>4. q \in Seq(DataItems(Packets))
    BY <1>2, <1>3
<1>5. received' = received \o <<x>> \o q
    BY DEF ProcessData, ws
<1>6. received \o <<x>> = Append(received, x)
  <2>1. x \in Items
      BY DEF ClientTypes, Items, DataItems, Received
  <2> HIDE DEF x
  <2> QED
      BY <2>1, AppendIsConcat DEF ReceivedTypes
<1> QED
    BY <1>2, <1>4, <1>5, <1>6

(* The descriptors remembered are descriptors.                             *)
LEMMA RememberedTold ==
    ASSUME ClientTypes, ReceivedTypes, NEW b \in Buffers, b.packet \in Packets, b.signal \in Signals, ProcessData(b)
    PROVE  \A p \in DOMAIN referencedPackets' : referencedPackets'[p] \in Told
<1> DEFINE ws == waiting[b.packet]
           x == known[b.signal].value
           new == {ws[i].packet : i \in {k \in DOMAIN ws : ~ws[k].canRelease}} \ DOMAIN referencedPackets
           r1 == RememberWoken(referencedPackets, ws)
<1>1. x \in Told
    BY DEF ClientTypes
<1>2. ws \in Seq(WaitEntries) /\ \A i \in DOMAIN ws : ws[i].signal \in Signals
    BY WaitingTypes
<1>3. r1 = [p \in DOMAIN referencedPackets \cup new |->
               IF p \in DOMAIN referencedPackets THEN referencedPackets[p] ELSE known[ws[FirstOf(ws, p)].signal].value]
    BY DEF RememberWoken
<1>4. \A p \in new : known[ws[FirstOf(ws, p)].signal].value \in Told
  <2> SUFFICES ASSUME NEW p \in new
               PROVE  known[ws[FirstOf(ws, p)].signal].value \in Told
      OBVIOUS
  <2>1. \E i \in DOMAIN ws : ws[i].packet = p
      OBVIOUS
  <2>2. FirstOf(ws, p) \in 1 .. Len(ws)
      BY <1>2, <2>1, FirstOfIs
  <2>3. FirstOf(ws, p) \in DOMAIN ws
      BY <1>2, <2>2, LenProperties
  <2> QED
      BY <1>2, <2>3 DEF ClientTypes
<1> HIDE DEF ws, new
<1>5. \A p \in DOMAIN r1 : r1[p] \in Told
    BY <1>3, <1>4 DEF ReceivedTypes
<1>6. referencedPackets' = Remember(r1, b.packet, x, b.canRelease)
    BY DEF ProcessData, ws
<1> HIDE DEF r1, x
<1> QED
    BY <1>1, <1>5, <1>6 DEF Remember

(* An item at the end of the queue.                                        *)
LEMMA OneReceived ==
    ASSUME ReceivedTypes, NEW x \in DataItems(Packets), received' = Append(received, x)
    PROVE  /\ received' \in Seq(Items)
           /\ \E q \in Seq(DataItems(Packets)) : received' = received \o q
<1>1. x \in Items
    BY DEF Items
<1>2. received' = received \o <<x>>
    BY <1>1, AppendIsConcat DEF ReceivedTypes
<1>3. <<x>> \in Seq(DataItems(Packets))
    OBVIOUS
<1>4. received' \in Seq(Items)
    BY <1>1, AppendProperties DEF ReceivedTypes
<1> QED
    BY <1>2, <1>3, <1>4

(* Every buffer but an event adds data only.                               *)
LEMMA DataReceived ==
    ASSUME ClientTypes, ReceivedTypes, NEW b \in Buffers, Shaped(b),
           AddDataPacketBuffer(b) \/ AddReleasePacketBuffer(b) \/ AddAlreadySentPacketBuffer(b)
    PROVE  /\ ReceivedTypes' /\ UNCHANGED known
           /\ \E q \in Seq(DataItems(Packets)) : received' = received \o q
<1>1. UNCHANGED known
    BY DEF AddDataPacketBuffer, AddReleasePacketBuffer, AddAlreadySentPacketBuffer
<1>2. CASE UNCHANGED received /\ DOMAIN referencedPackets' \subseteq DOMAIN referencedPackets
           /\ \A p \in DOMAIN referencedPackets' : referencedPackets'[p] = referencedPackets[p]
  <2>1. ReceivedTypes'
      BY <1>2 DEF ReceivedTypes
  <2>2. received' = received \o <<>> /\ <<>> \in Seq(DataItems(Packets))
      BY <1>2, ConcatEmptySeq DEF ReceivedTypes
  <2> QED
      BY <1>1, <2>1, <2>2
<1>3. CASE ProcessData(b) /\ b.type = "data"
  <2>1. b.packet \in Packets /\ b.signal \in Signals
      BY <1>3 DEF Shaped
  <2> DEFINE x == Received(b.signal, b.packet, known[b.signal].value)
  <2>2. PICK q \in Seq(DataItems(Packets)) : received' = Append(received, x) \o q
      BY <1>3, <2>1, ProcessReceived
  <2>3. x \in DataItems(Packets)
      BY <2>1 DEF ClientTypes, DataItems, Received
  <2> HIDE DEF x
  <2>4. Append(received, x) = received \o <<x>>
      BY <2>3, AppendIsConcat DEF ReceivedTypes, Items
  <2>5. received \in Seq(Items) /\ <<x>> \in Seq(DataItems(Packets)) /\ <<x>> \in Seq(Items) /\ q \in Seq(Items)
      BY <2>3 DEF ReceivedTypes, Items
  <2>6. received' = received \o (<<x>> \o q)
      BY <2>2, <2>4, <2>5, ConcatAssociative
  <2>7. <<x>> \o q \in Seq(DataItems(Packets)) /\ <<x>> \o q \in Seq(Items)
      BY <2>5, ConcatProperties
  <2>8. received' \in Seq(Items)
      BY <2>5, <2>6, <2>7, ConcatProperties
  <2>9. \A p \in DOMAIN referencedPackets' : referencedPackets'[p] \in Told
      BY <1>3, <2>1, RememberedTold
  <2> QED
      BY <1>1, <2>6, <2>7, <2>8, <2>9 DEF ReceivedTypes
<1>4. CASE AlreadySentReferenced(b) /\ b.type = "alreadySent"
  <2> DEFINE x == Received(b.signal, b.packet, referencedPackets[b.packet])
  <2>1. x \in DataItems(Packets)
      BY <1>4 DEF Shaped, AlreadySentReferenced, ReceivedTypes, DataItems, Received
  <2>2. received' = Append(received, x)
      BY <1>4 DEF AlreadySentReferenced
  <2> HIDE DEF x
  <2>3. received' \in Seq(Items) /\ \E q \in Seq(DataItems(Packets)) : received' = received \o q
      BY <2>1, <2>2, OneReceived
  <2>4. \A p \in DOMAIN referencedPackets' : referencedPackets'[p] \in Told
      BY <1>4 DEF AlreadySentReferenced, Forget, ReceivedTypes
  <2> QED
      BY <1>1, <2>3, <2>4 DEF ReceivedTypes
<1>5. CASE AddReleasePacketBuffer(b)
    BY <1>2, <1>5 DEF AddReleasePacketBuffer, Throw, Forget
<1>6. CASE AddAlreadySentPacketBuffer(b)
    BY <1>2, <1>4, <1>6 DEF AddAlreadySentPacketBuffer, AlreadySentWaiting, Throw
<1>7. CASE AddDataPacketBuffer(b)
    BY <1>2, <1>3, <1>7 DEF AddDataPacketBuffer, Throw
<1> QED
    BY <1>5, <1>6, <1>7

--------------------------------------------------------------------------------
(***************************************************************************)
(* The descriptors the reader of a signal is told.                         *)
(***************************************************************************)
Tells(x, s, f) == x.kind = "event" /\ x.signal = s /\ x[f] # Unchanged

(* What was told last is v.                                                *)
ToldIs(r, s, f, v) ==
    \/ v = Unchanged /\ \A i \in 1 .. Len(r) : ~Tells(r[i], s, f)
    \/ \E i \in 1 .. Len(r) : /\ Tells(r[i], s, f) /\ r[i][f] = v
                              /\ \A j \in 1 .. Len(r) : Tells(r[j], s, f) => j <= i

ToldInv ==
    /\ ReceivedTypes
    /\ \A s \in Signals : /\ ToldIs(received, s, "value", known[s].value)
                          /\ ToldIs(received, s, "domain", known[s].domain)

(* Data tell nothing.                                                      *)
LEMMA ToldData ==
    ASSUME NEW r \in Seq(Items), NEW q \in Seq(DataItems(Packets)), NEW s, NEW f, NEW v, ToldIs(r, s, f, v)
    PROVE  ToldIs(r \o q, s, f, v)
<1> DEFINE t == r \o q
<1>1. Len(r) \in Nat /\ Len(q) \in Nat /\ q \in Seq(Items)
    BY LenProperties DEF Items
<1>2. /\ Len(t) = Len(r) + Len(q)
      /\ \A i \in 1 .. Len(r) : t[i] = r[i]
      /\ \A i \in 1 .. Len(q) : t[Len(r) + i] = q[i]
    BY <1>1, ConcatProperties
<1> HIDE DEF t
<1>3. \A i \in 1 .. Len(q) : q[i].kind = "data"
  <2>1. \A i \in 1 .. Len(q) : q[i] \in DataItems(Packets)
      BY ElementOfSeq
  <2> QED
      BY <2>1 DEF DataItems
<1>4. \A i \in 1 .. Len(t) : i \in 1 .. Len(r) \/ (i - Len(r) \in 1 .. Len(q) /\ t[i] = q[i - Len(r)])
  <2> SUFFICES ASSUME NEW i \in 1 .. Len(t), i \notin 1 .. Len(r)
               PROVE  i - Len(r) \in 1 .. Len(q) /\ t[i] = q[i - Len(r)]
      OBVIOUS
  <2>1. i - Len(r) \in 1 .. Len(q) /\ Len(r) + (i - Len(r)) = i
      BY <1>1, <1>2
  <2> QED
      BY <1>2, <2>1
<1>5. \A i \in 1 .. Len(r) : i \in 1 .. Len(t)
    BY <1>1, <1>2
<1>6. \A i \in 1 .. Len(t) : Tells(t[i], s, f) => i \in 1 .. Len(r) /\ Tells(r[i], s, f)
    BY <1>2, <1>3, <1>4 DEF Tells
<1> QED
    BY <1>2, <1>5, <1>6 DEF ToldIs, t

(* An event tells what it holds.                                           *)
LEMMA ToldEvent ==
    ASSUME NEW r \in Seq(Items), NEW x \in EventItems, NEW s, NEW f, NEW v, ToldIs(r, s, f, v)
    PROVE  ToldIs(Append(r, x), s, f, IF x.signal = s /\ x[f] # Unchanged THEN x[f] ELSE v)
<1> DEFINE t == Append(r, x)
           n == Len(r)
<1>1. n \in Nat /\ x \in Items /\ x.kind = "event"
    BY LenProperties DEF Items, EventItems
<1>2. Len(t) = n + 1 /\ t[n + 1] = x /\ \A i \in 1 .. n : t[i] = r[i]
    BY <1>1, AppendProperties
<1>3. \A i \in 1 .. n + 1 : i \in 1 .. n \/ i = n + 1
    BY <1>1
<1>4. n + 1 \in 1 .. n + 1 /\ \A i \in 1 .. n : i \in 1 .. n + 1 /\ i <= n + 1
    BY <1>1
<1>5. Tells(x, s, f) <=> x.signal = s /\ x[f] # Unchanged
    BY <1>1 DEF Tells
<1> HIDE DEF t, n
<1>6. CASE Tells(x, s, f)
  <2>1. ToldIs(t, s, f, x[f])
    <3>1. \A j \in 1 .. n + 1 : j <= n + 1
        BY <1>1
    <3> QED
        BY <1>2, <1>4, <1>6, <3>1 DEF ToldIs
  <2> QED
      BY <1>5, <1>6, <2>1 DEF t
<1>7. CASE ~Tells(x, s, f)
  <2>1. \A i \in 1 .. n + 1 : Tells(t[i], s, f) => i \in 1 .. n /\ Tells(r[i], s, f)
      BY <1>2, <1>3, <1>7
  <2>2. ToldIs(t, s, f, v)
      BY <1>2, <1>4, <2>1 DEF ToldIs, n
  <2> QED
      BY <1>5, <1>7, <2>2 DEF t
<1> QED
    BY <1>6, <1>7

(* addEventPacketBuffer: what is not forwarded is known.                   *)
LEMMA EventTold ==
    ASSUME ClientTypes, ToldInv, NEW b \in Buffers, Shaped(b), AddEventPacketBuffer(b)
    PROVE  ToldInv'
<1> DEFINE e == b.event
           x == ReceivedEvent(b.signal, e)
<1>1. /\ b.signal \in Signals /\ e.value \in Told /\ e.domain \in Told
      /\ UNCHANGED referencedPackets
      /\ known' = [known EXCEPT
            ![b.signal].value = IF e.value = Unchanged THEN @ ELSE e.value,
            ![b.signal].domain = IF e.domain = Unchanged THEN @ ELSE e.domain]
      /\ received' = IF Forwarded(b.signal, e) THEN Append(received, x) ELSE received
    BY DEF AddEventPacketBuffer, Shaped, Buffers, Told
<1>2. /\ x \in EventItems /\ x.signal = b.signal
      /\ x.value = e.value /\ x.domain = e.domain /\ x["value"] = e.value /\ x["domain"] = e.domain
    BY <1>1 DEF EventItems, ReceivedEvent
<1>3. received \in Seq(Items) /\ x \in Items
    BY <1>2 DEF ToldInv, ReceivedTypes, Items
<1>4. known \in [Signals -> [value : Told, domain : Told]]
    BY DEF ClientTypes
<1> HIDE DEF e, x
<1>5. ReceivedTypes'
  <2>1. received' \in Seq(Items)
      BY <1>1, <1>3, AppendProperties
  <2> QED
      BY <1>1, <2>1 DEF ToldInv, ReceivedTypes
<1>6. ASSUME NEW s \in Signals
      PROVE  /\ ToldIs(received', s, "value", known'[s].value)
             /\ ToldIs(received', s, "domain", known'[s].domain)
  <2>1. ToldIs(received, s, "value", known[s].value) /\ ToldIs(received, s, "domain", known[s].domain)
      BY DEF ToldInv
  <2>2. known[s] \in [value : Told, domain : Told]
      BY <1>4
  <2>3. /\ known'[s].value = IF s = b.signal /\ e.value # Unchanged THEN e.value ELSE known[s].value
        /\ known'[s].domain = IF s = b.signal /\ e.domain # Unchanged THEN e.domain ELSE known[s].domain
      BY <1>1, <1>4, <2>2
  <2>4. CASE Forwarded(b.signal, e)
    <3>1. received' = Append(received, x)
        BY <1>1, <2>4
    <3>2. /\ ToldIs(Append(received, x), s, "value",
                 IF x.signal = s /\ x["value"] # Unchanged THEN x["value"] ELSE known[s].value)
          /\ ToldIs(Append(received, x), s, "domain",
                 IF x.signal = s /\ x["domain"] # Unchanged THEN x["domain"] ELSE known[s].domain)
        BY <1>2, <1>3, <2>1, ToldEvent
    <3> QED
        BY <1>2, <2>3, <3>1, <3>2
  <2>5. CASE ~Forwarded(b.signal, e)
    <3>1. received' = received
        BY <1>1, <2>5
    <3>2. /\ s = b.signal /\ e.value # Unchanged => e.value = known[s].value
          /\ s = b.signal /\ e.domain # Unchanged => e.domain = known[s].domain
        BY <2>5 DEF Forwarded
    <3> QED
        BY <2>1, <2>3, <3>1, <3>2
  <2> QED
      BY <2>4, <2>5
<1> QED
    BY <1>5, <1>6 DEF ToldInv

(* Every step.                                                             *)
LEMMA NextTold ==
    ASSUME StreamInv, ToldInv, [StreamNext]_streamVars
    PROVE  ToldInv'
<1>1. CASE UNCHANGED <<received, known, referencedPackets>>
    BY <1>1 DEF ToldInv, ReceivedTypes
<1>2. CASE AddPacketBuffer
  <2> DEFINE b == Head(wire)
  <2>1. /\ wire # <<>>
        /\ \/ AddEventPacketBuffer(b) \/ AddDataPacketBuffer(b)
           \/ AddReleasePacketBuffer(b) \/ AddAlreadySentPacketBuffer(b)
      BY <1>2 DEF AddPacketBuffer
  <2>2. StreamTypes /\ ClientTypes /\ ReceivedTypes
      BY DEF StreamInv, StreamTypes, ClientTypes, ToldInv
  <2>3. b \in Buffers /\ Shaped(b)
      BY <2>1, <2>2, HeadOfWire
  <2> HIDE DEF b
  <2>4. CASE AddEventPacketBuffer(b)
      BY <2>2, <2>3, <2>4, EventTold
  <2>5. CASE AddDataPacketBuffer(b) \/ AddReleasePacketBuffer(b) \/ AddAlreadySentPacketBuffer(b)
    <3>1. ReceivedTypes' /\ UNCHANGED known /\ \E q \in Seq(DataItems(Packets)) : received' = received \o q
        BY <2>2, <2>3, <2>5, DataReceived
    <3>2. PICK q \in Seq(DataItems(Packets)) : received' = received \o q
        BY <3>1
    <3>3. \A s \in Signals : /\ ToldIs(received \o q, s, "value", known[s].value)
                             /\ ToldIs(received \o q, s, "domain", known[s].domain)
        BY <2>2, ToldData DEF ToldInv, ReceivedTypes
    <3> QED
        BY <3>1, <3>2, <3>3 DEF ToldInv
  <2> QED
      BY <2>1, <2>4, <2>5
<1> QED
    BY ZenonT(40), <1>1, <1>2 DEF StreamNext, streamVars, clientVars, SetDescriptor, SendPacket, DropPacket,
                      AddEventPacket, AddDataPacket, GetStreamingWriteTask

(* What was told last is one value.                                        *)
LEMMA ToldLastIs ==
    ASSUME received \in Seq(Items), NEW s, NEW f, NEW v, ToldIs(received, s, f, v)
    PROVE  ToldLast(s, f) = v
<1> DEFINE places == {i \in DOMAIN received : received[i].kind = "event" /\ received[i].signal = s
                                                  /\ received[i][f] # Unchanged}
           last == CHOOSE i \in places : \A j \in places : j <= i
<1>1. DOMAIN received = 1 .. Len(received) /\ Len(received) \in Nat
    BY LenProperties
<1>2. \A i : i \in places <=> i \in 1 .. Len(received) /\ Tells(received[i], s, f)
    BY <1>1 DEF Tells
<1>3. ToldLast(s, f) = IF places = {} THEN Unchanged ELSE received[last][f]
    BY DEF ToldLast
<1> HIDE DEF places
<1>4. CASE v = Unchanged /\ \A i \in 1 .. Len(received) : ~Tells(received[i], s, f)
    BY <1>2, <1>3, <1>4
<1>5. ASSUME NEW i \in 1 .. Len(received), Tells(received[i], s, f), received[i][f] = v,
             \A j \in 1 .. Len(received) : Tells(received[j], s, f) => j <= i
      PROVE  ToldLast(s, f) = v
  <2>1. i \in places /\ \A j \in places : j <= i
      BY <1>2, <1>5
  <2>2. last \in places /\ \A j \in places : j <= last
      BY <2>1
  <2> HIDE DEF last
  <2>3. last = i
    <3>1. last \in 1 .. Len(received) /\ last <= i /\ i <= last
        BY <1>2, <2>1, <2>2
    <3> QED
        BY <1>1, <3>1
  <2> QED
      BY <1>3, <1>5, <2>1, <2>3
<1> QED
    BY <1>4, <1>5 DEF ToldIs

(* The descriptors of the reader: what it was told last is what the client *)
(* knows, although addEventPacketBuffer forwards nothing that repeats what *)
(* is known, whatever data of any signal come between.                     *)
THEOREM ReaderToldDescriptors == StreamSpec => []DescriptorsTold
<1>1. StreamInit => StreamInv /\ ToldInv
  <2> SUFFICES ASSUME StreamInit
               PROVE  StreamInv /\ ToldInv
      OBVIOUS
  <2>1. received = <<>> /\ DOMAIN referencedPackets = {}
        /\ \A s \in Signals : known[s].value = Unchanged /\ known[s].domain = Unchanged
      BY DEF StreamInit
  <2>2. <<>> \in Seq(Items) /\ \A i \in 1 .. Len(<<>>) : FALSE
      BY EmptySeq
  <2> QED
      BY <2>1, <2>2, InitStreamInv DEF ToldInv, ReceivedTypes, ToldIs
<1>2. StreamInv /\ ToldInv /\ [StreamNext]_streamVars => StreamInv' /\ ToldInv'
    BY NextStreamInv, NextTold
<1>3. ToldInv => DescriptorsTold
    BY ToldLastIs DEF ToldInv, ReceivedTypes, DescriptorsTold
<1> QED
    BY <1>1, <1>2, <1>3, PTL DEF StreamSpec

--------------------------------------------------------------------------------
(***************************************************************************)
(* Nobody waits in vain.  A packet's data buffer is queued while its       *)
(* domain packet is alive, so the release of that one comes later on the   *)
(* link.  L are the packets that came and are forgotten, F those that may  *)
(* still be added.                                                         *)
(***************************************************************************)
CameIn(r) == {p \in Packets : \E j \in 1 .. Len(r) : r[j].kind = "data" /\ r[j].packet = p}
Passed == CameIn(received) \ DOMAIN referencedPackets

Usable(U, n, L, d) == d \notin L /\ NotEnded(U, n, d)
DomainsUsable(U, L) ==
    \A i \in 1 .. Len(U) : \A p, d \in Packets :
        Carries(U[i], p) /\ DomainOf[p] = d => Usable(U, i - 1, L, d)
DomainsStay(U, L, F) == \A p \in F, d \in Packets : DomainOf[p] = d => Usable(U, Len(U), L, d)

(* Who waits, waits for what has not come; a domain packet the client      *)
(* refers to has come.                                                     *)
WaitersWait ==
    /\ \A d \in Packets : waiting[d] # <<>> => d \notin CameIn(received)
    /\ \A d \in DOMAIN referencedPackets : DomainOf[d] = NoPacket => d \in CameIn(received)

VainInv ==
    /\ ReceivedTypes /\ WaitersWait
    /\ DomainsUsable(Underway, Passed)
    /\ DomainsStay(Underway, Passed, Fresh(pending, kept))
    /\ \A p \in Fresh(pending, kept), d \in Packets : DomainOf[p] = d => d \in alive

(* A buffer at the end.                                                    *)
LEMMA UsableAppend ==
    ASSUME NEW U \in Seq(Buffers), NEW b \in Buffers, NEW L, NEW F, NEW F2, F2 \subseteq F,
           DomainsUsable(U, L), DomainsStay(U, L, F),
           \A p, d \in Packets : Carries(b, p) /\ DomainOf[p] = d => Usable(U, Len(U), L, d),
           \A p \in F2, d \in Packets : DomainOf[p] = d => ~Ends(b, d)
    PROVE  /\ Append(U, b) \in Seq(Buffers)
           /\ DomainsUsable(Append(U, b), L) /\ DomainsStay(Append(U, b), L, F2)
<1> DEFINE V == Append(U, b)
           n == Len(U)
<1>1. n \in Nat
    BY LenProperties
<1>2. V \in Seq(Buffers) /\ Len(V) = n + 1 /\ V[n + 1] = b /\ \A i \in 1 .. n : V[i] = U[i]
    BY AppendProperties
<1> HIDE DEF V, n
<1>3. \A i \in 1 .. n + 1 : i \in 1 .. n \/ i = n + 1
    BY <1>1
<1>4. \A k \in 0 .. n : \A d : NotEnded(V, k, d) <=> NotEnded(U, k, d)
  <2>1. \A k \in 0 .. n : \A j \in 1 .. k : j \in 1 .. n
      BY <1>1
  <2> QED
      BY <1>2, <2>1 DEF NotEnded
<1>5. DomainsUsable(V, L)
  <2> SUFFICES ASSUME NEW i \in 1 .. n + 1, NEW p \in Packets, NEW d \in Packets, Carries(V[i], p), DomainOf[p] = d
               PROVE  Usable(V, i - 1, L, d)
      BY <1>2 DEF DomainsUsable
  <2>1. i - 1 \in 0 .. n
      BY <1>1
  <2>2. CASE i \in 1 .. n
      BY <1>2, <1>4, <2>1, <2>2 DEF DomainsUsable, Usable, n
  <2>3. CASE i = n + 1
    <3>1. Usable(U, n, L, d) /\ i - 1 = n
        BY <1>1, <1>2, <2>3 DEF n
    <3> QED
        BY <1>4, <2>1, <3>1 DEF Usable
  <2> QED
      BY <1>3, <2>2, <2>3
<1>6. DomainsStay(V, L, F2)
  <2> SUFFICES ASSUME NEW p \in F2, NEW d \in Packets, DomainOf[p] = d
               PROVE  Usable(V, n + 1, L, d)
      BY <1>2 DEF DomainsStay
  <2>1. Usable(U, n, L, d) /\ ~Ends(b, d)
      BY DEF DomainsStay, n
  <2> QED
      BY <1>2, <1>3, <2>1 DEF Usable, NotEnded
<1> QED
    BY <1>2, <1>5, <1>6 DEF V

(* The first buffer is taken.                                              *)
LEMMA UsableTail ==
    ASSUME NEW U \in Seq(Buffers), U # <<>>, NEW L, NEW L2, NEW F \in SUBSET Packets,
           DomainsUsable(U, L), DomainsStay(U, L, F),
           \A d \in Packets : DomainOf[d] = NoPacket /\ d \in L2 => d \in L \/ Ends(U[1], d)
    PROVE  DomainsUsable(Tail(U), L2) /\ DomainsStay(Tail(U), L2, F)
<1> DEFINE V == Tail(U)
<1>1. Len(U) \in Nat \ {0}
    BY EmptySeq
<1>2. V \in Seq(Buffers) /\ Len(V) = Len(U) - 1 /\ \A i \in 1 .. Len(V) : V[i] = U[i + 1]
    BY HeadTailProperties
<1> HIDE DEF V
<1>3. ASSUME NEW k \in 0 .. Len(V), NEW p \in Packets, NEW d \in Packets, DomainOf[p] = d, Usable(U, k + 1, L, d)
      PROVE  Usable(V, k, L2, d)
  <2>1. DomainOf[d] = NoPacket
      BY <1>3, PacketStreamingAssumption
  <2>2. 1 \in 1 .. k + 1 /\ \A j \in 1 .. k : j \in 1 .. Len(V) /\ j + 1 \in 1 .. k + 1
      BY <1>1, <1>2
  <2>3. d \notin L /\ ~Ends(U[1], d) /\ \A j \in 1 .. k : ~Ends(V[j], d)
      BY <1>2, <1>3, <2>2 DEF Usable, NotEnded
  <2> QED
      BY <2>1, <2>3 DEF Usable, NotEnded
<1>4. DomainsUsable(V, L2)
  <2> SUFFICES ASSUME NEW i \in 1 .. Len(V), NEW p \in Packets, NEW d \in Packets, Carries(V[i], p), DomainOf[p] = d
               PROVE  Usable(V, i - 1, L2, d)
      BY DEF DomainsUsable
  <2>1. i + 1 \in 1 .. Len(U) /\ (i + 1) - 1 = i /\ i - 1 \in 0 .. Len(V) /\ (i - 1) + 1 = i
      BY <1>1, <1>2
  <2>2. Usable(U, i, L, d)
      BY <1>2, <2>1 DEF DomainsUsable
  <2> QED
      BY <1>3, <2>1, <2>2
<1>5. DomainsStay(V, L2, F)
  <2>1. Len(V) \in 0 .. Len(V) /\ Len(V) + 1 = Len(U)
      BY <1>1, <1>2
  <2> QED
      BY <1>3, <2>1 DEF DomainsStay
<1> QED
    BY <1>4, <1>5 DEF V

(* A buffer and the release that is due after it.                          *)
LEMMA QueuedUsable ==
    ASSUME NEW w \in Seq(Buffers), NEW q \in Seq(Buffers), NEW b \in Buffers,
           NEW ready \in SUBSET Packets, IsFiniteSet(ready), NEW r, Queued(q, b, ready, r),
           NEW L, NEW F, NEW F2, F2 \subseteq F,
           DomainsUsable(w \o q, L), DomainsStay(w \o q, L, F),
           \A p, d \in Packets : Carries(b, p) /\ DomainOf[p] = d => Usable(w \o q, Len(w \o q), L, d),
           \A p \in F2, d \in Packets : DomainOf[p] = d => ~Ends(b, d) /\ d \notin ready
    PROVE  DomainsUsable(w \o r, L) /\ DomainsStay(w \o r, L, F2)
<1> DEFINE U == w \o q
<1>1. PICK c \in Buffers :
        /\ SameButGroup(c, b)
        /\ IF ReleaseDue(ready)
           THEN \E x \in Buffers : SameButGroup(x, ReleaseBuffer(ready)) /\ r = Append(Append(q, c), x)
           ELSE r = Append(q, c)
    BY DEF Queued
<1> DEFINE V == Append(U, c)
<1>2. U \in Seq(Buffers)
    BY ConcatProperties
<1>3. w \o Append(q, c) = V
    BY <1>1, ConcatAppend
<1>4. \A p : (Carries(c, p) <=> Carries(b, p)) /\ (Ends(c, p) <=> Ends(b, p))
    BY <1>1 DEF SameButGroup, Carries, Ends
<1> HIDE DEF U
<1>5. V \in Seq(Buffers) /\ DomainsUsable(V, L) /\ DomainsStay(V, L, F2)
  <2>1. /\ DomainsUsable(U, L) /\ DomainsStay(U, L, F)
        /\ \A p, d \in Packets : Carries(c, p) /\ DomainOf[p] = d => Usable(U, Len(U), L, d)
        /\ \A p \in F2, d \in Packets : DomainOf[p] = d => ~Ends(c, d)
      BY <1>4 DEF U
  <2> QED
      BY <1>1, <1>2, <2>1, UsableAppend
<1> HIDE DEF V
<1>6. CASE ~ReleaseDue(ready)
    BY <1>1, <1>3, <1>5, <1>6
<1>7. CASE ReleaseDue(ready)
  <2>1. PICK x \in Buffers : SameButGroup(x, ReleaseBuffer(ready)) /\ r = Append(Append(q, c), x)
      BY <1>1, <1>7
  <2>2. w \o r = Append(V, x)
    <3>1. Append(q, c) \in Seq(Buffers)
        BY <1>1, AppendProperties
    <3>2. w \o Append(Append(q, c), x) = Append(w \o Append(q, c), x)
        BY <2>1, <3>1, ConcatAppend
    <3> QED
        BY <1>3, <2>1, <3>2
  <2>3. ReleaseBuffer(ready).type = "release" /\ ReleaseBuffer(ready).ids = ready /\ ReleaseBuffer(ready).packet = NoPacket
      BY ReleaseMade DEF Shaped
  <2>4. \A p \in Packets : ~Carries(x, p) /\ (Ends(x, p) => p \in ready)
      BY <2>1, <2>3, PacketStreamingAssumption DEF SameButGroup, Carries, Ends
  <2>5. /\ \A p, d \in Packets : Carries(x, p) /\ DomainOf[p] = d => Usable(V, Len(V), L, d)
        /\ \A p \in F2, d \in Packets : DomainOf[p] = d => ~Ends(x, d)
      BY <2>4
  <2>6. DomainsUsable(Append(V, x), L) /\ DomainsStay(Append(V, x), L, F2)
      BY <1>5, <2>1, <2>5, UsableAppend
  <2> QED
      BY <2>2, <2>6
<1> QED
    BY <1>6, <1>7

(* One more item in the queue of the client.                               *)
LEMMA CameAppend ==
    ASSUME NEW r \in Seq(Items), NEW x \in Items
    PROVE  \A p \in Packets : p \in CameIn(Append(r, x)) <=> p \in CameIn(r) \/ (x.kind = "data" /\ x.packet = p)
<1> DEFINE t == Append(r, x)
           n == Len(r)
<1>1. n \in Nat /\ Len(t) = n + 1 /\ t[n + 1] = x /\ \A i \in 1 .. n : t[i] = r[i]
    BY AppendProperties, LenProperties
<1>2. \A i \in 1 .. n + 1 : i \in 1 .. n \/ i = n + 1
    BY <1>1
<1>3. n + 1 \in 1 .. n + 1 /\ \A i \in 1 .. n : i \in 1 .. n + 1
    BY <1>1
<1> HIDE DEF t, n
<1>4. \A p \in Packets : p \in CameIn(t) <=> p \in CameIn(r) \/ (x.kind = "data" /\ x.packet = p)
    BY <1>1, <1>2, <1>3 DEF CameIn, n
<1> QED
    BY <1>4 DEF t

(* Many more.                                                              *)
LEMMA CameConcat ==
    ASSUME NEW r \in Seq(Items), NEW P, NEW q \in Seq(DataItems(P)), P \subseteq Packets
    PROVE  /\ CameIn(r) \subseteq CameIn(r \o q)
           /\ \A p \in Packets : p \in CameIn(r \o q) => p \in CameIn(r) \/ p \in P
<1> DEFINE t == r \o q
<1>1. Len(r) \in Nat /\ Len(q) \in Nat
    BY LenProperties
<1>2. /\ Len(t) = Len(r) + Len(q)
      /\ \A i \in 1 .. Len(r) : t[i] = r[i]
      /\ \A i \in 1 .. Len(q) : t[Len(r) + i] = q[i]
  <2>1. DataItems(P) \subseteq Items
      BY DEF Items, DataItems
  <2>2. q \in Seq(Items)
      BY <2>1
  <2> QED
      BY <2>2, ConcatProperties
<1> HIDE DEF t
<1>3. \A i \in 1 .. Len(q) : q[i].packet \in P
  <2>1. \A i \in 1 .. Len(q) : q[i] \in DataItems(P)
      BY ElementOfSeq
  <2> QED
      BY <2>1 DEF DataItems
<1>4. \A i \in 1 .. Len(t) : i \in 1 .. Len(r) \/ (i - Len(r) \in 1 .. Len(q) /\ t[i] = q[i - Len(r)])
  <2> SUFFICES ASSUME NEW i \in 1 .. Len(t), i \notin 1 .. Len(r)
               PROVE  i - Len(r) \in 1 .. Len(q) /\ t[i] = q[i - Len(r)]
      OBVIOUS
  <2>1. i - Len(r) \in 1 .. Len(q) /\ Len(r) + (i - Len(r)) = i
      BY <1>1, <1>2
  <2> QED
      BY <1>2, <2>1
<1>5. \A i \in 1 .. Len(r) : i \in 1 .. Len(t)
    BY <1>1, <1>2
<1>6. CameIn(r) \subseteq CameIn(t)
    BY <1>2, <1>5 DEF CameIn
<1>7. \A p \in Packets : p \in CameIn(t) => p \in CameIn(r) \/ p \in P
    BY <1>2, <1>3, <1>4 DEF CameIn
<1> QED
    BY <1>6, <1>7 DEF t

(* What a step of the client does to those that wait and those it refers   *)
(* to.                                                                     *)
Waited(b) ==
    /\ WaitersWait'
    /\ \A d \in Packets : DomainOf[d] = NoPacket /\ d \in Passed' => d \in Passed \/ Ends(b, d)

(* addEventPacketBuffer.                                                   *)
LEMMA EventWaited ==
    ASSUME ReceivedTypes, WaitersWait, NEW b \in Buffers, Shaped(b), AddEventPacketBuffer(b)
    PROVE  ReceivedTypes' /\ Waited(b)
<1> DEFINE x == ReceivedEvent(b.signal, b.event)
<1>1. /\ UNCHANGED <<referencedPackets, waiting>>
      /\ received' = IF Forwarded(b.signal, b.event) THEN Append(received, x) ELSE received
      /\ b.signal \in Signals
    BY DEF AddEventPacketBuffer, Shaped
<1>2. x \in Items /\ x.kind = "event" /\ received \in Seq(Items)
    BY <1>1 DEF Items, EventItems, ReceivedEvent, Buffers, Told, ReceivedTypes
<1> HIDE DEF x
<1>3. CameIn(received') = CameIn(received) /\ received' \in Seq(Items)
  <2>1. CASE received' = received
      BY <1>2, <2>1
  <2>2. CASE received' = Append(received, x)
    <3>1. \A p \in Packets : p \in CameIn(Append(received, x)) <=> p \in CameIn(received)
        BY <1>2, CameAppend
    <3>2. CameIn(Append(received, x)) = CameIn(received)
        BY <3>1 DEF CameIn
    <3> QED
        BY <1>2, <2>2, <3>2, AppendProperties
  <2> QED
      BY <1>1, <2>1, <2>2
<1>4. WaitersWait' /\ Passed' = Passed
    BY <1>1, <1>3 DEF WaitersWait, Passed, CameIn
<1> QED
    BY <1>1, <1>3, <1>4 DEF Waited, ReceivedTypes

(* addReleasePacketBuffer.                                                 *)
LEMMA ReleaseWaited ==
    ASSUME ClientTypes, WaitersWait, NEW b \in Buffers, Shaped(b), AddReleasePacketBuffer(b)
    PROVE  Waited(b)
<1>1. UNCHANGED received /\ CameIn(received') = CameIn(received)
    BY DEF AddReleasePacketBuffer, Throw, CameIn
<1>2. CASE UNCHANGED <<referencedPackets, waiting>>
    BY <1>1, <1>2 DEF Waited, WaitersWait, Passed, CameIn
<1>3. CASE /\ referencedPackets' = Forget(referencedPackets, b.ids)
           /\ waiting' = [d \in Packets |-> [i \in DOMAIN waiting[d] |->
                   IF waiting[d][i].packet \in b.ids \ DOMAIN referencedPackets
                   THEN [waiting[d][i] EXCEPT !.canRelease = ~@] ELSE waiting[d][i]]]
  <2>1. \A d \in Packets : waiting[d] = <<>> => waiting'[d] = <<>>
    <3> SUFFICES ASSUME NEW d \in Packets, waiting[d] = <<>>
                 PROVE  waiting'[d] = <<>>
        OBVIOUS
    <3>1. DOMAIN waiting[d] = {}
        BY EmptySeq
    <3>2. waiting'[d] = [i \in DOMAIN waiting[d] |->
                   IF waiting[d][i].packet \in b.ids \ DOMAIN referencedPackets
                   THEN [waiting[d][i] EXCEPT !.canRelease = ~@] ELSE waiting[d][i]]
        BY <1>3
    <3>3. waiting'[d] = [i \in {} |->
                   IF waiting[d][i].packet \in b.ids \ DOMAIN referencedPackets
                   THEN [waiting[d][i] EXCEPT !.canRelease = ~@] ELSE waiting[d][i]]
        BY <3>1, <3>2
    <3> QED
        BY <3>3
  <2>2. DOMAIN referencedPackets' = DOMAIN referencedPackets \ b.ids
      BY <1>3 DEF Forget
  <2>3. WaitersWait'
      BY <1>1, <2>1, <2>2 DEF WaitersWait
  <2>4. \A d \in Packets : d \in Passed' => d \in Passed \/ Ends(b, d)
      BY <1>1, <2>2 DEF Passed, Ends
  <2> QED
      BY <2>3, <2>4 DEF Waited
<1> QED
    BY <1>2, <1>3 DEF AddReleasePacketBuffer, Throw

(* Who waits, waits for a packet without a domain packet.                  *)
LEMMA WaitedFor ==
    ASSUME ClientTypes, NEW d \in Packets
    PROVE  /\ waiting[d] # <<>> => DomainOf[d] = NoPacket
           /\ \A p \in WaitingFor(d) : p \in Packets /\ DomainOf[p] = d
<1>1. waiting[d] \in Seq(WaitEntries) /\ \A i \in DOMAIN waiting[d] : waiting[d][i].packet \in Packets
    BY WaitingTypes
<1>2. \A i \in DOMAIN waiting[d] : DomainOf[waiting[d][i].packet] = d
    BY DEF ClientTypes
<1>3. \A p \in WaitingFor(d) : p \in Packets /\ DomainOf[p] = d
    BY <1>1, <1>2 DEF WaitingFor
<1>4. ASSUME waiting[d] # <<>>
      PROVE  DomainOf[d] = NoPacket
  <2>1. 1 \in DOMAIN waiting[d]
      BY <1>1, <1>4, EmptySeq, LenProperties
  <2> QED
      BY <1>1, <1>2, <2>1, PacketStreamingAssumption
<1> QED
    BY <1>3, <1>4

(* addAlreadySentPacketBuffer.                                             *)
LEMMA AlreadySentWaited ==
    ASSUME ClientTypes, ReceivedTypes, WaitersWait, NEW b \in Buffers, Shaped(b), AddAlreadySentPacketBuffer(b)
    PROVE  Waited(b)
<1> DEFINE v == b.packet
<1>1. b.type = "alreadySent" /\ v \in Packets /\ b.signal \in Signals
    BY DEF AddAlreadySentPacketBuffer, Shaped
<1>2. CASE UNCHANGED <<referencedPackets, waiting, received>>
    BY <1>2 DEF Waited, WaitersWait, Passed, CameIn
<1>3. CASE AlreadySentReferenced(b)
  <2> DEFINE x == Received(b.signal, v, referencedPackets[v])
  <2>1. /\ v \in DOMAIN referencedPackets /\ received' = Append(received, x) /\ UNCHANGED waiting
        /\ DOMAIN referencedPackets' = IF b.canRelease THEN DOMAIN referencedPackets \ {v} ELSE DOMAIN referencedPackets
      BY <1>3 DEF AlreadySentReferenced, Forget
  <2>2. x \in Items /\ x.kind = "data" /\ x.packet = v /\ received \in Seq(Items)
      BY <1>1, <2>1 DEF Items, DataItems, Received, ReceivedTypes
  <2> HIDE DEF x
  <2>3. \A p \in Packets : p \in CameIn(received') <=> p \in CameIn(received) \/ p = v
      BY <2>1, <2>2, CameAppend
  <2>4. DomainOf[v] = NoPacket => v \in CameIn(received)
      BY <2>1 DEF WaitersWait
  <2>5. waiting[v] = <<>>
      BY <1>1, <2>4, WaitedFor DEF WaitersWait
  <2>6. \A d \in DOMAIN referencedPackets : d \in Packets
      BY DEF ClientTypes
  <2>7. WaitersWait'
      BY <2>1, <2>3, <2>5, <2>6 DEF WaitersWait
  <2>8. \A d \in Packets : d \in Passed' => d \in Passed \/ Ends(b, d)
      BY <2>1, <2>3 DEF Passed, Ends
  <2> QED
      BY <2>7, <2>8 DEF Waited
<1>4. CASE Found(b) /\ AlreadySentWaiting(b)
  <2>1. PICK d \in Packets : \E i \in DOMAIN waiting[d] :
               waiting' = [waiting EXCEPT ![d] = [waiting[d] EXCEPT ![i] =
                      [waiting[d][i] EXCEPT !.more = Append(waiting[d][i].more, b.signal)]]]
    <3>1. \E d \in Packets : \E i \in DOMAIN waiting[d] :
              /\ d = DomainOf[b.packet] /\ waiting[d][i].packet = b.packet
              /\ waiting' = [waiting EXCEPT ![d] = [waiting[d] EXCEPT ![i] =
                     [waiting[d][i] EXCEPT !.more = Append(waiting[d][i].more, b.signal)]]]
        BY <1>1, <1>4, WaitingMore, Zenon
    <3> QED
        BY <3>1, Zenon
  <2>2. waiting[d] # <<>>
      BY <2>1, EmptySeq
  <2>3. \A e \in Packets : e # d => waiting'[e] = waiting[e]
      BY <2>1 DEF ClientTypes
  <2>4. UNCHANGED <<received, referencedPackets>> /\ CameIn(received') = CameIn(received)
      BY <1>4 DEF AlreadySentWaiting, CameIn
  <2>5. WaitersWait'
      BY <2>2, <2>3, <2>4 DEF WaitersWait
  <2> QED
      BY <2>4, <2>5 DEF Waited, Passed
<1> QED
    BY <1>2, <1>3, <1>4 DEF AddAlreadySentPacketBuffer, Throw

(* addDataPacketBuffer.                                                    *)
LEMMA DataWaited ==
    ASSUME ClientTypes, ReceivedTypes, WaitersWait, NEW b \in Buffers, Shaped(b), AddDataPacketBuffer(b),
           \A d \in Packets : DomainOf[b.packet] = d => d \notin Passed
    PROVE  Waited(b)
<1> DEFINE v == b.packet
<1>1. v \in Packets /\ b.signal \in Signals /\ b.canRelease \in BOOLEAN /\ b.type = "data" /\ received \in Seq(Items)
    BY DEF AddDataPacketBuffer, Shaped, Buffers, ReceivedTypes
<1>2. CASE UNCHANGED <<referencedPackets, waiting, received>>
    BY <1>2 DEF Waited, WaitersWait, Passed, CameIn
<1>3. CASE /\ Waits(b) /\ UNCHANGED <<referencedPackets, received>>
           /\ waiting' = [waiting EXCEPT ![DomainOf[b.packet]] = Append(@, Wait(b))]
  <2> DEFINE d == DomainOf[v]
  <2>1. d \in Packets /\ d \notin DOMAIN referencedPackets
      BY <1>1, <1>3, PacketStreamingAssumption DEF Waits
  <2>2. d \notin CameIn(received)
      BY <2>1 DEF Passed
  <2>3. \A e \in Packets : e # d => waiting'[e] = waiting[e]
      BY <1>3 DEF ClientTypes
  <2>4. WaitersWait' /\ Passed' = Passed
      BY <1>3, <2>2, <2>3 DEF WaitersWait, Passed, CameIn
  <2> QED
      BY <2>4 DEF Waited
<1>4. CASE ProcessData(b)
  <2> DEFINE P == WaitingFor(v)
             x == Received(b.signal, v, known[b.signal].value)
             a == Append(received, x)
  <2>1. PICK q \in Seq(DataItems(Packets)) : received' = a \o q /\ q \in Seq(DataItems(P))
      BY <1>1, <1>4, ProcessReceived
  <2>2. x \in Items /\ x.kind = "data" /\ x.packet = v
      BY <1>1 DEF ClientTypes, Items, DataItems, Received
  <2>3. \A p \in P : p \in Packets /\ DomainOf[p] = v
      BY <1>1, WaitedFor
  <2> HIDE DEF x, P
  <2>4. a \in Seq(Items) /\ \A p \in Packets : p \in CameIn(a) <=> p \in CameIn(received) \/ p = v
      BY <1>1, <2>2, CameAppend, AppendProperties
  <2> HIDE DEF a
  <2>5. CameIn(a) \subseteq CameIn(received') /\ \A p \in Packets : p \in CameIn(received') => p \in CameIn(a) \/ p \in P
      BY <2>1, <2>3, <2>4, CameConcat
  <2>6. \A p \in Packets : DomainOf[p] = NoPacket =>
            (p \in CameIn(received') <=> p \in CameIn(received) \/ p = v)
      BY <1>1, <2>3, <2>4, <2>5, PacketStreamingAssumption
  <2>7. waiting' = [waiting EXCEPT ![v] = <<>>]
      BY <1>4 DEF ProcessData
  <2>8. \A e \in Packets : waiting'[e] # <<>> => waiting[e] # <<>> /\ e # v
      BY <1>1, <2>7 DEF ClientTypes
  <2>9. DOMAIN referencedPackets' = DOMAIN referencedPackets
                   \cup {waiting[v][i].packet : i \in {k \in DOMAIN waiting[v] : ~waiting[v][k].canRelease}}
                   \cup (IF b.canRelease THEN {} ELSE {v})
      BY <1>1, <1>4, RememberedAre DEF ProcessData
  <2>10. {waiting[v][i].packet : i \in {k \in DOMAIN waiting[v] : ~waiting[v][k].canRelease}} \subseteq P
      BY DEF WaitingFor, P
  <2>11. \A d \in DOMAIN referencedPackets : d \in Packets
      BY DEF ClientTypes
  <2>12. WaitersWait'
    <3>1. \A e \in Packets : waiting'[e] # <<>> => e \notin CameIn(received')
        BY <2>6, <2>8, WaitedFor DEF WaitersWait
    <3>2. \A e \in DOMAIN referencedPackets' : DomainOf[e] = NoPacket => e \in DOMAIN referencedPackets \/ e = v
        BY <1>1, <2>3, <2>9, <2>10, PacketStreamingAssumption
    <3>3. \A e \in DOMAIN referencedPackets' : DomainOf[e] = NoPacket => e \in CameIn(received')
        BY <1>1, <2>6, <2>11, <3>2 DEF WaitersWait
    <3> QED
        BY <3>1, <3>3 DEF WaitersWait
  <2>13. \A d \in Packets : DomainOf[d] = NoPacket /\ d \in Passed' => d \in Passed \/ Ends(b, d)
      BY <1>1, <2>6, <2>9 DEF Passed, Ends
  <2> QED
      BY <2>12, <2>13 DEF Waited
<1> QED
    BY <1>2, <1>3, <1>4 DEF AddDataPacketBuffer, Throw

(* The domain packets of what may still be added are not destroyed.        *)
LEMMA DomainsLeft ==
    ASSUME NEW pend, NEW queue, NEW onWire, NEW creators, NEW F, Fresh(pend, creators) \subseteq F, F \subseteq alive,
           \A p \in F, d \in Packets : DomainOf[p] = d => d \in alive
    PROVE  \A p \in Fresh(pend, creators), d \in Packets :
               DomainOf[p] = d => d \in Left(pend, queue, onWire, creators)
    BY DEF Fresh, Left, HeldDirectly

(* Steps that leave the link and the client alone.                         *)
LEMMA SameVain ==
    ASSUME VainInv, Underway' = Underway, UNCHANGED <<received, referencedPackets, waiting>>,
           Fresh(pending', kept') \subseteq Fresh(pending, kept),
           \A p \in Fresh(pending', kept'), d \in Packets : DomainOf[p] = d => d \in alive'
    PROVE  VainInv'
<1>1. Passed' = Passed /\ ReceivedTypes' /\ WaitersWait'
    BY DEF VainInv, Passed, CameIn, ReceivedTypes, WaitersWait
<1>2. DomainsUsable(Underway, Passed) /\ DomainsStay(Underway, Passed, Fresh(pending', kept'))
    BY DEF VainInv, DomainsStay
<1>3. Fresh(pending, kept)' = Fresh(pending', kept')
    BY DEF Fresh
<1> QED
    BY <1>1, <1>2, <1>3 DEF VainInv, DomainsUsable, DomainsStay

(* addDaqPacket: what is queued comes before the release of the domain     *)
(* packet.                                                                 *)
LEMMA AddVain ==
    ASSUME StreamInv, VainInv, NEW s \in Signals, pending[s] # <<>>,
           NEW b \in Buffers, NEW ready \in SUBSET Packets, IsFiniteSet(ready), Queued(out.queue, b, ready, out'.queue),
           pending' = [pending EXCEPT ![s] = Tail(@)],
           UNCHANGED <<kept, wire, received, referencedPackets, waiting>>,
           alive' = Left(pending', out'.queue, wire, kept), ready \cap alive' = {},
           \A p \in Packets : Carries(b, p) => p \in Fresh(pending, kept),
           \A p \in Fresh(pending', kept), d \in Packets : DomainOf[p] = d => ~Ends(b, d)
    PROVE  VainInv'
<1> DEFINE F == Fresh(pending, kept)
           F2 == Fresh(pending', kept)
           r == out'.queue
           pend == pending'
           U == wire \o out.queue
           L == Passed
<1>1. StreamTypes /\ F \subseteq alive /\ wire \in Seq(Buffers) /\ out.queue \in Seq(Buffers)
    BY DEF StreamInv, LinkInv, StreamTypes
<1>2. F2 \subseteq F
    BY <1>1, FreshTail
<1>3. \A p \in F2, d \in Packets : DomainOf[p] = d => d \in alive'
  <2>1. \A p \in F, d \in Packets : DomainOf[p] = d => d \in alive
      BY DEF VainInv
  <2>2. F2 = Fresh(pend, kept) /\ alive' = Left(pend, r, wire, kept)
      OBVIOUS
  <2> HIDE DEF F, F2, pend, r
  <2>3. \A p \in Fresh(pend, kept), d \in Packets : DomainOf[p] = d => d \in Left(pend, r, wire, kept)
      BY <1>1, <1>2, <2>1, <2>2, DomainsLeft
  <2> QED
      BY <2>2, <2>3
<1>4. DomainsUsable(U, L) /\ DomainsStay(U, L, F) /\ ReceivedTypes /\ WaitersWait
    BY DEF VainInv, Underway
<1>5. \A p, d \in Packets : Carries(b, p) /\ DomainOf[p] = d => Usable(U, Len(U), L, d)
    BY <1>4 DEF DomainsStay
<1>6. \A p \in F2, d \in Packets : DomainOf[p] = d => ~Ends(b, d) /\ d \notin ready
    BY <1>3
<1>7. Passed' = L /\ ReceivedTypes' /\ WaitersWait' /\ Underway' = wire \o r /\ Fresh(pending, kept)' = F2
    BY <1>4 DEF Passed, CameIn, ReceivedTypes, WaitersWait, Underway, Fresh
<1>8. Queued(out.queue, b, ready, r)
    OBVIOUS
<1> HIDE DEF F, F2, r, L
<1>9. DomainsUsable(wire \o r, L) /\ DomainsStay(wire \o r, L, F2)
    BY <1>1, <1>2, <1>4, <1>5, <1>6, <1>8, QueuedUsable
<1> QED
    BY <1>3, <1>7, <1>9 DEF VainInv

(* The signals.                                                            *)
LEMMA SourceVain ==
    ASSUME StreamInv, VainInv,
           \/ \E s \in Signals, e \in LaterEvents : SetDescriptor(s, e)
           \/ \E p \in Packets, s \in Signals : SendPacket(p, s)
           \/ \E p \in Packets : DropPacket(p)
    PROVE  VainInv'
<1>1. /\ StreamTypes /\ Fresh(pending, kept) \subseteq alive /\ kept \subseteq alive
      /\ pending \in [Signals -> Seq(Messages)]
      /\ \A p \in Fresh(pending, kept), d \in Packets : DomainOf[p] = d => d \in alive
    BY DEF StreamInv, LinkInv, StreamTypes, VainInv
<1>2. ASSUME NEW s \in Signals, NEW m \in Messages, pending' = [pending EXCEPT ![s] = Append(@, m)],
             \A p \in Packets : m = Data(p) => p \in kept,
             UNCHANGED <<kept, out, alive, wire, received, referencedPackets, waiting>>
      PROVE  VainInv'
  <2>1. pending[s] \in Seq(Messages)
      BY <1>1
  <2> DEFINE a == Append(pending[s], m)
  <2>2. /\ a \in Seq(Messages) /\ Len(a) = Len(pending[s]) + 1 /\ a[Len(pending[s]) + 1] = m
        /\ \A i \in 1 .. Len(pending[s]) : a[i] = pending[s][i]
        /\ Len(pending[s]) \in Nat /\ DOMAIN pending[s] = 1 .. Len(pending[s])
      BY <2>1, AppendProperties, LenProperties
  <2> HIDE DEF a
  <2>3. DOMAIN a = 1 .. Len(pending[s]) + 1
      BY <2>2, LenProperties
  <2>4. ToSet(a) \subseteq ToSet(pending[s]) \cup {m}
    <3>1. \A i \in 1 .. Len(pending[s]) + 1 : i \in 1 .. Len(pending[s]) \/ i = Len(pending[s]) + 1
        BY <2>2
    <3> QED
        BY <2>2, <2>3, <3>1 DEF ToSet
  <2>5. pending' = [pending EXCEPT ![s] = a]
      BY <1>2 DEF a
  <2>6. \A t \in Signals : ToSet(pending'[t]) \subseteq ToSet(pending[t]) \cup {m}
      BY <1>1, <2>4, <2>5
  <2>7. Fresh(pending', kept') \subseteq Fresh(pending, kept)
      BY <1>2, <2>6 DEF Fresh
  <2>8. Underway' = Underway
      BY <1>2 DEF Underway
  <2> QED
      BY <1>1, <1>2, <2>7, <2>8, SameVain
<1>3. ASSUME NEW s \in Signals, NEW e \in LaterEvents, SetDescriptor(s, e)
      PROVE  VainInv'
  <2>1. e \in Messages /\ \A p \in Packets : e # Data(p)
    <3>1. e \in Messages
        BY DEF LaterEvents, Event, Messages, Events, Told
    <3>2. e.kind = "event"
        BY DEF LaterEvents, Event
    <3>3. \A p : Data(p).kind = "data"
        BY DEF Data
    <3> QED
        BY <3>1, <3>2, <3>3
  <2> QED
      BY <1>2, <1>3, <2>1 DEF SetDescriptor, serverVars, collection, clientVars
<1>4. ASSUME NEW p \in Packets, NEW s \in Signals, SendPacket(p, s)
      PROVE  VainInv'
  <2>1. Data(p) \in Messages /\ p \in kept
      BY <1>4 DEF Messages, SendPacket
  <2>2. \A q \in Packets : Data(p) = Data(q) => q \in kept
      BY <2>1 DEF Data
  <2> QED
      BY <1>2, <1>4, <2>1, <2>2 DEF SendPacket, serverVars, collection, clientVars
<1>5. ASSUME NEW p \in Packets, DropPacket(p)
      PROVE  VainInv'
  <2> DEFINE c == kept'
  <2>1. /\ c \subseteq kept /\ Destroy(pending, out.queue, wire, c, sent, readyForRelease)
        /\ UNCHANGED <<pending, out, wire, received, referencedPackets, waiting>>
      BY <1>5 DEF DropPacket, serverVars, clientVars
  <2> HIDE DEF c
  <2>2. alive' = Left(pending, out.queue, wire, c)
      BY <2>1 DEF Destroy
  <2>3. Fresh(pending, c) \subseteq Fresh(pending, kept)
      BY <2>1 DEF Fresh
  <2>4. \A q \in Fresh(pending, c), d \in Packets : DomainOf[q] = d => d \in Left(pending, out.queue, wire, c)
      BY <1>1, <2>3, DomainsLeft
  <2>5. Fresh(pending', kept') = Fresh(pending, c) /\ Underway' = Underway
      BY <2>1 DEF Fresh, c, Underway
  <2> QED
      BY <2>1, <2>2, <2>3, <2>4, <2>5, SameVain
<1> QED
    BY <1>3, <1>4, <1>5

(* addDaqPacket of an event.                                               *)
LEMMA AddEventVain ==
    ASSUME StreamInv, VainInv, NEW s \in Signals, AddEventPacket(s)
    PROVE  VainInv'
<1> DEFINE e == Head(pending[s])
           b == EventBuffer(s, e)
<1>1. StreamTypes /\ GroupsOK(out)
    BY DEF StreamInv
<1>2. /\ pending[s] # <<>> /\ e.kind = "event"
      /\ pending' = [pending EXCEPT ![s] = Tail(@)]
      /\ Destroy(pending', out'.queue, wire, kept, sent, ReadyAfter(readyForRelease))
      /\ UNCHANGED <<kept, wire, received, referencedPackets, waiting>>
    BY DEF AddEventPacket, clientVars
<1>3. Queued(out.queue, b, readyForRelease, out'.queue)
    BY <1>1, AddEventTypes
<1>4. b \in Buffers /\ Shaped(b) /\ b.type = "event"
    BY <1>1, <1>2, FirstMessage, BuffersMade
<1> HIDE DEF b
<1>5. \A p \in Packets : ~Ends(b, p) /\ ~Carries(b, p)
    BY <1>4, PacketStreamingAssumption DEF Shaped, Ends, Carries
<1>6. alive' = Left(pending', out'.queue, wire, kept)
    BY <1>2 DEF Destroy
<1>7. /\ readyForRelease \in SUBSET Packets /\ IsFiniteSet(readyForRelease)
      /\ readyForRelease \cap alive' = {}
  <2>1. alive' \subseteq alive
      BY <1>6 DEF Left
  <2> QED
      BY <1>1, <2>1 DEF StreamTypes
<1> QED
    BY <1>2, <1>3, <1>4, <1>5, <1>6, <1>7, AddVain

(* addDaqPacket of a data packet.                                          *)
LEMMA AddDataVain ==
    ASSUME StreamInv, VainInv, NEW s \in Signals, NEW moved \in BOOLEAN, AddDataPacket(s, moved)
    PROVE  VainInv'
<1> DEFINE p0 == Head(pending[s]).packet
           m == Mark(s, moved)
           b == Added(s, moved)
           S == SentNow(s, moved)
           gone == Gone(s, moved)
           ready == readyForRelease \cup gone
           rest == [pending EXCEPT ![s] = Tail(@)]
<1>1. StreamTypes /\ GroupsOK(out) /\ Fresh(pending, kept) \subseteq alive
    BY DEF StreamInv, LinkInv
<1>2. /\ pending[s] # <<>> /\ pending' = rest
      /\ UNCHANGED <<kept, wire, received, referencedPackets, waiting>>
    BY DEF AddDataPacket, clientVars
<1>3. /\ Queued(out.queue, b, ready, out'.queue)
      /\ gone \subseteq S /\ gone \cap alive' = {}
      /\ alive' = Left(rest, out'.queue, wire, kept)
      /\ p0 \in Packets /\ Data(p0) \in ToSet(pending[s])
    BY <1>1, AddDataTypes
<1>4. /\ readyForRelease \subseteq Packets /\ IsFiniteSet(readyForRelease) /\ IsFiniteSet(sent)
      /\ readyForRelease \cap alive = {} /\ alive \subseteq Packets /\ sent \subseteq alive
    BY <1>1 DEF StreamTypes
<1>5. m \in BOOLEAN
    BY DEF Mark, OnlyReference, HeldDirectly
<1>6. b \in Buffers /\ Shaped(b) /\ b.packet = p0 /\ b.canRelease = m /\ b.type \in {"data", "alreadySent"}
  <2> HIDE DEF m
  <2>1. b = IF p0 \in sent THEN AlreadySentBuffer(s, p0, m) ELSE DataBuffer(s, p0, m)
      BY DEF Added, m
  <2> QED
      BY <1>3, <1>5, <2>1, BuffersMade
<1>7. S \subseteq sent \cup {p0}
    BY DEF SentNow, SentAfter
<1>8. m => ~\E v \in alive : DomainOf[v] = p0
    BY DEF Mark, OnlyReference
<1>9. alive' \subseteq alive
    BY <1>3 DEF Left
<1>10. Fresh(rest, kept) \subseteq Fresh(pending, kept)
    BY <1>1, <1>2, FreshTail
<1>11. p0 \in Fresh(pending, kept)
    BY <1>3 DEF Fresh
<1> HIDE DEF p0, m, b, S, gone, rest
<1>12. ready \in SUBSET Packets /\ IsFiniteSet(ready) /\ ready \cap alive' = {}
  <2>1. IsFiniteSet(sent \cup {p0})
      BY <1>4, FS_AddElement
  <2>2. IsFiniteSet(gone)
      BY <1>3, <1>7, <2>1, FS_Subset
  <2>3. IsFiniteSet(ready)
      BY <1>4, <2>2, FS_Union
  <2> QED
      BY <1>3, <1>4, <1>7, <1>9, <2>3
<1>13. \A p \in Packets : Carries(b, p) => p \in Fresh(pending, kept)
    BY <1>6, <1>11 DEF Carries
<1>14. \A p \in Fresh(rest, kept), d \in Packets : DomainOf[p] = d => ~Ends(b, d)
  <2>1. b.ids = {}
      BY <1>6 DEF Shaped
  <2> QED
      BY <1>1, <1>6, <1>8, <1>10, <2>1 DEF Ends
<1> HIDE DEF ready
<1>15. /\ pending' = [pending EXCEPT ![s] = Tail(@)] /\ alive' = Left(pending', out'.queue, wire, kept)
       /\ \A p \in Fresh(pending', kept), d \in Packets : DomainOf[p] = d => ~Ends(b, d)
    BY <1>2, <1>3, <1>14 DEF rest
<1> QED
    BY <1>2, <1>3, <1>6, <1>12, <1>13, <1>15, AddVain

(* addPacketBuffer.                                                        *)
LEMMA ClientVain ==
    ASSUME StreamInv, VainInv, AddPacketBuffer
    PROVE  VainInv'
<1> DEFINE b == Head(wire)
           U == Underway
           L == Passed
           L2 == Passed'
           F == Fresh(pending, kept)
<1>1. /\ StreamTypes /\ ClientTypes /\ ReceivedTypes /\ WaitersWait /\ F \subseteq alive /\ F \subseteq Packets
      /\ DomainsUsable(U, L) /\ DomainsStay(U, L, F)
    BY DEF StreamInv, LinkInv, StreamTypes, ClientTypes, VainInv, Fresh
<1>2. /\ wire # <<>> /\ wire' = Tail(wire)
      /\ \/ AddEventPacketBuffer(b) \/ AddDataPacketBuffer(b)
         \/ AddReleasePacketBuffer(b) \/ AddAlreadySentPacketBuffer(b)
      /\ UNCHANGED <<pending, kept, out>>
    BY DEF AddPacketBuffer, serverVars, sourceVars
<1>3. b \in Buffers /\ Shaped(b) /\ b = wire[1]
    BY <1>1, <1>2, HeadOfWire
<1>4. alive' = Left(pending, out.queue, wire', kept)
    BY <1>1, ClientStepTypes
<1>5. wire \in Seq(Buffers) /\ out.queue \in Seq(Buffers)
    BY <1>1 DEF StreamTypes
<1>6. U \in Seq(Buffers) /\ U # <<>> /\ U[1] = b /\ Underway' = Tail(U)
  <2>1. U \in Seq(Buffers) /\ U # <<>> /\ U[1] = wire[1] /\ Tail(wire) \o out.queue = Tail(U)
      BY <1>2, <1>5, UnderwayTail DEF Underway
  <2> QED
      BY <1>2, <1>3, <2>1 DEF Underway
<1>7. 1 \in 1 .. Len(U)
    BY <1>6, EmptySeq
<1> HIDE DEF b, U
<1>8. ReceivedTypes' /\ Waited(b)
  <2>1. CASE AddEventPacketBuffer(b)
      BY <1>1, <1>3, <2>1, EventWaited
  <2>2. CASE AddDataPacketBuffer(b) \/ AddReleasePacketBuffer(b) \/ AddAlreadySentPacketBuffer(b)
    <3>1. ReceivedTypes'
        BY <1>1, <1>3, <2>2, DataReceived
    <3>2. CASE AddDataPacketBuffer(b)
      <4>1. b.packet \in Packets /\ Carries(U[1], b.packet)
          BY <1>3, <1>6, <3>2 DEF AddDataPacketBuffer, Shaped, Carries
      <4>2. \A d \in Packets : DomainOf[b.packet] = d => d \notin Passed
          BY <1>1, <1>7, <4>1 DEF DomainsUsable, Usable
      <4> QED
          BY <1>1, <1>3, <3>1, <3>2, <4>2, DataWaited
    <3> QED
        BY <1>1, <1>3, <2>2, <3>1, <3>2, ReleaseWaited, AlreadySentWaited
  <2> QED
      BY <1>2, <2>1, <2>2
<1>9. \A d \in Packets : DomainOf[d] = NoPacket /\ d \in L2 => d \in L \/ Ends(U[1], d)
    BY <1>6, <1>8 DEF Waited
<1>10. \A p \in F, d \in Packets : DomainOf[p] = d => d \in alive'
  <2> DEFINE w == wire'
  <2>1. \A p \in F, d \in Packets : DomainOf[p] = d => d \in alive
      BY DEF VainInv
  <2> HIDE DEF w
  <2>2. \A p \in F, d \in Packets : DomainOf[p] = d => d \in Left(pending, out.queue, w, kept)
      BY <1>1, <2>1, DomainsLeft
  <2> QED
      BY <1>4, <2>2 DEF w
<1>11. Fresh(pending, kept)' = F
    BY <1>2 DEF Fresh
<1>12. WaitersWait'
    BY <1>8 DEF Waited
<1> HIDE DEF L, L2, F
<1>13. DomainsUsable(Tail(U), L2) /\ DomainsStay(Tail(U), L2, F)
    BY <1>1, <1>6, <1>9, UsableTail
<1> QED
    BY <1>6, <1>8, <1>10, <1>11, <1>12, <1>13 DEF VainInv, L2

(* Every step.                                                             *)
LEMMA NextVain ==
    ASSUME StreamInv, VainInv, [StreamNext]_streamVars
    PROVE  VainInv'
<1>1. /\ StreamTypes /\ GroupsOK(out) /\ Fresh(pending, kept) \subseteq alive
      /\ \A p \in Fresh(pending, kept), d \in Packets : DomainOf[p] = d => d \in alive
    BY DEF StreamInv, LinkInv, VainInv
<1>2. CASE UNCHANGED streamVars
  <2>1. UNCHANGED <<received, referencedPackets, waiting, wire, out, pending, kept, alive>>
      BY <1>2 DEF streamVars, sourceVars, serverVars, collection, clientVars
  <2>2. Underway' = Underway /\ Fresh(pending', kept') = Fresh(pending, kept)
      BY <2>1 DEF Underway, Fresh
  <2> QED
      BY <1>1, <2>1, <2>2, SameVain
<1>3. CASE GetStreamingWriteTask
  <2>1. Underway' = Underway /\ alive' = Left(pending, out'.queue, wire', kept)
      BY <1>1, <1>3, TakeTypes
  <2>2. UNCHANGED <<received, referencedPackets, waiting, pending, kept>>
      BY <1>3 DEF GetStreamingWriteTask, clientVars, sourceVars
  <2> DEFINE q == out'.queue
             w == wire'
  <2>3. alive' = Left(pending, q, w, kept)
      BY <2>1
  <2> HIDE DEF q, w
  <2>4. \A p \in Fresh(pending, kept), d \in Packets : DomainOf[p] = d => d \in Left(pending, q, w, kept)
      BY <1>1, DomainsLeft
  <2>5. Fresh(pending', kept') = Fresh(pending, kept)
      BY <2>2 DEF Fresh
  <2> QED
      BY <2>1, <2>2, <2>3, <2>4, <2>5, SameVain
<1> QED
    BY <1>2, <1>3, SourceVain, AddEventVain, AddDataVain, ClientVain DEF StreamNext

(* Nobody waits in vain: while a packet waits for its domain packet at the *)
(* client, that one has not come, although both may be destroyed at the    *)
(* server and released at any time: the release of the domain packet comes *)
(* after every packet that needs it (addDataPacketBuffer, canReleasePacket *)
(* and checkAndSendReleasePacket).                                         *)
THEOREM WaitersAreServed == StreamSpec => []NobodyWaitsInVain
<1>1. StreamInit => StreamInv /\ VainInv
  <2> SUFFICES ASSUME StreamInit
               PROVE  StreamInv /\ VainInv
      OBVIOUS
  <2>1. /\ received = <<>> /\ DOMAIN referencedPackets = {} /\ wire = <<>> /\ out.queue = <<>>
        /\ \A d \in Packets : waiting[d] = <<>>
        /\ alive = Packets
      BY DEF StreamInit
  <2>2. <<>> \in Seq(Items) /\ <<>> \in Seq(Buffers) /\ \A i \in 1 .. Len(<<>>) : FALSE
      BY EmptySeq
  <2>3. Underway = <<>>
      BY <2>1, <2>2, ConcatEmptySeq DEF Underway
  <2>4. CameIn(received) = {}
      BY <2>1, <2>2 DEF CameIn
  <2>5. ReceivedTypes /\ WaitersWait /\ Passed = {}
      BY <2>1, <2>2, <2>4 DEF ReceivedTypes, WaitersWait, Passed
  <2>6. DomainsUsable(Underway, Passed) /\ \A F : DomainsStay(Underway, Passed, F)
      BY <2>2, <2>3, <2>5 DEF DomainsUsable, DomainsStay, Usable, NotEnded
  <2> QED
      BY <2>1, <2>5, <2>6, InitStreamInv DEF VainInv
<1>2. StreamInv /\ VainInv /\ [StreamNext]_streamVars => StreamInv' /\ VainInv'
    BY NextStreamInv, NextVain
<1>3. StreamInv /\ VainInv => NobodyWaitsInVain
  <2> SUFFICES ASSUME StreamInv, VainInv, NEW d \in Packets, NEW p \in WaitingFor(d), NEW j \in DOMAIN received,
                      received[j].kind = "data"
               PROVE  received[j].packet # DomainOf[p]
      BY DEF NobodyWaitsInVain, WaitingPackets
  <2>1. ClientTypes /\ received \in Seq(Items)
      BY DEF StreamInv, StreamTypes, ClientTypes, VainInv, ReceivedTypes
  <2>2. DomainOf[p] = d
      BY <2>1, WaitedFor
  <2>3. waiting[d] # <<>>
      BY EmptySeq DEF WaitingFor
  <2>4. d \notin CameIn(received)
      BY <2>3 DEF VainInv, WaitersWait
  <2>5. j \in 1 .. Len(received)
      BY <2>1, LenProperties
  <2> QED
      BY <2>2, <2>4, <2>5 DEF CameIn
<1> QED
    BY <1>1, <1>2, <1>3, PTL DEF StreamSpec
=============================================================================
