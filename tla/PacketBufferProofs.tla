-------------------------- MODULE PacketBufferProofs --------------------------
(***************************************************************************)
(* Proofs about PacketBuffer for every size of the buffer, every set of    *)
(* packet sizes and every order in which packets are destroyed.            *)
(***************************************************************************)
EXTENDS PacketBuffer, SequenceTheorems, FiniteSetTheorems, TLAPS

--------------------------------------------------------------------------------
(***************************************************************************)
(* The ring, as a function of its size N, the read and write positions r   *)
(* and w and the flag f.  Going forward from r, the lent part ends at      *)
(* EndOf, which may lie in the next lap.                                   *)
(***************************************************************************)
At(p, N) == IF p.pos >= N THEN p.pos - N ELSE p.pos
Ahead(a, N, r) == IF a >= r THEN a ELSE a + N
EndOf(N, r, w, f) == IF r < w \/ (r = w /\ ~f) THEN w ELSE w + N

PlaceOK(N, r, w, f) ==
    /\ N \in Nat /\ r \in Nat /\ w \in Nat /\ f \in BOOLEAN
    /\ (r < N /\ w < N) \/ (N = 0 /\ r = 0 /\ w = 0)
    /\ f => r = w

(* The piece lies in one part within the lent part; two do not meet.       *)
Fits(p, N, r, e) ==
    /\ p.size >= 1
    /\ At(p, N) + p.size <= N
    /\ Ahead(At(p, N), N, r) + p.size <= e
Apart(p, q, N) == At(p, N) + p.size <= At(q, N) \/ At(q, N) + q.size <= At(p, N)

AllFit(s, N, r, e) == \A i \in DOMAIN s : Fits(s[i], N, r, e)
AllApart(s, N) == \A i, j \in DOMAIN s : i # j => Apart(s[i], s[j], N)
NoneMeet(s, t, N) == \A i \in DOMAIN s, j \in DOMAIN t : Apart(s[i], t[j], N)
InBuffer(s, N) == \A i \in DOMAIN s : s[i].pos < N

(* Pieces lent and pieces waiting in the heap fill parts of the lent part, *)
(* none meeting another.                                                   *)
RingOK(N, r, w, f, heap, lent) ==
    /\ PlaceOK(N, r, w, f)
    /\ heap \in Seq(Pieces) /\ lent \in Seq(Pieces)
    /\ AllFit(heap, N, r, EndOf(N, r, w, f)) /\ AllFit(lent, N, r, EndOf(N, r, w, f))
    /\ AllApart(heap, N) /\ AllApart(lent, N) /\ NoneMeet(heap, lent, N)
    /\ InBuffer(lent, N)

(* The inductive invariant for NoOverlap.                                  *)
RingInv ==
    /\ RingOK(sizeInBytes, readPos, writePos, isFull, oosPackets, live)
    /\ underReset \in BOOLEAN /\ resizing \in [Resizers -> Nat] /\ inOrder \in BOOLEAN

(* As long as packets are destroyed oldest first, the pieces lie one after *)
(* another from readPos to writePos; only the rest of the buffer skipped   *)
(* by WriteAtBeginning may wait in the heap, behind the packet before it.  *)
After(p, N) == IF p.pos + p.size = N THEN 0 ELSE p.pos + p.size
Follows(p, q, heap, N) ==
    \/ q.pos = After(p, N)
    \/ heap # <<>> /\ heap[1].pos = p.pos + p.size /\ q.pos = 0
LinedUp(N, r, w, f, heap, lent) ==
    /\ lent = <<>> => r = w /\ ~f /\ heap = <<>>
    /\ lent # <<>> => lent[1].pos = r /\ After(lent[Len(lent)], N) = w
    /\ \A i \in 1 .. Len(lent) - 1 : Follows(lent[i], lent[i + 1], heap, N)
    /\ Len(heap) <= 1
    /\ heap # <<>> => /\ heap[1].pos + heap[1].size = N
                      /\ \E i \in 1 .. Len(lent) - 1 : heap[1].pos = lent[i].pos + lent[i].size
LineInv == inOrder => LinedUp(sizeInBytes, readPos, writePos, isFull, oosPackets, live)

--------------------------------------------------------------------------------
(***************************************************************************)
(* Arithmetic of the ring.                                                 *)
(***************************************************************************)

(* The lent part is at most one lap long.                                  *)
LEMMA EndBound ==
    ASSUME NEW N, NEW r, NEW w, NEW f, PlaceOK(N, r, w, f)
    PROVE  /\ EndOf(N, r, w, f) \in Nat
           /\ r <= EndOf(N, r, w, f) /\ EndOf(N, r, w, f) <= r + N
BY DEF PlaceOK, EndOf

(* A piece is somewhere.                                                   *)
LEMMA AtType ==
    ASSUME NEW p \in Pieces, NEW N \in Nat
    PROVE  /\ p.pos \in Nat /\ p.size \in Nat /\ At(p, N) \in Nat
           /\ \A r \in Nat : Ahead(At(p, N), N, r) \in Nat
<1>1. p.pos \in Nat /\ p.size \in Nat
    BY DEF Pieces
<1>2. At(p, N) \in Nat
    BY <1>1 DEF At
<1>3. \A r \in Nat : Ahead(At(p, N), N, r) \in Nat
  <2> DEFINE a == At(p, N)
  <2>1. a \in Nat
      BY <1>2
  <2> HIDE DEF a
  <2>2. \A r \in Nat : Ahead(a, N, r) \in Nat
      BY <2>1 DEF Ahead
  <2> QED
      BY <2>2 DEF a
<1> QED
    BY <1>1, <1>2, <1>3

(* The arithmetic of Write: n bytes from w on are free, and lending them   *)
(* moves the end of the lent part by n.                                    *)
LEMMA LendArithmetic ==
    ASSUME NEW N, NEW r, NEW w, NEW f, PlaceOK(N, r, w, f),
           NEW n \in Nat, n >= 1, ~(f /\ w = r),
           n <= (IF w < r THEN r - w ELSE N - w),
           NEW v, v = (IF w + n = N THEN 0 ELSE w + n),
           NEW g, g = (f \/ v = r)
    PROVE  /\ PlaceOK(N, r, v, g)
           /\ EndOf(N, r, v, g) = EndOf(N, r, w, f) + n
           /\ w < N /\ w + n <= N
           /\ EndOf(N, r, w, f) = Ahead(w, N, r)
           /\ \A a \in Nat, s \in Nat :
                  s >= 1 /\ a + s <= N /\ Ahead(a, N, r) + s <= EndOf(N, r, w, f) =>
                      /\ Ahead(a, N, r) + s <= EndOf(N, r, v, g)
                      /\ a + s <= w \/ w + n <= a
<1>1. N \in Nat /\ r \in Nat /\ w \in Nat /\ f = FALSE /\ r < N /\ w < N
    BY DEF PlaceOK
<1>2. w + n <= N /\ v \in Nat /\ v < N /\ g \in BOOLEAN /\ g = (v = r)
    BY <1>1
<1>3. PlaceOK(N, r, v, g)
    BY <1>1, <1>2 DEF PlaceOK
<1>4. CASE w < r
  <2>1. v = w + n /\ v <= r
      BY <1>1, <1>4
  <2>2. EndOf(N, r, w, f) = w + N /\ Ahead(w, N, r) = w + N
      BY <1>1, <1>4 DEF EndOf, Ahead
  <2>3. EndOf(N, r, v, g) = v + N
    <3>1. CASE v = r
      <4>1. g = TRUE
          BY <1>2, <3>1, Zenon
      <4> QED
          BY <1>1, <3>1, <4>1 DEF EndOf
    <3>2. CASE v # r
        BY <1>1, <1>2, <1>4, <2>1, <3>2 DEF EndOf
    <3> QED
        BY <3>1, <3>2
  <2>4. ASSUME NEW a \in Nat, NEW s \in Nat, s >= 1, a + s <= N, Ahead(a, N, r) + s <= w + N
        PROVE  Ahead(a, N, r) + s <= v + N /\ (a + s <= w \/ w + n <= a)
      BY <1>1, <1>4, <2>1, <2>4 DEF Ahead
  <2>5. EndOf(N, r, v, g) = EndOf(N, r, w, f) + n
      BY <1>1, <2>1, <2>2, <2>3
  <2> QED
      BY <1>1, <1>2, <1>3, <2>2, <2>3, <2>4, <2>5
<1>5. CASE ~(w < r)
  <2>1. EndOf(N, r, w, f) = w /\ Ahead(w, N, r) = w
      BY <1>1, <1>5 DEF EndOf, Ahead
  <2>2. EndOf(N, r, v, g) = w + n
    <3>1. CASE v = r
      <4>1. g = TRUE
          BY <1>2, <3>1, Zenon
      <4>2. v = 0 /\ w + n = N
          BY <1>1, <1>5, <3>1
      <4> QED
          BY <1>1, <3>1, <4>1, <4>2 DEF EndOf
    <3>2. CASE v # r
      <4>1. g = FALSE
          BY <1>2, <3>2, Zenon
      <4>2. CASE w + n = N
          BY <1>1, <1>5, <3>2, <4>1, <4>2 DEF EndOf
      <4>3. CASE w + n # N
          BY <1>1, <1>5, <3>2, <4>1, <4>3 DEF EndOf
      <4> QED
          BY <4>2, <4>3
    <3> QED
        BY <3>1, <3>2
  <2>3. ASSUME NEW a \in Nat, NEW s \in Nat, s >= 1, a + s <= N, Ahead(a, N, r) + s <= w
        PROVE  Ahead(a, N, r) + s <= w + n /\ (a + s <= w \/ w + n <= a)
      BY <1>1, <1>5, <2>3 DEF Ahead
  <2> QED
      BY <1>1, <1>2, <1>3, <2>1, <2>2, <2>3
<1> QED
    BY <1>4, <1>5

(* The same for pieces.                                                    *)
LEMMA Lend ==
    ASSUME NEW N, NEW r, NEW w, NEW f, PlaceOK(N, r, w, f),
           NEW n \in Nat, n >= 1, ~(f /\ w = r),
           n <= (IF w < r THEN r - w ELSE N - w),
           NEW v, v = (IF w + n = N THEN 0 ELSE w + n),
           NEW g, g = (f \/ v = r)
    PROVE  /\ PlaceOK(N, r, v, g)
           /\ Piece(w, n) \in Pieces /\ Piece(w, n).pos < N
           /\ Fits(Piece(w, n), N, r, EndOf(N, r, v, g))
           /\ \A q \in Pieces : Fits(q, N, r, EndOf(N, r, w, f)) =>
                  Fits(q, N, r, EndOf(N, r, v, g)) /\ Apart(q, Piece(w, n), N)
                                                   /\ Apart(Piece(w, n), q, N)
<1> DEFINE e == EndOf(N, r, w, f)
           d == EndOf(N, r, v, g)
           P == Piece(w, n)
<1>1. /\ PlaceOK(N, r, v, g) /\ d = e + n /\ w < N /\ w + n <= N /\ e = Ahead(w, N, r)
      /\ \A a \in Nat, s \in Nat :
             s >= 1 /\ a + s <= N /\ Ahead(a, N, r) + s <= e =>
                 /\ Ahead(a, N, r) + s <= d
                 /\ a + s <= w \/ w + n <= a
    BY LendArithmetic
<1>2. N \in Nat /\ r \in Nat /\ w \in Nat
    BY DEF PlaceOK
<1>3. P \in Pieces /\ P.pos = w /\ P.size = n
    BY <1>2 DEF Piece, Pieces
<1> HIDE DEF P, e, d
<1>4. At(P, N) = w
    BY <1>1, <1>2, <1>3 DEF At
<1>5. Fits(P, N, r, d)
    BY <1>1, <1>2, <1>3, <1>4 DEF Fits
<1>6. ASSUME NEW q \in Pieces, Fits(q, N, r, e)
      PROVE  Fits(q, N, r, d) /\ Apart(q, P, N) /\ Apart(P, q, N)
  <2> DEFINE a == At(q, N)
             s == q.size
  <2>1. a \in Nat /\ s \in Nat
      BY <1>2, AtType
  <2>2. s >= 1 /\ a + s <= N /\ Ahead(a, N, r) + s <= e
      BY <1>6 DEF Fits
  <2>3. Ahead(a, N, r) + s <= d /\ (a + s <= w \/ w + n <= a)
      BY <1>1, <2>1, <2>2
  <2> HIDE DEF a, s
  <2> QED
      BY <1>3, <1>4, <2>2, <2>3 DEF Fits, Apart, a, s
<1> QED
    BY <1>1, <1>3, <1>5, <1>6 DEF P, e, d

(* A nonempty set of places has a last one.                                *)
LEMMA LastOne ==
    ASSUME NEW n \in Nat, NEW T \in SUBSET (1 .. n), T # {}
    PROVE  \E x \in T : \A y \in T : y <= x
<1> DEFINE F == {(x + 1) .. n : x \in T}
<1>1. F \subseteq FiniteSubsetsOf(1 .. n)
  <2> SUFFICES ASSUME NEW x \in T
               PROVE  (x + 1) .. n \in FiniteSubsetsOf(1 .. n)
      BY Zenon
  <2>1. (x + 1) .. n \subseteq 1 .. n
      OBVIOUS
  <2>2. IsFiniteSet((x + 1) .. n)
      BY FS_Interval
  <2> QED
      BY <2>1, <2>2 DEF FiniteSubsetsOf
<1>2. F # {}
    BY Zenon
<1>3. IsWellFoundedOn(StrictSubsetOrdering(1 .. n), FiniteSubsetsOf(1 .. n))
    BY FS_StrictSubsetOrderingWellFounded
<1>4. \E U \in F : \A V \in F : <<V, U>> \notin StrictSubsetOrdering(1 .. n)
    BY <1>1, <1>2, <1>3, WFMin, Zenon
<1>5. PICK x \in T : \A y \in T :
          <<(y + 1) .. n, (x + 1) .. n>> \notin StrictSubsetOrdering(1 .. n)
    BY <1>4, Zenon
<1>6. ASSUME NEW y \in T, ~(y <= x)
      PROVE  FALSE
  <2>1. /\ (y + 1) .. n \subseteq (x + 1) .. n
        /\ y \in (x + 1) .. n /\ y \notin (y + 1) .. n
        /\ (x + 1) .. n \subseteq 1 .. n
      BY <1>6
  <2>2. <<(y + 1) .. n, (x + 1) .. n>> \in StrictSubsetOrdering(1 .. n)
      BY <2>1, Zenon DEF StrictSubsetOrdering
  <2> QED
      BY <1>5, <2>2
<1> QED
    BY <1>6

--------------------------------------------------------------------------------
(***************************************************************************)
(* The heap.                                                               *)
(***************************************************************************)

(* A sequence cut in two.                                                  *)
LEMMA Cut ==
    ASSUME NEW s \in Seq(Pieces), NEW m \in 0 .. Len(s)
    PROVE  /\ SubSeq(s, 1, m) \in Seq(Pieces) /\ Len(SubSeq(s, 1, m)) = m
           /\ \A i \in 1 .. m : SubSeq(s, 1, m)[i] = s[i]
           /\ SubSeq(s, m + 1, Len(s)) \in Seq(Pieces)
           /\ Len(SubSeq(s, m + 1, Len(s))) = Len(s) - m
           /\ \A i \in 1 .. Len(s) - m : SubSeq(s, m + 1, Len(s))[i] = s[m + i]
<1>1. Len(s) \in Nat /\ \A i \in 1 .. Len(s) : s[i] \in Pieces
    BY LenProperties, ElementOfSeq
<1>2. /\ SubSeq(s, 1, m) \in Seq(Pieces) /\ Len(SubSeq(s, 1, m)) = m
      /\ \A i \in 1 .. m : SubSeq(s, 1, m)[i] = s[i]
    BY <1>1, SubSeqProperties
<1> DEFINE a == m + 1
           n == Len(s)
<1>3. a \in Int /\ n \in Int /\ \A i \in a .. n : s[i] \in Pieces
    BY <1>1
<1>4. n - a + 1 = n - m /\ (a <= n => n - a + 1 = n - m) /\ (~(a <= n) => n - m = 0)
    BY <1>1
<1>5. \A i \in 1 .. n - m : a + i - 1 = m + i
    BY <1>1
<1> HIDE DEF a, n
<1>6. /\ SubSeq(s, a, n) \in Seq(Pieces)
      /\ Len(SubSeq(s, a, n)) = IF a <= n THEN n - a + 1 ELSE 0
      /\ \A i \in 1 .. n - a + 1 : SubSeq(s, a, n)[i] = s[a + i - 1]
    BY <1>3, SubSeqProperties
<1>7. Len(SubSeq(s, a, n)) = n - m
    BY <1>4, <1>6
<1>8. \A i \in 1 .. n - m : SubSeq(s, a, n)[i] = s[m + i]
    BY <1>4, <1>5, <1>6
<1> QED
    BY <1>2, <1>6, <1>7, <1>8 DEF a, n

(* push leaves the other pieces in their order.                            *)
LEMMA PushPlaces ==
    ASSUME NEW heap \in Seq(Pieces), NEW p \in Pieces
    PROVE  /\ Push(heap, p) \in Seq(Pieces) /\ Len(Push(heap, p)) = Len(heap) + 1
           /\ \E m \in 0 .. Len(heap) : \A i \in 1 .. Len(heap) + 1 :
                  Push(heap, p)[i] = IF i <= m THEN heap[i]
                                     ELSE IF i = m + 1 THEN p ELSE heap[i - 1]
<1> DEFINE K == {i \in DOMAIN heap : Below(heap[i], p)}
           m == Cardinality(K)
           s == SubSeq(heap, 1, m)
           t == SubSeq(heap, m + 1, Len(heap))
<1>1. Len(heap) \in Nat /\ DOMAIN heap = 1 .. Len(heap)
    BY LenProperties
<1>2. m \in 0 .. Len(heap)
  <2>1. IsFiniteSet(1 .. Len(heap)) /\ Cardinality(1 .. Len(heap)) = Len(heap)
      BY <1>1, FS_Interval
  <2>2. IsFiniteSet(K) /\ Cardinality(K) <= Cardinality(1 .. Len(heap))
      BY <1>1, <2>1, FS_Subset, Zenon
  <2>3. Cardinality(K) \in Nat
      BY <2>2, FS_CardinalityType
  <2> QED
      BY <2>1, <2>2, <2>3
<1>3. Push(heap, p) = s \o <<p>> \o t
    BY DEF Push
<1> HIDE DEF K, m
<1>4. s \in Seq(Pieces) /\ Len(s) = m /\ \A i \in 1 .. m : s[i] = heap[i]
    BY <1>2, Cut
<1>5. /\ t \in Seq(Pieces) /\ Len(t) = Len(heap) - m
      /\ \A i \in 1 .. Len(heap) - m : t[i] = heap[m + i]
    BY <1>2, Cut
<1> HIDE DEF s, t
<1> DEFINE u == <<p>> \o t
<1>6. /\ u \in Seq(Pieces) /\ Len(u) = Len(t) + 1
      /\ u[1] = p /\ \A i \in 1 .. Len(t) : u[i + 1] = t[i]
    BY <1>5
<1> HIDE DEF u
<1>7. /\ s \o u \in Seq(Pieces) /\ Len(s \o u) = Len(s) + Len(u)
      /\ \A i \in 1 .. Len(s) + Len(u) :
             (s \o u)[i] = IF i <= Len(s) THEN s[i] ELSE u[i - Len(s)]
    BY <1>4, <1>6, ConcatProperties, Zenon
<1>8. s \o u = s \o <<p>> \o t
    BY <1>4, <1>5 DEF u
<1> DEFINE z == s \o u
<1>9. ASSUME NEW i \in 1 .. Len(heap) + 1
      PROVE  z[i] = IF i <= m THEN heap[i]
                    ELSE IF i = m + 1 THEN p ELSE heap[i - 1]
  <2> HIDE DEF z
  <2>1. CASE i <= m
      BY <1>1, <1>2, <1>4, <1>5, <1>6, <1>7, <2>1 DEF z
  <2>2. CASE i = m + 1
      BY <1>1, <1>2, <1>4, <1>5, <1>6, <1>7, <2>2 DEF z
  <2>3. CASE i > m + 1
    <3> DEFINE j == i - m - 1
    <3>1. j \in 1 .. Len(heap) - m /\ i - m = j + 1 /\ m + j = i - 1 /\ ~(i <= m) /\ i # m + 1
        BY <1>1, <1>2, <2>3
    <3>2. z[i] = u[i - m]
        BY <1>1, <1>2, <1>4, <1>5, <1>6, <1>7, <2>3 DEF z
    <3>3. u[j + 1] = t[j] /\ t[j] = heap[m + j]
        BY <1>5, <1>6, <3>1
    <3> QED
        BY <3>1, <3>2, <3>3
  <2> QED
      BY <1>1, <1>2, <2>1, <2>2, <2>3
<1>10. Push(heap, p) = z
    BY <1>3, <1>8
<1>11. z \in Seq(Pieces) /\ Len(z) = Len(heap) + 1
    BY <1>1, <1>2, <1>4, <1>5, <1>6, <1>7
<1> HIDE DEF z
<1> QED
    BY <1>2, <1>9, <1>10, <1>11

(* What is popped is the longest run of pieces that begins at readPos.     *)
LEMMA PoppedRun ==
    ASSUME NEW heap \in Seq(Pieces)
    PROVE  /\ Popped(heap) \in 0 .. Len(heap)
           /\ Popped(heap) >= 1 => Reached(heap, Popped(heap))
           /\ Popped(heap) < Len(heap) => ~Reached(heap, Popped(heap) + 1)
<1> DEFINE n == Len(heap)
           K == {k \in DOMAIN heap : Reached(heap, k)}
<1>1. n \in Nat /\ DOMAIN heap = 1 .. n
    BY LenProperties
<1>2. Popped(heap) = Cardinality(K)
    BY DEF Popped
<1>3. CASE K = {}
  <2>1. Popped(heap) = 0
      BY <1>2, <1>3, FS_EmptySet
  <2>2. n > 0 => ~Reached(heap, 1)
      BY <1>1, <1>3
  <2> QED
      BY <1>1, <2>1, <2>2
<1>4. CASE K # {}
  <2>1. K \in SUBSET (1 .. n)
      BY <1>1
  <2> HIDE DEF K
  <2>2. PICK x \in K : \A y \in K : y <= x
      BY <1>1, <1>4, <2>1, LastOne
  <2>3. x \in 1 .. n /\ Reached(heap, x)
      BY <1>1, <2>2 DEF K
  <2>4. \A y \in 1 .. n : y \in K <=> y <= x
    <3>1. ASSUME NEW y \in 1 .. n, y <= x
          PROVE  Reached(heap, y)
        BY <2>3, <3>1 DEF Reached
    <3> QED
        BY <1>1, <2>2, <3>1 DEF K
  <2>5. K = 1 .. x
    <3>1. ASSUME NEW y \in K
          PROVE  y \in 1 .. x
        BY <1>1, <2>1, <2>3, <2>4
    <3>2. ASSUME NEW y \in 1 .. x
          PROVE  y \in K
      <4>1. y \in 1 .. n /\ y <= x
          BY <1>1, <2>3
      <4> QED
          BY <2>4, <4>1
    <3> QED
        BY <3>1, <3>2, Zenon
  <2>6. Cardinality(1 .. x) = x
      BY <2>3, FS_Interval
  <2>7. x < n => ~Reached(heap, x + 1)
    <3>1. x + 1 \notin K
        BY <2>3, <2>5
    <3> QED
        BY <1>1, <2>3, <3>1 DEF K
  <2> QED
      BY <1>2, <2>3, <2>5, <2>6, <2>7
<1> QED
    BY <1>3, <1>4

(* The arithmetic of CleanOosPackets: when the read position moves forward *)
(* within the lent part, what lies behind it still fits.                   *)
LEMMA PopArithmetic ==
    ASSUME NEW N, NEW r, NEW w, NEW f, PlaceOK(N, r, w, f),
           NEW E \in Nat, r < E, E <= EndOf(N, r, w, f),
           NEW q, q = (IF E >= N THEN E - N ELSE E)
    PROVE  /\ PlaceOK(N, q, w, FALSE)
           /\ \A a \in Nat, s \in Nat :
                  /\ s >= 1 /\ a + s <= N /\ Ahead(a, N, r) >= E
                  /\ Ahead(a, N, r) + s <= EndOf(N, r, w, f)
                  => Ahead(a, N, q) + s <= EndOf(N, q, w, FALSE)
<1>1. N \in Nat /\ r \in Nat /\ w \in Nat /\ r < N /\ w < N /\ f \in BOOLEAN /\ (f => r = w)
    BY DEF PlaceOK, EndOf
<1>2. E <= r + N
  <2> DEFINE e == EndOf(N, r, w, f)
  <2>1. e \in Nat /\ e <= r + N /\ E <= e
      BY EndBound
  <2> QED
      BY <1>1, <2>1
<1>3. q \in Nat /\ q < N
    BY <1>1, <1>2
<1>4. PlaceOK(N, q, w, FALSE)
    BY <1>1, <1>3 DEF PlaceOK
<1>5. CASE E >= N
  <2>1. EndOf(N, r, w, f) = w + N /\ w <= r /\ q = E - N /\ q <= w
      BY <1>1, <1>5 DEF EndOf
  <2>2. EndOf(N, q, w, FALSE) = w
      BY <1>1, <1>3, <2>1 DEF EndOf
  <2>3. ASSUME NEW a \in Nat, NEW s \in Nat, s >= 1, a + s <= N, Ahead(a, N, r) >= E,
               Ahead(a, N, r) + s <= w + N
        PROVE  Ahead(a, N, q) + s <= w
      BY <1>1, <1>5, <2>1, <2>3 DEF Ahead
  <2> QED
      BY <1>4, <2>1, <2>2, <2>3
<1>6. CASE E < N /\ EndOf(N, r, w, f) = w
  <2>1. q = E /\ q <= w
      BY <1>1, <1>6
  <2>2. EndOf(N, q, w, FALSE) = w
      BY <1>1, <1>3, <2>1 DEF EndOf
  <2>3. ASSUME NEW a \in Nat, NEW s \in Nat, s >= 1, a + s <= N, Ahead(a, N, r) >= E,
               Ahead(a, N, r) + s <= w
        PROVE  Ahead(a, N, q) + s <= w
      BY <1>1, <2>1, <2>3 DEF Ahead
  <2> QED
      BY <1>4, <1>6, <2>2, <2>3
<1>7. CASE E < N /\ EndOf(N, r, w, f) # w
  <2>1. EndOf(N, r, w, f) = w + N /\ w <= r /\ q = E
      BY <1>1, <1>7 DEF EndOf
  <2>2. EndOf(N, q, w, FALSE) = w + N
      BY <1>1, <1>3, <2>1 DEF EndOf
  <2>3. ASSUME NEW a \in Nat, NEW s \in Nat, s >= 1, a + s <= N, Ahead(a, N, r) >= E,
               Ahead(a, N, r) + s <= w + N
        PROVE  Ahead(a, N, q) + s <= w + N
      BY <1>1, <2>1, <2>3 DEF Ahead
  <2> QED
      BY <1>4, <2>1, <2>2, <2>3
<1>8. E >= N \/ E < N
    BY <1>1
<1> QED
    BY <1>5, <1>6, <1>7, <1>8, Zenon

(* A run of pieces of the heap from the read position on.                  *)
Run(heap, r, k) ==
    /\ heap[1].pos = r
    /\ \A i \in 1 .. k - 1 : heap[i + 1].pos = heap[i].pos + heap[i].size

(* A piece that ends where the run is, or begins it, is where its address  *)
(* says, counted forward from the read position.                           *)
LEMMA RunStep ==
    ASSUME NEW N, NEW r, NEW w, NEW f, PlaceOK(N, r, w, f),
           NEW p \in Pieces, NEW q \in Pieces,
           Fits(p, N, r, EndOf(N, r, w, f)), Fits(q, N, r, EndOf(N, r, w, f)),
           p.pos = r, q = p \/ Apart(p, q, N),
           r <= q.pos, q.pos <= EndOf(N, r, w, f)
    PROVE  Ahead(At(q, N), N, r) = q.pos /\ q.pos + q.size <= EndOf(N, r, w, f)
<1> DEFINE e == EndOf(N, r, w, f)
<1>1. N \in Nat /\ r \in Nat /\ w \in Nat /\ (r < N \/ (N = 0 /\ r = 0))
    BY DEF PlaceOK
<1>2. e \in Nat /\ e <= r + N
    BY EndBound
<1>3. p.pos \in Nat /\ p.size \in Nat /\ q.pos \in Nat /\ q.size \in Nat
    BY AtType, <1>1
<1> HIDE DEF e
<1>4. p.size >= 1 /\ At(p, N) + p.size <= N
    BY DEF Fits
<1>5. r < N
    BY <1>1, <1>3, <1>4 DEF At
<1>6. At(p, N) = r
    BY <1>1, <1>3, <1>5 DEF At
<1>7. q.size >= 1 /\ At(q, N) + q.size <= N /\ Ahead(At(q, N), N, r) + q.size <= e
    BY DEF Fits, e
<1>8. r <= q.pos /\ q.pos <= e
    BY DEF e
<1>9. CASE q.pos < N
  <2>1. At(q, N) = q.pos
      BY <1>1, <1>3, <1>9 DEF At
  <2>2. Ahead(q.pos, N, r) = q.pos
      BY <1>8 DEF Ahead
  <2> QED
      BY <1>7, <2>1, <2>2 DEF e
<1>10. CASE q.pos >= N
  <2>1. At(q, N) = q.pos - N
      BY <1>1, <1>3, <1>10 DEF At
  <2>2. q.pos - N <= r
      BY <1>1, <1>2, <1>3, <1>8
  <2>3. q.pos - N # r
    <3> SUFFICES ASSUME q.pos - N = r
                 PROVE  FALSE
        OBVIOUS
    <3>1. q = p
        BY <1>1, <1>3, <1>4, <1>6, <1>7, <2>1 DEF Apart
    <3> QED
        BY <1>1, <1>3, <1>5, <1>10, <3>1
  <2>4. Ahead(q.pos - N, N, r) = q.pos
      BY <1>1, <1>3, <2>2, <2>3 DEF Ahead
  <2> QED
      BY <1>7, <2>1, <2>4 DEF e
<1> QED
    BY <1>1, <1>3, <1>9, <1>10

(* All pieces of the run are there, and it ends within the lent part.      *)
LEMMA RunPlaces ==
    ASSUME NEW N, NEW r, NEW w, NEW f, PlaceOK(N, r, w, f),
           NEW heap \in Seq(Pieces), NEW k \in 1 .. Len(heap), Run(heap, r, k),
           AllFit(heap, N, r, EndOf(N, r, w, f)), AllApart(heap, N)
    PROVE  \A i \in 1 .. k : /\ Ahead(At(heap[i], N), N, r) = heap[i].pos
                             /\ r <= heap[i].pos
                             /\ heap[i].pos + heap[i].size <= EndOf(N, r, w, f)
<1> DEFINE e == EndOf(N, r, w, f)
           P(i) == /\ Ahead(At(heap[i], N), N, r) = heap[i].pos
                   /\ r <= heap[i].pos
                   /\ heap[i].pos + heap[i].size <= e
           T == {i \in 1 .. k : \A j \in 1 .. i : P(j)}
<1>1. N \in Nat /\ r \in Nat
    BY DEF PlaceOK
<1>2. Len(heap) \in Nat /\ DOMAIN heap = 1 .. Len(heap) /\ \A i \in 1 .. Len(heap) : heap[i] \in Pieces
    BY LenProperties, ElementOfSeq
<1>3. \A i \in 1 .. Len(heap) : heap[i].pos \in Nat /\ heap[i].size \in Nat
    BY <1>1, <1>2, AtType
<1>4. e \in Nat /\ r <= e
    BY EndBound
<1>5. ASSUME NEW i \in 1 .. k, r <= heap[i].pos, heap[i].pos <= e
      PROVE  P(i)
  <2>1. i \in DOMAIN heap /\ 1 \in DOMAIN heap /\ heap[1] \in Pieces /\ heap[i] \in Pieces
      BY <1>2
  <2>2. Fits(heap[1], N, r, e) /\ Fits(heap[i], N, r, e)
      BY <2>1 DEF AllFit
  <2>3. heap[i] = heap[1] \/ Apart(heap[1], heap[i], N)
      BY <2>1 DEF AllApart
  <2>4. heap[1].pos = r
      BY DEF Run
  <2> QED
      BY <1>5, <2>1, <2>2, <2>3, <2>4, RunStep
<1> HIDE DEF e, P
<1>6. P(1)
    BY <1>1, <1>2, <1>3, <1>4, <1>5 DEF Run
<1>7. 1 \in T
  <2>1. \A j \in 1 .. 1 : j = 1
      OBVIOUS
  <2>2. 1 \in 1 .. k
      BY <1>2
  <2> QED
      BY <1>6, <2>1, <2>2, Zenon
<1>8. k \in Nat /\ T \in SUBSET (1 .. k)
    BY <1>2
<1>9. PICK x \in T : \A y \in T : y <= x
  <2> HIDE DEF T
  <2> QED
      BY <1>7, <1>8, LastOne
<1>10. x \in 1 .. k /\ \A j \in 1 .. x : P(j)
    OBVIOUS
<1>11. x = k
  <2> SUFFICES ASSUME x # k
               PROVE  FALSE
      OBVIOUS
  <2>1. x \in 1 .. k - 1 /\ x + 1 \in 1 .. k
      BY <1>2, <1>10
  <2>2. heap[x + 1].pos = heap[x].pos + heap[x].size
      BY <2>1 DEF Run
  <2>3. r <= heap[x].pos /\ heap[x].pos + heap[x].size <= e
      BY <1>10 DEF P
  <2>4. r <= heap[x + 1].pos /\ heap[x + 1].pos <= e
      BY <1>1, <1>2, <1>3, <1>4, <1>10, <2>1, <2>2, <2>3
  <2>5. P(x + 1)
      BY <1>5, <2>1, <2>4
  <2>6. \A j \in 1 .. x + 1 : j \in 1 .. x \/ j = x + 1
      BY <1>10
  <2>7. x + 1 \in T
      BY <1>10, <2>1, <2>5, <2>6, Zenon
  <2>8. x + 1 <= x
      BY <1>9, <2>7
  <2> QED
      BY <1>10, <2>8
<1> QED
    BY <1>10, <1>11 DEF P, e

(* A piece that is not of the run lies behind it.                          *)
LEMMA BehindRun ==
    ASSUME NEW N, NEW r, NEW w, NEW f, PlaceOK(N, r, w, f),
           NEW heap \in Seq(Pieces), NEW k \in 1 .. Len(heap), Run(heap, r, k),
           AllFit(heap, N, r, EndOf(N, r, w, f)), AllApart(heap, N),
           NEW q \in Pieces, Fits(q, N, r, EndOf(N, r, w, f)),
           \A i \in 1 .. k : Apart(heap[i], q, N)
    PROVE  heap[k].pos + heap[k].size <= Ahead(At(q, N), N, r)
<1> DEFINE e == EndOf(N, r, w, f)
           a == At(q, N)
           b == Ahead(a, N, r)
           U == {i \in 1 .. k : heap[i].pos <= b}
<1>1. N \in Nat /\ r \in Nat /\ (r < N \/ (N = 0 /\ r = 0))
    BY DEF PlaceOK
<1>2. Len(heap) \in Nat /\ DOMAIN heap = 1 .. Len(heap) /\ \A i \in 1 .. Len(heap) : heap[i] \in Pieces
    BY LenProperties, ElementOfSeq
<1>3. \A i \in 1 .. Len(heap) : heap[i].pos \in Nat /\ heap[i].size \in Nat /\ At(heap[i], N) \in Nat
    BY <1>1, <1>2, AtType
<1>4. q.pos \in Nat /\ q.size \in Nat /\ a \in Nat /\ b \in Nat
    BY <1>1, AtType
<1>5. q.size >= 1 /\ a + q.size <= N /\ b + q.size <= e
    BY DEF Fits
<1>6. b = IF a >= r THEN a ELSE a + N
    BY DEF Ahead
<1> HIDE DEF a, b, e
<1>7. r <= b
    BY <1>1, <1>4, <1>5, <1>6
<1>8. SUFFICES ASSUME ~(heap[k].pos + heap[k].size <= b)
               PROVE  FALSE
    BY DEF a, b
<1>9. 1 \in U /\ k \in Nat /\ U \in SUBSET (1 .. k)
    BY <1>2, <1>7 DEF Run
<1>10. PICK x \in U : \A y \in U : y <= x
  <2> HIDE DEF U
  <2> QED
      BY <1>9, LastOne
<1>11. x \in 1 .. k /\ heap[x].pos <= b
    OBVIOUS
<1>12. b < heap[x].pos + heap[x].size
  <2>1. CASE x = k
      BY <1>2, <1>3, <1>4, <1>8, <2>1
  <2>2. CASE x # k
    <3>1. x \in 1 .. k - 1 /\ x + 1 \in 1 .. k /\ ~(x + 1 <= x)
        BY <1>2, <1>11, <2>2
    <3>2. x + 1 \notin U
        BY <1>10, <3>1
    <3>3. ~(heap[x + 1].pos <= b)
        BY <3>1, <3>2
    <3>4. heap[x + 1].pos = heap[x].pos + heap[x].size
        BY <3>1 DEF Run
    <3> QED
        BY <1>2, <1>3, <1>4, <1>11, <3>1, <3>3, <3>4
  <2> QED
      BY <2>1, <2>2
<1> DEFINE c == At(heap[x], N)
           s == heap[x].size
<1>13. Ahead(c, N, r) = heap[x].pos
    BY <1>11, RunPlaces
<1>14. x \in DOMAIN heap /\ Apart(heap[x], q, N) /\ Fits(heap[x], N, r, e)
    BY <1>2, <1>11 DEF AllFit, e
<1>15. s >= 1 /\ c + s <= N /\ (c + s <= a \/ a + q.size <= c)
    BY <1>14 DEF Fits, Apart, a
<1>16. heap[x].pos = IF c >= r THEN c ELSE c + N
    BY <1>13 DEF Ahead
<1>17. c \in Nat /\ s \in Nat /\ heap[x].pos \in Nat
    BY <1>2, <1>3, <1>11
<1>18. b < heap[x].pos + s /\ heap[x].pos <= b
    BY <1>11, <1>12
<1> HIDE DEF c, s
<1> QED
    BY <1>1, <1>4, <1>5, <1>6, <1>15, <1>16, <1>17, <1>18

--------------------------------------------------------------------------------
(***************************************************************************)
(* What the parts of Write and Read do to the ring.                        *)
(***************************************************************************)

(* Two pieces that do not meet do not meet the other way round either.     *)
LEMMA ApartBoth ==
    ASSUME NEW p, NEW q, NEW N, Apart(p, q, N)
    PROVE  Apart(q, p, N)
BY DEF Apart

(* CleanOosPackets: the pieces of the run leave the heap and the read      *)
(* position moves behind them.                                             *)
LEMMA PopRing ==
    ASSUME NEW N, NEW r, NEW w, NEW f, NEW heap, NEW lent, RingOK(N, r, w, f, heap, lent),
           NEW k \in 1 .. Len(heap), Run(heap, r, k),
           NEW E, E = heap[k].pos + heap[k].size,
           NEW q, q = (IF E >= N THEN E - N ELSE E)
    PROVE  RingOK(N, q, w, FALSE, SubSeq(heap, k + 1, Len(heap)), lent)
<1> DEFINE e == EndOf(N, r, w, f)
           d == EndOf(N, q, w, FALSE)
           t == SubSeq(heap, k + 1, Len(heap))
<1>1. /\ PlaceOK(N, r, w, f) /\ heap \in Seq(Pieces) /\ lent \in Seq(Pieces)
      /\ AllFit(heap, N, r, e) /\ AllFit(lent, N, r, e)
      /\ AllApart(heap, N) /\ AllApart(lent, N) /\ NoneMeet(heap, lent, N) /\ InBuffer(lent, N)
    BY DEF RingOK
<1>2. N \in Nat /\ r \in Nat
    BY <1>1 DEF PlaceOK
<1>3. /\ Len(heap) \in Nat /\ DOMAIN heap = 1 .. Len(heap)
      /\ \A i \in 1 .. Len(heap) : heap[i] \in Pieces
    BY <1>1, LenProperties, ElementOfSeq
<1>4. DOMAIN lent = 1 .. Len(lent) /\ \A i \in DOMAIN lent : lent[i] \in Pieces
    BY <1>1, LenProperties, ElementOfSeq
<1>5. t \in Seq(Pieces) /\ Len(t) = Len(heap) - k /\ \A i \in 1 .. Len(heap) - k : t[i] = heap[k + i]
  <2>1. k \in 0 .. Len(heap)
      BY <1>3
  <2> QED
      BY <1>1, <2>1, Cut
<1>6. DOMAIN t = 1 .. Len(heap) - k
    BY <1>5, LenProperties
<1>7. r <= heap[k].pos /\ E <= e
  <2>1. k \in 1 .. k
      BY <1>3
  <2> QED
      BY <1>1, <2>1, RunPlaces
<1>8. heap[k] \in Pieces /\ heap[k].pos \in Nat /\ heap[k].size \in Nat /\ heap[k].size >= 1
  <2>1. Fits(heap[k], N, r, e)
      BY <1>1, <1>3 DEF AllFit
  <2> QED
      BY <1>2, <1>3, <2>1, AtType DEF Fits
<1>9. E \in Nat /\ r < E
    BY <1>2, <1>7, <1>8
<1>10. /\ PlaceOK(N, q, w, FALSE)
       /\ \A a \in Nat, s \in Nat :
              s >= 1 /\ a + s <= N /\ Ahead(a, N, r) >= E /\ Ahead(a, N, r) + s <= e
              => Ahead(a, N, q) + s <= d
    BY <1>1, <1>7, <1>9, PopArithmetic
<1> HIDE DEF e, d, t
<1>11. ASSUME NEW p \in Pieces, Fits(p, N, r, e), \A i \in 1 .. k : Apart(heap[i], p, N)
       PROVE  Fits(p, N, q, d)
  <2> DEFINE a == At(p, N)
             s == p.size
  <2>1. a \in Nat /\ s \in Nat /\ Ahead(a, N, r) \in Nat
      BY <1>2, AtType
  <2>2. s >= 1 /\ a + s <= N /\ Ahead(a, N, r) + s <= e
      BY <1>11 DEF Fits
  <2>3. E <= Ahead(a, N, r)
      BY <1>1, <1>11, BehindRun DEF e
  <2> HIDE DEF a, s
  <2>4. Ahead(a, N, q) + s <= d
      BY <1>9, <1>10, <2>1, <2>2, <2>3
  <2> QED
      BY <2>2, <2>4 DEF Fits, a, s
<1>12. AllFit(t, N, q, d)
  <2> SUFFICES ASSUME NEW j \in DOMAIN t
               PROVE  Fits(t[j], N, q, d)
      BY DEF AllFit
  <2> DEFINE z == k + j
  <2>1. z \in 1 .. Len(heap) /\ t[j] = heap[z] /\ \A i \in 1 .. k : i \in 1 .. Len(heap) /\ i # z
      BY <1>3, <1>5, <1>6
  <2> HIDE DEF z
  <2>2. heap[z] \in Pieces /\ Fits(heap[z], N, r, e) /\ \A i \in 1 .. k : Apart(heap[i], heap[z], N)
      BY <1>1, <1>3, <2>1 DEF AllFit, AllApart
  <2> QED
      BY <1>11, <2>1, <2>2
<1>13. AllFit(lent, N, q, d)
  <2> SUFFICES ASSUME NEW j \in DOMAIN lent
               PROVE  Fits(lent[j], N, q, d)
      BY DEF AllFit
  <2>1. \A i \in 1 .. k : i \in DOMAIN heap
      BY <1>3
  <2>2. lent[j] \in Pieces /\ Fits(lent[j], N, r, e) /\ \A i \in 1 .. k : Apart(heap[i], lent[j], N)
      BY <1>1, <1>4, <2>1 DEF AllFit, NoneMeet
  <2> QED
      BY <1>11, <2>2
<1>14. AllApart(t, N)
  <2> SUFFICES ASSUME NEW i \in DOMAIN t, NEW j \in DOMAIN t, i # j
               PROVE  Apart(t[i], t[j], N)
      BY DEF AllApart
  <2>1. k + i \in DOMAIN heap /\ k + j \in DOMAIN heap /\ k + i # k + j
      BY <1>3, <1>6
  <2>2. t[i] = heap[k + i] /\ t[j] = heap[k + j]
      BY <1>5, <1>6
  <2> QED
      BY <1>1, <2>1, <2>2 DEF AllApart
<1>15. NoneMeet(t, lent, N)
  <2> SUFFICES ASSUME NEW i \in DOMAIN t, NEW j \in DOMAIN lent
               PROVE  Apart(t[i], lent[j], N)
      BY DEF NoneMeet
  <2>1. k + i \in DOMAIN heap /\ t[i] = heap[k + i]
      BY <1>3, <1>5, <1>6
  <2> QED
      BY <1>1, <2>1 DEF NoneMeet
<1> QED
    BY <1>1, <1>5, <1>10, <1>12, <1>13, <1>14, <1>15 DEF RingOK, t, d

(* A free piece within the lent part is pushed into the heap.              *)
LEMMA PushRing ==
    ASSUME NEW N, NEW r, NEW w, NEW f, NEW heap, NEW lent, RingOK(N, r, w, f, heap, lent),
           NEW p \in Pieces, Fits(p, N, r, EndOf(N, r, w, f)),
           \A i \in DOMAIN heap : Apart(p, heap[i], N),
           \A i \in DOMAIN lent : Apart(p, lent[i], N)
    PROVE  RingOK(N, r, w, f, Push(heap, p), lent)
<1> DEFINE e == EndOf(N, r, w, f)
           t == Push(heap, p)
<1>1. /\ PlaceOK(N, r, w, f) /\ heap \in Seq(Pieces) /\ lent \in Seq(Pieces)
      /\ AllFit(heap, N, r, e) /\ AllFit(lent, N, r, e)
      /\ AllApart(heap, N) /\ AllApart(lent, N) /\ NoneMeet(heap, lent, N) /\ InBuffer(lent, N)
    BY DEF RingOK
<1>2. Len(heap) \in Nat /\ DOMAIN heap = 1 .. Len(heap)
    BY <1>1, LenProperties
<1>3. /\ t \in Seq(Pieces) /\ Len(t) = Len(heap) + 1
      /\ \E m \in 0 .. Len(heap) : \A i \in 1 .. Len(heap) + 1 :
                  t[i] = IF i <= m THEN heap[i] ELSE IF i = m + 1 THEN p ELSE heap[i - 1]
    BY <1>1, PushPlaces
<1> HIDE DEF t, e
<1>4. PICK m \in 0 .. Len(heap) : \A i \in 1 .. Len(heap) + 1 :
                  t[i] = IF i <= m THEN heap[i] ELSE IF i = m + 1 THEN p ELSE heap[i - 1]
    BY <1>3
<1>5. DOMAIN t = 1 .. Len(heap) + 1
    BY <1>3, LenProperties
<1> DEFINE o(i) == IF i <= m THEN i ELSE i - 1
<1>6. ASSUME NEW i \in DOMAIN t
      PROVE  (i = m + 1 /\ t[i] = p) \/ (i # m + 1 /\ o(i) \in DOMAIN heap /\ t[i] = heap[o(i)])
    BY <1>2, <1>4, <1>5
<1>7. ASSUME NEW i \in DOMAIN t, NEW j \in DOMAIN t, i # j, i # m + 1, j # m + 1
      PROVE  o(i) # o(j)
    BY <1>2, <1>5, <1>7
<1> HIDE DEF o
<1>8. AllFit(t, N, r, e)
  <2> SUFFICES ASSUME NEW i \in DOMAIN t
               PROVE  Fits(t[i], N, r, e)
      BY DEF AllFit
  <2>1. Fits(p, N, r, e)
      BY DEF e
  <2> QED
      BY <1>1, <1>6, <2>1 DEF AllFit
<1>9. AllApart(t, N)
  <2> SUFFICES ASSUME NEW i \in DOMAIN t, NEW j \in DOMAIN t, i # j
               PROVE  Apart(t[i], t[j], N)
      BY DEF AllApart
  <2>1. CASE i = m + 1
      BY <1>6, <2>1
  <2>2. CASE j = m + 1
    <3>1. t[j] = p /\ o(i) \in DOMAIN heap /\ t[i] = heap[o(i)]
        BY <1>6, <2>2
    <3> QED
        BY <3>1, ApartBoth
  <2>3. CASE i # m + 1 /\ j # m + 1
      BY <1>1, <1>6, <1>7, <2>3 DEF AllApart
  <2> QED
      BY <2>1, <2>2, <2>3
<1>10. NoneMeet(t, lent, N)
  <2> SUFFICES ASSUME NEW i \in DOMAIN t, NEW j \in DOMAIN lent
               PROVE  Apart(t[i], lent[j], N)
      BY DEF NoneMeet
  <2> QED
      BY <1>1, <1>6 DEF NoneMeet
<1> QED
    BY <1>1, <1>3, <1>8, <1>9, <1>10 DEF RingOK, t, e

(* A packet is destroyed: its piece is lent no more and meets none.        *)
LEMMA RemoveRing ==
    ASSUME NEW N, NEW r, NEW w, NEW f, NEW heap, NEW lent, RingOK(N, r, w, f, heap, lent),
           NEW k \in DOMAIN lent
    PROVE  LET t == SubSeq(lent, 1, k - 1) \o SubSeq(lent, k + 1, Len(lent))
           IN  /\ RingOK(N, r, w, f, heap, t)
               /\ lent[k] \in Pieces /\ Fits(lent[k], N, r, EndOf(N, r, w, f)) /\ lent[k].pos < N
               /\ \A i \in DOMAIN heap : Apart(lent[k], heap[i], N)
               /\ \A i \in DOMAIN t : Apart(lent[k], t[i], N)
<1> DEFINE e == EndOf(N, r, w, f)
           u == SubSeq(lent, 1, k - 1)
           v == SubSeq(lent, k + 1, Len(lent))
           t == u \o v
<1>1. /\ PlaceOK(N, r, w, f) /\ heap \in Seq(Pieces) /\ lent \in Seq(Pieces)
      /\ AllFit(heap, N, r, e) /\ AllFit(lent, N, r, e)
      /\ AllApart(heap, N) /\ AllApart(lent, N) /\ NoneMeet(heap, lent, N) /\ InBuffer(lent, N)
    BY DEF RingOK
<1>2. Len(lent) \in Nat /\ DOMAIN lent = 1 .. Len(lent) /\ \A i \in DOMAIN lent : lent[i] \in Pieces
    BY <1>1, LenProperties, ElementOfSeq
<1>3. u \in Seq(Pieces) /\ Len(u) = k - 1 /\ \A i \in 1 .. k - 1 : u[i] = lent[i]
  <2>1. k - 1 \in 0 .. Len(lent)
      BY <1>2
  <2> QED
      BY <1>1, <2>1, Cut
<1>4. v \in Seq(Pieces) /\ Len(v) = Len(lent) - k /\ \A i \in 1 .. Len(lent) - k : v[i] = lent[k + i]
  <2>1. k \in 0 .. Len(lent)
      BY <1>2
  <2> QED
      BY <1>1, <2>1, Cut
<1> HIDE DEF u, v
<1>5. /\ t \in Seq(Pieces) /\ Len(t) = Len(u) + Len(v)
      /\ \A i \in 1 .. Len(u) + Len(v) : t[i] = IF i <= Len(u) THEN u[i] ELSE v[i - Len(u)]
    BY <1>3, <1>4, ConcatProperties, Zenon
<1>6. DOMAIN t = 1 .. Len(t)
    BY <1>5, LenProperties
<1> DEFINE o(i) == IF i < k THEN i ELSE i + 1
<1> HIDE DEF t
<1>7. ASSUME NEW i \in DOMAIN t
      PROVE  o(i) \in DOMAIN lent /\ o(i) # k /\ t[i] = lent[o(i)]
  <2>1. CASE i < k
      BY <1>2, <1>3, <1>4, <1>5, <1>6, <2>1
  <2>2. CASE ~(i < k)
    <3> DEFINE j == i - (k - 1)
    <3>1. j \in 1 .. Len(lent) - k /\ k + j = i + 1 /\ i \in 1 .. Len(u) + Len(v) /\ ~(i <= Len(u))
        BY SMTT(40), <1>2, <1>3, <1>4, <1>5, <1>6, <2>2
    <3>2. t[i] = v[j]
        BY <1>3, <1>5, <3>1
    <3>3. v[j] = lent[k + j]
        BY <1>4, <3>1
    <3>4. o(i) = i + 1 /\ o(i) \in DOMAIN lent /\ o(i) # k
        BY <1>2, <2>2, <3>1
    <3> QED
        BY <3>1, <3>2, <3>3, <3>4
  <2> QED
      BY <2>1, <2>2
<1>8. ASSUME NEW i \in DOMAIN t, NEW j \in DOMAIN t, i # j
      PROVE  o(i) # o(j)
    BY <1>2, <1>5, <1>6, <1>8
<1> HIDE DEF o, e
<1>9. AllFit(t, N, r, e) /\ AllApart(t, N) /\ NoneMeet(heap, t, N) /\ InBuffer(t, N)
  <2>1. AllFit(t, N, r, e)
      BY <1>1, <1>7 DEF AllFit
  <2>2. AllApart(t, N)
      BY <1>1, <1>7, <1>8 DEF AllApart
  <2>3. NoneMeet(heap, t, N)
      BY <1>1, <1>7 DEF NoneMeet
  <2>4. InBuffer(t, N)
      BY <1>1, <1>7 DEF InBuffer
  <2> QED
      BY <2>1, <2>2, <2>3, <2>4
<1>10. RingOK(N, r, w, f, heap, t)
    BY <1>1, <1>5, <1>9 DEF RingOK, e
<1>11. lent[k] \in Pieces /\ Fits(lent[k], N, r, e) /\ lent[k].pos < N
    BY <1>1, <1>2 DEF AllFit, InBuffer
<1>12. \A i \in DOMAIN heap : Apart(lent[k], heap[i], N)
  <2>1. \A i \in DOMAIN heap : Apart(heap[i], lent[k], N)
      BY <1>1 DEF NoneMeet
  <2> QED
      BY <2>1, ApartBoth
<1>13. \A i \in DOMAIN t : Apart(lent[k], t[i], N)
    BY <1>1, <1>7 DEF AllApart
<1> QED
    BY <1>10, <1>11, <1>12, <1>13 DEF t, u, v, e

(* The end of the lent part moves behind n more bytes; no piece lies there. *)
LEMMA GrowRing ==
    ASSUME NEW N, NEW r, NEW w, NEW f, NEW heap, NEW lent, RingOK(N, r, w, f, heap, lent),
           NEW n \in Nat, n >= 1, ~(f /\ w = r),
           n <= (IF w < r THEN r - w ELSE N - w),
           NEW v, v = (IF w + n = N THEN 0 ELSE w + n),
           NEW g, g = (f \/ v = r)
    PROVE  /\ RingOK(N, r, v, g, heap, lent)
           /\ Piece(w, n) \in Pieces /\ Piece(w, n).pos < N
           /\ Fits(Piece(w, n), N, r, EndOf(N, r, v, g))
           /\ \A i \in DOMAIN heap : Apart(Piece(w, n), heap[i], N)
           /\ \A i \in DOMAIN lent : Apart(Piece(w, n), lent[i], N)
<1> DEFINE e == EndOf(N, r, w, f)
           d == EndOf(N, r, v, g)
           P == Piece(w, n)
<1>1. /\ PlaceOK(N, r, w, f) /\ heap \in Seq(Pieces) /\ lent \in Seq(Pieces)
      /\ AllFit(heap, N, r, e) /\ AllFit(lent, N, r, e)
      /\ AllApart(heap, N) /\ AllApart(lent, N) /\ NoneMeet(heap, lent, N) /\ InBuffer(lent, N)
    BY DEF RingOK
<1>2. /\ \A i \in DOMAIN heap : heap[i] \in Pieces
      /\ \A i \in DOMAIN lent : lent[i] \in Pieces
    BY <1>1, LenProperties, ElementOfSeq
<1>3. /\ PlaceOK(N, r, v, g) /\ P \in Pieces /\ P.pos < N /\ Fits(P, N, r, d)
      /\ \A q \in Pieces : Fits(q, N, r, e) => Fits(q, N, r, d) /\ Apart(q, P, N) /\ Apart(P, q, N)
    BY <1>1, Lend
<1> HIDE DEF e, d, P
<1>4. AllFit(heap, N, r, d) /\ \A i \in DOMAIN heap : Apart(P, heap[i], N)
    BY <1>1, <1>2, <1>3 DEF AllFit
<1>5. AllFit(lent, N, r, d) /\ \A i \in DOMAIN lent : Apart(P, lent[i], N)
    BY <1>1, <1>2, <1>3 DEF AllFit
<1>6. RingOK(N, r, v, g, heap, lent)
    BY <1>1, <1>3, <1>4, <1>5 DEF RingOK, d
<1> QED
    BY <1>3, <1>4, <1>5, <1>6 DEF P, d

(* Write with enough room: the piece at the write position is lent.        *)
LEMMA LendRing ==
    ASSUME NEW N, NEW r, NEW w, NEW f, NEW heap, NEW lent, RingOK(N, r, w, f, heap, lent),
           NEW n \in Nat, n >= 1, ~(f /\ w = r),
           n <= (IF w < r THEN r - w ELSE N - w),
           NEW v, v = (IF w + n = N THEN 0 ELSE w + n),
           NEW g, g = (f \/ v = r)
    PROVE  RingOK(N, r, v, g, heap, Append(lent, Piece(w, n)))
<1> DEFINE d == EndOf(N, r, v, g)
           P == Piece(w, n)
           t == Append(lent, P)
<1>1. /\ RingOK(N, r, v, g, heap, lent) /\ P \in Pieces /\ P.pos < N /\ Fits(P, N, r, d)
      /\ \A i \in DOMAIN heap : Apart(P, heap[i], N)
      /\ \A i \in DOMAIN lent : Apart(P, lent[i], N)
    BY GrowRing
<1>2. /\ PlaceOK(N, r, v, g) /\ heap \in Seq(Pieces) /\ lent \in Seq(Pieces)
      /\ AllFit(heap, N, r, d) /\ AllFit(lent, N, r, d)
      /\ AllApart(heap, N) /\ AllApart(lent, N) /\ NoneMeet(heap, lent, N) /\ InBuffer(lent, N)
    BY <1>1 DEF RingOK
<1>3. Len(lent) \in Nat /\ DOMAIN lent = 1 .. Len(lent)
    BY <1>2, LenProperties
<1> HIDE DEF P, d
<1>4. /\ t \in Seq(Pieces) /\ Len(t) = Len(lent) + 1 /\ t[Len(lent) + 1] = P
      /\ \A i \in 1 .. Len(lent) : t[i] = lent[i]
    BY <1>1, <1>2
<1>5. DOMAIN t = 1 .. Len(lent) + 1
    BY <1>4, LenProperties
<1> HIDE DEF t
<1>6. ASSUME NEW i \in DOMAIN t
      PROVE  \/ t[i] = P /\ i = Len(lent) + 1
             \/ t[i] = lent[i] /\ i \in DOMAIN lent
  <2>1. i = Len(lent) + 1 \/ i \in DOMAIN lent
      BY <1>3, <1>5
  <2> QED
      BY <1>3, <1>4, <2>1
<1>7. AllFit(t, N, r, d)
    BY <1>1, <1>2, <1>6 DEF AllFit
<1>8. AllApart(t, N)
  <2> SUFFICES ASSUME NEW i \in DOMAIN t, NEW j \in DOMAIN t, i # j
               PROVE  Apart(t[i], t[j], N)
      BY DEF AllApart
  <2>1. CASE i = Len(lent) + 1
      BY <1>1, <1>3, <1>6, <2>1
  <2>2. CASE j = Len(lent) + 1
    <3>1. t[j] = P /\ i \in DOMAIN lent /\ t[i] = lent[i]
        BY <1>3, <1>4, <1>6, <2>2
    <3> QED
        BY <1>1, <3>1, ApartBoth
  <2>3. CASE i # Len(lent) + 1 /\ j # Len(lent) + 1
      BY <1>2, <1>6, <2>3 DEF AllApart
  <2> QED
      BY <2>1, <2>2, <2>3
<1>9. NoneMeet(heap, t, N)
  <2> SUFFICES ASSUME NEW i \in DOMAIN heap, NEW j \in DOMAIN t
               PROVE  Apart(heap[i], t[j], N)
      BY DEF NoneMeet
  <2>1. Apart(heap[i], P, N)
      BY <1>1, ApartBoth
  <2> QED
      BY <1>2, <1>6, <2>1 DEF NoneMeet
<1>10. InBuffer(t, N)
    BY <1>1, <1>2, <1>6 DEF InBuffer
<1> QED
    BY <1>2, <1>4, <1>7, <1>8, <1>9, <1>10 DEF RingOK, t, P, d

(* CleanOosPackets keeps the ring; where the lent part ends with the       *)
(* buffer, the read position moves on or to the beginning.                 *)
LEMMA CleanRing ==
    ASSUME NEW w, NEW f, NEW heap, NEW lent, RingOK(sizeInBytes, readPos, w, f, heap, lent)
    PROVE  LET c == CleanOosPackets(heap, f)
           IN  /\ RingOK(sizeInBytes, c.readPos, w, c.full, c.heap, lent)
               /\ EndOf(sizeInBytes, readPos, w, f) <= sizeInBytes =>
                      c.readPos = 0 \/ readPos <= c.readPos
               /\ f = FALSE => c.full = FALSE
<1> DEFINE k == Popped(heap)
           N == sizeInBytes
           r == readPos
           e == EndOf(N, r, w, f)
           E == IF k = 0 THEN r ELSE heap[k].pos + heap[k].size
           q == IF E >= N THEN E - N ELSE E
           t == SubSeq(heap, k + 1, Len(heap))
           c == CleanOosPackets(heap, f)
<1>1. c.readPos = q /\ c.heap = t /\ c.full = (f /\ k = 0)
    BY DEF CleanOosPackets
<1>2. PlaceOK(N, r, w, f) /\ heap \in Seq(Pieces) /\ AllFit(heap, N, r, e) /\ AllApart(heap, N)
    BY DEF RingOK
<1>3. N \in Nat /\ r \in Nat /\ f \in BOOLEAN /\ (r < N \/ (N = 0 /\ r = 0))
    BY <1>2 DEF PlaceOK
<1>4. Len(heap) \in Nat /\ k \in 0 .. Len(heap) /\ (k >= 1 => Reached(heap, k))
    BY <1>2, PoppedRun, LenProperties
<1> DEFINE Goal == /\ RingOK(N, c.readPos, w, c.full, c.heap, lent)
                   /\ e <= N => c.readPos = 0 \/ r <= c.readPos
                   /\ f = FALSE => c.full = FALSE
<1> SUFFICES Goal
    OBVIOUS
<1> HIDE DEF c, k
<1>5. CASE k = 0
  <2>1. q = r
      BY <1>3, <1>5
  <2>2. t = heap
      BY <1>2, <1>5, SubSeqFull
  <2>3. c.full = f
      BY <1>1, <1>3, <1>5
  <2>4. c.readPos = r /\ c.heap = heap
      BY <1>1, <2>1, <2>2, Zenon
  <2>5. r <= r
      BY <1>3
  <2> QED
      BY <2>3, <2>4, <2>5, Zenon
<1>6. CASE k # 0
  <2>1. k \in 1 .. Len(heap) /\ Run(heap, r, k) /\ k \in 1 .. k
      BY <1>4, <1>6 DEF Reached, Run
  <2>2. E = heap[k].pos + heap[k].size
      BY <1>6
  <2> DEFINE z == heap[k].pos + heap[k].size
  <2>3. RingOK(N, IF z >= N THEN z - N ELSE z, w, FALSE, t, lent)
      BY <2>1, PopRing
  <2>4. c.full = FALSE
      BY <1>1, <1>6
  <2>5. r <= heap[k].pos /\ z <= e
      BY <1>2, <2>1, RunPlaces
  <2>6. heap[k].pos \in Nat /\ heap[k].size \in Nat
      BY <1>2, <1>3, <2>1, AtType, ElementOfSeq
  <2>7. e \in Nat
      BY <1>2, EndBound
  <2>8. e <= N => q = 0 \/ r <= q
    <3> HIDE DEF e
    <3> QED
        BY <1>3, <2>2, <2>5, <2>6, <2>7
  <2>9. RingOK(N, q, w, FALSE, t, lent)
      BY <2>2, <2>3, Zenon
  <2> HIDE DEF q, t
  <2>10. RingOK(N, c.readPos, w, c.full, c.heap, lent)
      BY <1>1, <2>4, <2>9
  <2> QED
      BY <1>1, <2>4, <2>8, <2>10
<1> QED
    BY <1>5, <1>6 DEF c

--------------------------------------------------------------------------------
(***************************************************************************)
(* RingInv is inductive.                                                   *)
(***************************************************************************)

(* An empty buffer has neither packets nor pieces in its heap.             *)
LEMMA EmptyRing ==
    ASSUME NEW N, NEW r, NEW heap, NEW lent, RingOK(N, r, r, FALSE, heap, lent)
    PROVE  heap = <<>> /\ lent = <<>>
<1>1. /\ PlaceOK(N, r, r, FALSE) /\ heap \in Seq(Pieces) /\ lent \in Seq(Pieces)
      /\ AllFit(heap, N, r, EndOf(N, r, r, FALSE)) /\ AllFit(lent, N, r, EndOf(N, r, r, FALSE))
    BY DEF RingOK
<1>2. N \in Nat /\ r \in Nat /\ (r < N \/ (N = 0 /\ r = 0)) /\ EndOf(N, r, r, FALSE) = r
    BY <1>1 DEF PlaceOK, EndOf
<1>3. ASSUME NEW p \in Pieces, Fits(p, N, r, r)
      PROVE  FALSE
  <2> DEFINE a == At(p, N)
  <2>1. a \in Nat /\ p.size \in Nat
      BY <1>2, AtType
  <2>2. p.size >= 1 /\ a + p.size <= N /\ Ahead(a, N, r) + p.size <= r
      BY <1>3 DEF Fits
  <2> HIDE DEF a
  <2> QED
      BY <1>2, <2>1, <2>2 DEF Ahead
<1>4. ASSUME NEW s \in Seq(Pieces), AllFit(s, N, r, r)
      PROVE  s = <<>>
  <2> SUFFICES ASSUME s # <<>>
               PROVE  FALSE
      OBVIOUS
  <2>1. 1 \in DOMAIN s /\ s[1] \in Pieces
      BY LenProperties, EmptySeq, ElementOfSeq
  <2> QED
      BY <1>3, <1>4, <2>1 DEF AllFit
<1> QED
    BY <1>1, <1>2, <1>4

(* Write with enough room up to the end or up to the read position.        *)
LEMMA WriteHereInv ==
    ASSUME RingInv, NEW n \in Nat, n >= 1, WriteHere(n), UNCHANGED <<underReset, resizing, inOrder>>
    PROVE  RingInv'
<1> DEFINE w == IF writePos + n = sizeInBytes THEN 0 ELSE writePos + n
           g == isFull \/ w = readPos
<1>1. RingOK(sizeInBytes, readPos, writePos, isFull, oosPackets, live)
    BY DEF RingInv
<1>2. /\ ~(isFull /\ writePos = readPos)
      /\ n <= (IF writePos < readPos THEN readPos - writePos ELSE sizeInBytes - writePos)
    BY DEF WriteHere, RejectedAsFull, Available
<1>3. /\ writePos' = w /\ isFull' = g /\ live' = Append(live, Piece(writePos, n))
      /\ UNCHANGED <<sizeInBytes, readPos, oosPackets>>
    BY DEF WriteHere
<1>4. RingOK(sizeInBytes, readPos, w, g, oosPackets, Append(live, Piece(writePos, n)))
    BY <1>1, <1>2, LendRing
<1> HIDE DEF w, g
<1>5. RingOK(sizeInBytes', readPos', writePos', isFull', oosPackets', live')
    BY <1>3, <1>4
<1> QED
    BY <1>5 DEF RingInv

(* Write at the beginning: the rest of the buffer is lent as a dummy that  *)
(* is released at once, then the piece at the beginning is lent.           *)
LEMMA WriteAtBeginningInv ==
    ASSUME RingInv, NEW n \in Nat, n >= 1, WriteAtBeginning(n),
           UNCHANGED <<underReset, resizing, inOrder>>
    PROVE  RingInv'
<1> DEFINE N == sizeInBytes
           r == readPos
           m == N - writePos
           P == Piece(writePos, m)
           H == Push(oosPackets, P)
           c == CleanOosPackets(H, isFull)
<1>1. RingOK(N, r, writePos, isFull, oosPackets, live)
    BY DEF RingInv
<1>2. PlaceOK(N, r, writePos, isFull)
    BY <1>1 DEF RingOK
<1>3. /\ ~(isFull /\ writePos = r) /\ writePos >= r /\ n <= r /\ n > Available
      /\ writePos' = n /\ live' = Append(live, Piece(0, n)) /\ UNCHANGED sizeInBytes
    BY DEF WriteAtBeginning, RejectedAsFull
<1>4. /\ N \in Nat /\ r \in Nat /\ writePos \in Nat /\ r < N /\ writePos < N
      /\ isFull = FALSE /\ r >= 1 /\ n < N
    BY <1>2, <1>3 DEF PlaceOK
<1>5. Available = m /\ m \in Nat /\ m >= 1 /\ writePos + m = N /\ ~(writePos < r)
    BY <1>3, <1>4 DEF Available
<1>6. readPos' = c.readPos /\ oosPackets' = c.heap /\ isFull' = (c.full \/ c.readPos = n)
    BY <1>5 DEF WriteAtBeginning
<1> DEFINE v == IF writePos + m = N THEN 0 ELSE writePos + m
           g == isFull \/ v = r
<1>7. v = 0 /\ g = FALSE
    BY <1>4, <1>5
<1>8. RingOK(N, r, 0, FALSE, H, live)
  <2>1. m <= (IF writePos < r THEN r - writePos ELSE N - writePos)
      BY <1>4, <1>5
  <2> HIDE DEF m
  <2>2. /\ RingOK(N, r, v, g, oosPackets, live)
        /\ P \in Pieces /\ Fits(P, N, r, EndOf(N, r, v, g))
        /\ \A i \in DOMAIN oosPackets : Apart(P, oosPackets[i], N)
        /\ \A i \in DOMAIN live : Apart(P, live[i], N)
      BY <1>1, <1>3, <1>5, <2>1, GrowRing
  <2> HIDE DEF v, g, P
  <2>3. RingOK(N, r, v, g, H, live)
      BY <2>2, PushRing
  <2> QED
      BY <1>7, <2>3
<1> HIDE DEF P, H
<1>9. /\ RingOK(N, c.readPos, 0, c.full, c.heap, live)
      /\ EndOf(N, r, 0, FALSE) <= N => c.readPos = 0 \/ r <= c.readPos
      /\ c.full = FALSE
    BY <1>4, <1>8, CleanRing
<1> HIDE DEF c
<1>10. EndOf(N, r, 0, FALSE) = N
    BY <1>4 DEF EndOf
<1>11. c.readPos = 0 \/ r <= c.readPos
  <2>1. N <= N
      BY <1>4
  <2> QED
      BY <1>9, <1>10, <2>1, Zenon
<1>12. c.readPos \in Nat
    BY <1>9 DEF RingOK, PlaceOK
<1>13. n <= (IF 0 < c.readPos THEN c.readPos - 0 ELSE N - 0)
    BY <1>3, <1>4, <1>11, <1>12
<1>14. n = (IF 0 + n = N THEN 0 ELSE 0 + n)
    BY <1>4
<1>15. isFull' = (c.full \/ n = c.readPos)
    BY <1>6, <1>12
<1>16. ~(c.full /\ 0 = c.readPos)
    BY <1>9
<1>17. RingOK(N, c.readPos, n, isFull', c.heap, Append(live, Piece(0, n)))
    BY <1>9, <1>13, <1>14, <1>15, <1>16, LendRing
<1>18. RingOK(sizeInBytes', readPos', writePos', isFull', oosPackets', live')
    BY <1>3, <1>6, <1>17
<1> QED
    BY <1>18 DEF RingInv

(* Read: the piece of the destroyed packet goes to the heap, a lap ahead   *)
(* if it lies before the read position.                                    *)
LEMMA ReleaseInv ==
    ASSUME RingInv, NEW i \in DOMAIN live, Release(i)
    PROVE  RingInv'
<1> DEFINE N == sizeInBytes
           r == readPos
           p == live[i]
           q == IF p.pos < r THEN Piece(p.pos + N, p.size) ELSE p
           L == SubSeq(live, 1, i - 1) \o SubSeq(live, i + 1, Len(live))
           H == Push(oosPackets, q)
           c == CleanOosPackets(H, isFull)
           e == EndOf(N, r, writePos, isFull)
<1>1. RingOK(N, r, writePos, isFull, oosPackets, live)
    BY DEF RingInv
<1>2. /\ RingOK(N, r, writePos, isFull, oosPackets, L)
      /\ p \in Pieces /\ Fits(p, N, r, e) /\ p.pos < N
      /\ \A j \in DOMAIN oosPackets : Apart(p, oosPackets[j], N)
      /\ \A j \in DOMAIN L : Apart(p, L[j], N)
    BY <1>1, RemoveRing
<1>3. /\ readPos' = c.readPos /\ oosPackets' = c.heap /\ isFull' = c.full
      /\ live' = L /\ inOrder' = (inOrder /\ i = 1)
      /\ UNCHANGED <<sizeInBytes, writePos, underReset, resizing>>
    BY DEF Release
<1>4. N \in Nat /\ r \in Nat
    BY <1>1 DEF RingOK, PlaceOK
<1> HIDE DEF p, L, e
<1>5. p.pos \in Nat /\ p.size \in Nat
    BY <1>2, <1>4, AtType
<1>6. q \in Pieces /\ q.size = p.size /\ At(q, N) = At(p, N)
  <2>1. CASE p.pos < r
    <3>1. q = Piece(p.pos + N, p.size)
        BY <2>1
    <3>2. q \in Pieces /\ q.size = p.size /\ q.pos = p.pos + N
        BY <1>4, <1>5, <3>1 DEF Piece, Pieces
    <3> HIDE DEF q
    <3> QED
        BY <1>2, <1>4, <1>5, <3>2 DEF At
  <2>2. CASE ~(p.pos < r)
      BY <1>2, <2>2
  <2> QED
      BY <2>1, <2>2
<1> HIDE DEF q
<1>7. /\ Fits(q, N, r, e)
      /\ \A j \in DOMAIN oosPackets : Apart(q, oosPackets[j], N)
      /\ \A j \in DOMAIN L : Apart(q, L[j], N)
    BY <1>2, <1>6 DEF Fits, Apart
<1>8. RingOK(N, r, writePos, isFull, H, L)
    BY <1>2, <1>6, <1>7, PushRing DEF e
<1> HIDE DEF H
<1>9. RingOK(N, c.readPos, writePos, c.full, c.heap, L)
    BY <1>8, CleanRing
<1> HIDE DEF c
<1>10. RingOK(sizeInBytes', readPos', writePos', isFull', oosPackets', live')
    BY <1>3, <1>9
<1>11. inOrder' \in BOOLEAN
    BY <1>3
<1> QED
    BY <1>3, <1>10, <1>11 DEF RingInv

(* The rest of resize: a new ring, nothing of which is lent.               *)
LEMMA ReallocateInv ==
    ASSUME RingInv, NEW n \in Nat \ {0}, Reallocate(n), resizing' \in [Resizers -> Nat]
    PROVE  RingInv'
<1>1. /\ readPos = writePos /\ ~isFull /\ sizeInBytes' = n /\ readPos' = 0 /\ writePos' = 0
      /\ underReset' = FALSE /\ UNCHANGED <<isFull, oosPackets, live, inOrder>>
    BY DEF Reallocate, Empty
<1>2. isFull = FALSE /\ RingOK(sizeInBytes, readPos, readPos, FALSE, oosPackets, live)
    BY <1>1 DEF RingInv, RingOK, PlaceOK
<1>3. oosPackets = <<>> /\ live = <<>>
    BY <1>2, EmptyRing
<1>4. RingOK(n, 0, 0, FALSE, <<>>, <<>>)
    BY DEF RingOK, PlaceOK, AllFit, AllApart, NoneMeet, InBuffer
<1>5. RingOK(sizeInBytes', readPos', writePos', isFull', oosPackets', live')
    BY <1>1, <1>2, <1>3, <1>4
<1> QED
    BY <1>1, <1>5 DEF RingInv

(* The new buffer is empty.                                                *)
LEMMA InitRing ==
    ASSUME PacketBufferAssumption, BufferInit
    PROVE  RingInv
<1>1. InitialSize \in Nat
    BY DEF PacketBufferAssumption
<1>2. RingOK(InitialSize, 0, 0, FALSE, <<>>, <<>>)
    BY <1>1 DEF RingOK, PlaceOK, AllFit, AllApart, NoneMeet, InBuffer
<1>3. RingOK(sizeInBytes, readPos, writePos, isFull, oosPackets, live)
    BY <1>2 DEF BufferInit
<1> QED
    BY <1>3 DEF BufferInit, RingInv

(* Every step keeps the ring, as long as no packet is empty.               *)
LEMMA NextRing ==
    ASSUME PacketBufferAssumption, 0 \notin PacketSizes, RingInv, [BufferNext]_bufferVars
    PROVE  RingInv'
<1>1. ASSUME NEW n \in PacketSizes, CreatePacket(n)
      PROVE  RingInv'
  <2>1. n \in Nat /\ n >= 1 /\ UNCHANGED <<underReset, resizing, inOrder>>
      BY <1>1 DEF PacketBufferAssumption, CreatePacket
  <2>2. WriteHere(n) \/ WriteAtBeginning(n)
      BY <1>1 DEF CreatePacket, Write
  <2> QED
      BY <2>1, <2>2, WriteHereInv, WriteAtBeginningInv
<1>2. ASSUME NEW i \in DOMAIN live, Release(i)
      PROVE  RingInv'
    BY <1>2, ReleaseInv
<1>3. ASSUME NEW r \in Resizers, NEW n \in NewSizes, ResizeBegin(r, n)
      PROVE  RingInv'
  <2>1. n \in Nat /\ resizing \in [Resizers -> Nat]
      BY DEF PacketBufferAssumption, RingInv
  <2>2. resizing' \in [Resizers -> Nat] /\ underReset' \in BOOLEAN /\ UNCHANGED <<ring, live, inOrder>>
      BY <1>3, <2>1 DEF ResizeBegin
  <2> QED
      BY <2>2 DEF RingInv, ring
<1>4. ASSUME NEW r \in Resizers, NEW n \in NewSizes, ResizeAtOnce(r, n)
      PROVE  RingInv'
  <2>1. n \in Nat \ {0} /\ Reallocate(n) /\ resizing' \in [Resizers -> Nat]
      BY <1>4 DEF PacketBufferAssumption, RingInv, ResizeAtOnce
  <2> QED
      BY <2>1, ReallocateInv
<1>5. ASSUME NEW r \in Resizers, ResizeEnd(r)
      PROVE  RingInv'
  <2>1. resizing[r] \in Nat \ {0} /\ Reallocate(resizing[r]) /\ resizing' \in [Resizers -> Nat]
      BY <1>5 DEF RingInv, ResizeEnd
  <2> QED
      BY <2>1, ReallocateInv
<1>6. CASE UNCHANGED bufferVars
    BY <1>6 DEF bufferVars, ring, RingInv
<1> QED
    BY <1>1, <1>2, <1>3, <1>4, <1>5, <1>6 DEF BufferNext

(* What the ring says of the packets that exist.                           *)
LEMMA RingNoOverlap ==
    ASSUME RingInv
    PROVE  NoOverlap
<1> DEFINE N == sizeInBytes
<1>1. /\ PlaceOK(N, readPos, writePos, isFull) /\ oosPackets \in Seq(Pieces) /\ live \in Seq(Pieces)
      /\ AllFit(live, N, readPos, EndOf(N, readPos, writePos, isFull))
      /\ AllApart(live, N) /\ InBuffer(live, N)
    BY DEF RingInv, RingOK
<1>2. N \in Nat
    BY <1>1 DEF PlaceOK
<1>3. BufferTypeOK
    BY <1>1 DEF BufferTypeOK, RingInv, PlaceOK
<1>4. ASSUME NEW i \in DOMAIN live
      PROVE  /\ live[i].pos \in Nat /\ live[i].size \in Nat /\ At(live[i], N) = live[i].pos
             /\ live[i].pos + live[i].size <= N
  <2>1. live[i] \in Pieces /\ live[i].pos < N
      BY <1>1, LenProperties, ElementOfSeq DEF InBuffer
  <2>2. live[i].pos \in Nat /\ live[i].size \in Nat
      BY <1>2, <2>1, AtType
  <2>3. At(live[i], N) = live[i].pos
      BY <1>2, <2>1, <2>2 DEF At
  <2>4. At(live[i], N) + live[i].size <= N
      BY <1>1 DEF AllFit, Fits
  <2> QED
      BY <2>2, <2>3, <2>4
<1>5. ASSUME NEW i \in DOMAIN live
      PROVE  Bytes(live[i]) \subseteq 0 .. (N - 1)
    BY <1>2, <1>4 DEF Bytes
<1>6. ASSUME NEW i \in DOMAIN live, NEW j \in DOMAIN live, i # j
      PROVE  Bytes(live[i]) \cap Bytes(live[j]) = {}
  <2>1. Apart(live[i], live[j], N)
      BY <1>1, <1>6 DEF AllApart
  <2>2. live[i].pos + live[i].size <= live[j].pos \/ live[j].pos + live[j].size <= live[i].pos
      BY <1>4, <2>1 DEF Apart
  <2> QED
      BY <1>4, <2>2 DEF Bytes
<1> QED
    BY <1>3, <1>5, <1>6 DEF NoOverlap

(* NoOverlap for every size of the buffer, every new size and every order  *)
(* of destruction: createPacket, the deleters' Read and resize never lend  *)
(* the same bytes twice.  The samples of a packet have to take room: a     *)
(* released piece of size zero at readPos makes CleanOosPackets clear      *)
(* isFull of a full buffer (packet_buffer_impl.cpp:22-32).                 *)
THEOREM MemoryLentOnce ==
    ASSUME 0 \notin PacketSizes
    PROVE  BufferSpec => []NoOverlap
<1>1. BufferInit => RingInv
    BY PacketBufferAssumption, InitRing
<1>2. RingInv /\ [BufferNext]_bufferVars => RingInv'
    BY PacketBufferAssumption, NextRing
<1>3. RingInv => NoOverlap
    BY RingNoOverlap
<1> QED
    BY <1>1, <1>2, <1>3, PTL DEF BufferSpec, BufferSafe

--------------------------------------------------------------------------------
(***************************************************************************)
(* LineInv is inductive beside RingInv.                                    *)
(***************************************************************************)

(* A piece that comes before all others of the heap becomes its top.       *)
LEMMA PushFirst ==
    ASSUME NEW heap \in Seq(Pieces), NEW p \in Pieces,
           \A i \in DOMAIN heap : ~Below(heap[i], p)
    PROVE  /\ Push(heap, p) \in Seq(Pieces) /\ Len(Push(heap, p)) = Len(heap) + 1
           /\ Push(heap, p)[1] = p
           /\ \A i \in 1 .. Len(heap) : Push(heap, p)[i + 1] = heap[i]
<1> DEFINE k == Cardinality({i \in DOMAIN heap : Below(heap[i], p)})
<1>1. k = 0
  <2>1. {i \in DOMAIN heap : Below(heap[i], p)} = {}
      BY Zenon
  <2> QED
      BY <2>1, FS_EmptySet
<1>2. Push(heap, p) = SubSeq(heap, 1, k) \o <<p>> \o SubSeq(heap, k + 1, Len(heap))
    BY DEF Push
<1>3. SubSeq(heap, 1, 0) = <<>> /\ SubSeq(heap, 0 + 1, Len(heap)) = heap
    BY SubSeqEmpty, SubSeqFull
<1>4. Push(heap, p) = <<>> \o <<p>> \o heap
    BY <1>1, <1>2, <1>3
<1>5. <<>> \o <<p>> \o heap = <<p>> \o heap
    OBVIOUS
<1> QED
    BY <1>4, <1>5

(* One piece popped, or two.                                               *)
LEMMA PoppedOne ==
    ASSUME NEW heap \in Seq(Pieces), Len(heap) >= 1, heap[1].pos = readPos,
           Len(heap) >= 2 => heap[2].pos # heap[1].pos + heap[1].size
    PROVE  Popped(heap) = 1
<1>1. Len(heap) \in Nat /\ Popped(heap) \in 0 .. Len(heap)
    BY PoppedRun, LenProperties
<1>2. Reached(heap, 1)
    BY DEF Reached
<1>3. Popped(heap) # 0
  <2>1. Popped(heap) = 0 => ~Reached(heap, 0 + 1)
      BY <1>1, PoppedRun
  <2> QED
      BY <1>2, <2>1
<1>4. ~(Popped(heap) >= 2)
  <2> SUFFICES ASSUME Popped(heap) >= 2
               PROVE  FALSE
      OBVIOUS
  <2> DEFINE k == Popped(heap)
  <2>1. Reached(heap, k)
      BY <1>1, PoppedRun
  <2> HIDE DEF k
  <2>2. k \in Nat /\ k >= 2 /\ k <= Len(heap)
      BY <1>1 DEF k
  <2>3. 1 \in 1 .. k - 1 /\ Len(heap) >= 2
      BY <1>1, <2>2
  <2>4. heap[1 + 1].pos = heap[1].pos + heap[1].size
      BY <2>1, <2>3 DEF Reached
  <2> QED
      BY <2>3, <2>4
<1> QED
    BY <1>1, <1>3, <1>4

(* The top piece and the one behind it are popped.                         *)
LEMMA PoppedTwo ==
    ASSUME NEW heap \in Seq(Pieces), Len(heap) = 2, heap[1].pos = readPos,
           heap[2].pos = heap[1].pos + heap[1].size
    PROVE  Popped(heap) = 2
<1>1. /\ Popped(heap) \in 0 .. Len(heap)
      /\ Popped(heap) < Len(heap) => ~Reached(heap, Popped(heap) + 1)
    BY PoppedRun, Zenon
<1>2. Reached(heap, 1)
    BY DEF Reached
<1>3. Reached(heap, 2)
  <2>1. \A i \in 1 .. 2 - 1 : i = 1
      OBVIOUS
  <2> QED
      BY <2>1 DEF Reached
<1>4. Popped(heap) # 0
  <2>1. Popped(heap) = 0 => ~Reached(heap, 0 + 1)
      BY <1>1
  <2> QED
      BY <1>2, <2>1
<1>5. Popped(heap) # 1
  <2>1. Popped(heap) = 1 => ~Reached(heap, 1 + 1)
      BY <1>1
  <2> QED
      BY <1>3, <2>1
<1> QED
    BY <1>1, <1>4, <1>5

(* The oldest packet is destroyed.                                         *)
LEMMA RemoveFirst ==
    ASSUME NEW s \in Seq(Pieces), Len(s) >= 1
    PROVE  LET t == SubSeq(s, 1, 1 - 1) \o SubSeq(s, 1 + 1, Len(s))
           IN  /\ t \in Seq(Pieces) /\ Len(t) = Len(s) - 1
               /\ \A i \in 1 .. Len(s) - 1 : t[i] = s[i + 1]
<1>1. Len(s) \in Nat
    BY LenProperties
<1>2. SubSeq(s, 1, 1 - 1) = <<>>
    BY SubSeqEmpty
<1> DEFINE v == SubSeq(s, 1 + 1, Len(s))
<1>3. v \in Seq(Pieces) /\ Len(v) = Len(s) - 1 /\ \A i \in 1 .. Len(s) - 1 : v[i] = s[1 + i]
  <2>1. 1 \in 0 .. Len(s)
      BY <1>1
  <2> QED
      BY <2>1, Cut
<1> HIDE DEF v
<1>4. <<>> \o v = v
    BY <1>3, ConcatEmptySeq
<1>5. \A i \in 1 .. Len(s) - 1 : v[i] = s[i + 1]
    BY <1>1, <1>3
<1> QED
    BY <1>2, <1>3, <1>4, <1>5 DEF v

(* Write with enough room: the new packet follows the youngest one.        *)
LEMMA LineWriteHere ==
    ASSUME NEW N, NEW r, NEW w, NEW f, NEW heap, NEW lent,
           RingOK(N, r, w, f, heap, lent), LinedUp(N, r, w, f, heap, lent),
           NEW n \in Nat, NEW v, v = (IF w + n = N THEN 0 ELSE w + n), NEW g
    PROVE  LinedUp(N, r, v, g, heap, Append(lent, Piece(w, n)))
<1> DEFINE P == Piece(w, n)
           t == Append(lent, P)
           k == Len(lent)
<1>1. w \in Nat /\ lent \in Seq(Pieces)
    BY DEF RingOK, PlaceOK
<1>2. P.pos = w /\ P.size = n /\ P \in Pieces
    BY <1>1 DEF Piece, Pieces
<1>3. k \in Nat
    BY <1>1, LenProperties
<1> HIDE DEF P
<1>4. /\ t \in Seq(Pieces) /\ Len(t) = k + 1 /\ t[k + 1] = P /\ t # <<>>
      /\ \A i \in 1 .. k : t[i] = lent[i]
    BY <1>1, <1>2
<1> HIDE DEF t
<1>5. After(P, N) = v
    BY <1>2 DEF After
<1>6. lent = <<>> <=> k = 0
    BY <1>1, EmptySeq
<1>7. t[1].pos = r
  <2>1. CASE lent = <<>>
      BY <1>2, <1>4, <1>6, <2>1 DEF LinedUp
  <2>2. CASE lent # <<>>
      BY <1>3, <1>4, <1>6, <2>2 DEF LinedUp
  <2> QED
      BY <2>1, <2>2
<1>8. ASSUME NEW i \in 1 .. Len(t) - 1
      PROVE  Follows(t[i], t[i + 1], heap, N)
  <2>1. CASE i = k
    <3>1. t[i] = lent[k] /\ t[i + 1] = P /\ lent # <<>>
        BY <1>3, <1>4, <1>6, <2>1
    <3>2. After(lent[k], N) = w
        BY <3>1 DEF LinedUp
    <3> QED
        BY <1>2, <3>1, <3>2 DEF Follows
  <2>2. CASE i # k
    <3>1. i \in 1 .. k - 1 /\ t[i] = lent[i] /\ t[i + 1] = lent[i + 1]
        BY <1>3, <1>4, <2>2
    <3>2. Follows(lent[i], lent[i + 1], heap, N)
        BY <3>1 DEF LinedUp
    <3> QED
        BY <3>1, <3>2
  <2> QED
      BY <2>1, <2>2
<1>9. ASSUME heap # <<>>
      PROVE  /\ heap[1].pos + heap[1].size = N
             /\ \E i \in 1 .. Len(t) - 1 : heap[1].pos = t[i].pos + t[i].size
  <2>1. PICK i \in 1 .. k - 1 : heap[1].pos = lent[i].pos + lent[i].size
      BY <1>9 DEF LinedUp
  <2>2. i \in 1 .. Len(t) - 1 /\ t[i] = lent[i]
      BY <1>3, <1>4
  <2>3. heap[1].pos + heap[1].size = N
      BY <1>9 DEF LinedUp
  <2> QED
      BY <2>1, <2>2, <2>3
<1>10. Len(heap) <= 1
    BY DEF LinedUp
<1> QED
    BY <1>4, <1>5, <1>7, <1>8, <1>9, <1>10 DEF LinedUp, t, P

Line == LinedUp(sizeInBytes, readPos, writePos, isFull, oosPackets, live)

(* Write at the beginning: the heap was empty; the rest of the buffer is   *)
(* popped at once if nothing was lent and waits in the heap otherwise.     *)
LEMMA LineWriteAtBeginning ==
    ASSUME RingInv, Line, NEW n \in Nat, n >= 1, WriteAtBeginning(n)
    PROVE  Line'
<1> DEFINE N == sizeInBytes
           r == readPos
           w == writePos
           m == N - w
           P == Piece(w, m)
           H == Push(oosPackets, P)
           k == Popped(H)
           c == CleanOosPackets(H, isFull)
           Q == Piece(0, n)
           t == Append(live, Q)
           z == Len(live)
<1>1. RingOK(N, r, w, isFull, oosPackets, live)
    BY DEF RingInv
<1>2. /\ PlaceOK(N, r, w, isFull) /\ oosPackets \in Seq(Pieces) /\ live \in Seq(Pieces)
      /\ AllFit(oosPackets, N, r, EndOf(N, r, w, isFull))
    BY <1>1 DEF RingOK
<1>3. /\ ~(isFull /\ w = r) /\ w >= r /\ n <= r
      /\ writePos' = n /\ live' = t /\ UNCHANGED sizeInBytes
    BY DEF WriteAtBeginning, RejectedAsFull
<1>4. /\ N \in Nat /\ r \in Nat /\ w \in Nat /\ r < N /\ w < N
      /\ isFull = FALSE /\ r >= 1 /\ n < N
    BY <1>2, <1>3 DEF PlaceOK
<1>5. Available = m /\ m \in Nat /\ m >= 1 /\ w + m = N
    BY <1>3, <1>4 DEF Available
<1>6. readPos' = c.readPos /\ oosPackets' = c.heap /\ isFull' = (c.full \/ c.readPos = n)
    BY <1>5 DEF WriteAtBeginning
<1>7. EndOf(N, r, w, isFull) = w
    BY <1>3, <1>4 DEF EndOf
<1>8. oosPackets = <<>>
  <2> SUFFICES ASSUME oosPackets # <<>>
               PROVE  FALSE
      OBVIOUS
  <2> DEFINE D == oosPackets[1]
  <2>1. 1 \in DOMAIN oosPackets /\ D \in Pieces
      BY <1>2, LenProperties, EmptySeq, ElementOfSeq
  <2>2. D.pos + D.size = N
      BY DEF Line, LinedUp
  <2>3. Fits(D, N, r, w)
      BY <1>2, <1>7, <2>1 DEF AllFit
  <2>4. D.pos \in Nat /\ D.size \in Nat
      BY <1>4, <2>1, AtType
  <2> HIDE DEF D
  <2>5. D.size >= 1 /\ Ahead(At(D, N), N, r) + D.size <= w
      BY <2>3 DEF Fits
  <2>6. At(D, N) = D.pos
      BY <1>4, <2>2, <2>4, <2>5 DEF At
  <2> QED
      BY <1>4, <2>2, <2>4, <2>5, <2>6 DEF Ahead
<1>9. P \in Pieces /\ P.pos = w /\ P.size = m /\ Q \in Pieces /\ Q.pos = 0 /\ Q.size = n
    BY <1>4, <1>5 DEF Piece, Pieces
<1> HIDE DEF P, Q, m
<1>10. H \in Seq(Pieces) /\ Len(H) = 1 /\ H[1] = P
  <2>1. Len(oosPackets) = 0 /\ DOMAIN oosPackets = {}
      BY <1>8
  <2>2. \A i \in DOMAIN oosPackets : ~Below(oosPackets[i], P)
      BY <2>1
  <2>3. H \in Seq(Pieces) /\ Len(H) = Len(oosPackets) + 1 /\ H[1] = P
      BY <1>2, <1>9, <2>2, PushFirst
  <2> QED
      BY <2>1, <2>3
<1> HIDE DEF H
<1>11. /\ c.readPos = (LET read == IF k = 0 THEN r ELSE H[k].pos + H[k].size
                       IN IF read >= N THEN read - N ELSE read)
       /\ c.heap = SubSeq(H, k + 1, Len(H)) /\ c.full = FALSE
    BY <1>4 DEF CleanOosPackets
<1> HIDE DEF c
<1>12. z \in Nat
    BY <1>2, LenProperties
<1>13. /\ t \in Seq(Pieces) /\ Len(t) = z + 1 /\ t[z + 1] = Q /\ t # <<>>
       /\ \A i \in 1 .. z : t[i] = live[i]
    BY <1>2, <1>9
<1> HIDE DEF t
<1>14. After(Q, N) = n
    BY <1>4, <1>9 DEF After
<1>15. live = <<>> <=> z = 0
    BY <1>2, EmptySeq
<1>16. CASE live = <<>>
  <2>1. r = w
      BY <1>16 DEF Line, LinedUp
  <2>2. k = 1
      BY <1>9, <1>10, <2>1, PoppedOne
  <2> HIDE DEF k
  <2>3. c.readPos = 0
      BY <1>4, <1>5, <1>9, <1>10, <1>11, <2>2
  <2>4. c.heap = <<>>
      BY <1>10, <1>11, <2>2, SubSeqEmpty
  <2>5. Len(t) = 1 /\ t[1] = Q
      BY <1>13, <1>15, <1>16
  <2>6. LinedUp(N, 0, n, isFull', <<>>, t)
    <3>1. \A i \in 1 .. Len(t) - 1 : Follows(t[i], t[i + 1], <<>>, N)
        BY <2>5
    <3>2. Len(<<>>) <= 1
        OBVIOUS
    <3>3. t[1].pos = 0 /\ After(t[Len(t)], N) = n
        BY <1>9, <1>14, <2>5
    <3> QED
        BY <1>13, <3>1, <3>2, <3>3, Zenon DEF LinedUp
  <2> QED
      BY <1>3, <1>6, <2>3, <2>4, <2>6 DEF Line
<1>17. CASE live # <<>>
  <2>1. w # r
      BY <1>1, <1>4, <1>17, EmptyRing
  <2>2. k = 0
    <3>1. k \in 0 .. Len(H) /\ (k >= 1 => Reached(H, k))
        BY <1>10, PoppedRun
    <3>2. ~(k >= 1)
        BY <1>9, <1>10, <2>1, <3>1 DEF Reached
    <3> QED
        BY <1>10, <3>1, <3>2
  <2> HIDE DEF k
  <2>3. c.readPos = r
      BY <1>4, <1>11, <2>2
  <2>4. c.heap = H
      BY <1>10, <1>11, <2>2, SubSeqFull
  <2>5. H # <<>>
      BY <1>10
  <2>6. t[1].pos = r
      BY <1>12, <1>13, <1>15, <1>17 DEF Line, LinedUp
  <2>7. After(live[z], N) = w
      BY <1>17 DEF Line, LinedUp
  <2>8. live[z].pos + live[z].size = w
      BY <1>3, <1>4, <2>1, <2>7 DEF After
  <2>9. ASSUME NEW i \in 1 .. Len(t) - 1
        PROVE  Follows(t[i], t[i + 1], H, N)
    <3>1. CASE i = z
        BY <1>9, <1>10, <1>12, <1>13, <2>5, <2>8, <3>1 DEF Follows
    <3>2. CASE i # z
      <4>1. i \in 1 .. z - 1 /\ t[i] = live[i] /\ t[i + 1] = live[i + 1]
          BY <1>12, <1>13, <3>2
      <4>2. Follows(live[i], live[i + 1], oosPackets, N)
          BY <4>1 DEF Line, LinedUp
      <4> QED
          BY <1>8, <4>1, <4>2 DEF Follows
    <3> QED
        BY <3>1, <3>2
  <2>10. H[1].pos + H[1].size = N
      BY <1>5, <1>9, <1>10
  <2>11. \E i \in 1 .. Len(t) - 1 : H[1].pos = t[i].pos + t[i].size
    <3>1. z \in 1 .. Len(t) - 1 /\ t[z] = live[z]
        BY <1>12, <1>13, <1>15, <1>17
    <3> QED
        BY <1>9, <1>10, <2>8, <3>1
  <2>12. t[Len(t)] = Q /\ Len(H) <= 1
      BY <1>10, <1>13
  <2>13. LinedUp(N, r, n, isFull', H, t)
      BY <1>13, <1>14, <2>6, <2>9, <2>10, <2>11, <2>12 DEF LinedUp
  <2> QED
      BY <1>3, <1>6, <2>3, <2>4, <2>13 DEF Line
<1> QED
    BY <1>16, <1>17

(* Read of the oldest packet: its piece is popped at once, with the rest   *)
(* of the buffer if that lies directly behind it.                          *)
LEMMA LineRelease ==
    ASSUME RingInv, Line, 1 \in DOMAIN live, Release(1)
    PROVE  Line'
<1> DEFINE N == sizeInBytes
           r == readPos
           w == writePos
           e == EndOf(N, r, w, isFull)
           p == live[1]
           L == SubSeq(live, 1, 1 - 1) \o SubSeq(live, 1 + 1, Len(live))
           H == Push(oosPackets, p)
           k == Popped(H)
           c == CleanOosPackets(H, isFull)
           z == Len(live)
<1>1. RingOK(N, r, w, isFull, oosPackets, live)
    BY DEF RingInv
<1>2. /\ PlaceOK(N, r, w, isFull) /\ oosPackets \in Seq(Pieces) /\ live \in Seq(Pieces)
      /\ AllFit(oosPackets, N, r, e) /\ AllFit(live, N, r, e)
      /\ AllApart(live, N) /\ NoneMeet(oosPackets, live, N) /\ InBuffer(live, N)
    BY <1>1 DEF RingOK
<1>3. N \in Nat /\ r \in Nat /\ w \in Nat /\ e \in Nat /\ e <= r + N
    BY <1>2, EndBound DEF PlaceOK
<1>4. z \in Nat /\ DOMAIN live = 1 .. z /\ z >= 1 /\ live # <<>>
    BY <1>2, LenProperties
<1>5. ASSUME NEW i \in 1 .. z
      PROVE  /\ live[i] \in Pieces /\ live[i].pos \in Nat /\ live[i].size \in Nat /\ live[i].size >= 1
             /\ live[i].pos < N /\ At(live[i], N) = live[i].pos /\ live[i].pos + live[i].size <= N
  <2>1. live[i] \in Pieces /\ live[i].pos < N /\ Fits(live[i], N, r, e)
      BY <1>2, <1>4, ElementOfSeq DEF InBuffer, AllFit
  <2>2. live[i].pos \in Nat /\ live[i].size \in Nat
      BY <1>3, <2>1, AtType
  <2>3. At(live[i], N) = live[i].pos
      BY <1>3, <2>1, <2>2 DEF At
  <2> QED
      BY <2>1, <2>2, <2>3 DEF Fits
<1>6. 1 \in 1 .. z
    BY <1>4
<1>7. p.pos = r
    BY <1>4 DEF Line, LinedUp
<1>8. /\ p \in Pieces /\ p.pos \in Nat /\ p.size \in Nat /\ p.size >= 1
      /\ p.pos < N /\ At(p, N) = p.pos /\ p.pos + p.size <= N
    BY <1>5, <1>6
<1>9. /\ readPos' = c.readPos /\ oosPackets' = c.heap /\ isFull' = c.full /\ live' = L
      /\ UNCHANGED <<sizeInBytes, writePos>>
    BY <1>3, <1>7, <1>8 DEF Release
<1>10. L \in Seq(Pieces) /\ Len(L) = z - 1 /\ \A i \in 1 .. z - 1 : L[i] = live[i + 1]
    BY <1>2, <1>4, RemoveFirst
<1> HIDE DEF L
<1>11. /\ c.readPos = (LET read == IF k = 0 THEN r ELSE H[k].pos + H[k].size
                       IN IF read >= N THEN read - N ELSE read)
       /\ c.heap = SubSeq(H, k + 1, Len(H)) /\ c.full = (isFull /\ k = 0)
    BY DEF CleanOosPackets
<1>12. After(live[z], N) = w
    BY <1>4 DEF Line, LinedUp
<1>13. \A i \in 1 .. z - 1 : Follows(live[i], live[i + 1], oosPackets, N)
    BY DEF Line, LinedUp
<1>14. L = <<>> <=> z = 1
    BY <1>4, <1>10, EmptySeq
<1>15. z > 1 => After(L[Len(L)], N) = w
  <2> SUFFICES ASSUME z > 1
               PROVE  After(L[Len(L)], N) = w
      OBVIOUS
  <2>1. Len(L) = z - 1 /\ z - 1 \in 1 .. z - 1 /\ z - 1 + 1 = z
      BY <1>4, <1>10
  <2>2. L[z - 1] = live[z - 1 + 1]
      BY <1>10, <2>1
  <2> QED
      BY <1>12, <2>1, <2>2
<1> DEFINE D == oosPackets[1]
<1>16. ASSUME oosPackets # <<>>
       PROVE  /\ Len(oosPackets) = 1 /\ 1 \in DOMAIN oosPackets /\ D \in Pieces
              /\ D.pos \in Nat /\ D.size \in Nat /\ D.size >= 1
              /\ D.pos + D.size = N /\ At(D, N) = D.pos
              /\ r < D.pos /\ p.pos + p.size <= D.pos
              /\ z > 1
              /\ \A i \in 1 .. z : live[i].pos # D.pos
              /\ \E i \in 1 .. z - 1 : D.pos = live[i].pos + live[i].size
  <2>1. Len(oosPackets) = 1 /\ 1 \in DOMAIN oosPackets /\ D \in Pieces
    <3>1. Len(oosPackets) \in Nat /\ Len(oosPackets) <= 1 /\ Len(oosPackets) # 0
        BY <1>2, <1>16, LenProperties, EmptySeq DEF Line, LinedUp
    <3>2. Len(oosPackets) = 1
      <4> DEFINE n == Len(oosPackets)
      <4>1. n \in Nat /\ n <= 1 /\ n # 0
          BY <3>1
      <4> HIDE DEF n
      <4>2. n = 1
          BY <4>1
      <4> QED
          BY <4>2 DEF n
    <3>3. DOMAIN oosPackets = 1 .. 1
        BY <1>2, <3>2, LenProperties
    <3>4. 1 \in 1 .. Len(oosPackets) /\ 1 \in DOMAIN oosPackets
        BY <3>2, <3>3
    <3>5. D \in Pieces
        BY <1>2, <3>4, ElementOfSeq
    <3> QED
        BY <3>2, <3>4, <3>5
  <2>2. D.pos \in Nat /\ D.size \in Nat
      BY <1>3, <2>1, AtType
  <2>3. D.pos + D.size = N
      BY <1>16 DEF Line, LinedUp
  <2>4. Fits(D, N, r, e)
      BY <1>2, <2>1 DEF AllFit
  <2>5. \A i \in 1 .. z : Apart(D, live[i], N)
      BY <1>2, <1>4, <2>1 DEF NoneMeet
  <2>6. \E i \in 1 .. z - 1 : D.pos = live[i].pos + live[i].size
      BY <1>16 DEF Line, LinedUp
  <2> HIDE DEF D, e
  <2>7. D.size >= 1 /\ Ahead(At(D, N), N, r) + D.size <= e
      BY <2>4 DEF Fits
  <2>8. At(D, N) = D.pos
      BY <1>3, <2>2, <2>3, <2>7 DEF At
  <2>9. r <= D.pos
      BY <1>3, <1>7, <1>8, <2>2, <2>3, <2>7, <2>8 DEF Ahead
  <2>10. ASSUME NEW i \in 1 .. z
         PROVE  live[i].pos # D.pos
    <3>1. Apart(D, live[i], N)
        BY <2>5
    <3> QED
        BY <1>3, <1>5, <2>2, <2>3, <2>7, <2>8, <3>1 DEF Apart
  <2>11. r < D.pos
      BY <1>3, <1>6, <1>7, <2>2, <2>9, <2>10
  <2>12. Apart(D, p, N)
      BY <1>6, <2>5
  <2>13. p.pos + p.size <= D.pos
      BY <1>3, <1>7, <1>8, <2>2, <2>3, <2>7, <2>8, <2>11, <2>12 DEF Apart
  <2>14. z > 1
      BY <1>4, <2>6
  <2> QED
      BY <2>1, <2>2, <2>3, <2>6, <2>7, <2>8, <2>10, <2>11, <2>13, <2>14
<1>17. /\ H \in Seq(Pieces) /\ Len(H) = Len(oosPackets) + 1 /\ H[1] = p
       /\ \A i \in 1 .. Len(oosPackets) : H[i + 1] = oosPackets[i]
  <2>1. ASSUME NEW i \in DOMAIN oosPackets
        PROVE  ~Below(oosPackets[i], p)
    <3>1. oosPackets # <<>>
        OBVIOUS
    <3>2. i = 1
        BY <1>2, <1>16, <3>1, LenProperties
    <3> QED
        BY <1>3, <1>7, <1>16, <3>1, <3>2 DEF Below
  <2> QED
      BY <1>2, <1>8, <2>1, PushFirst
<1> HIDE DEF c, H
<1>18. CASE oosPackets = <<>>
  <2>1. Len(H) = 1
      BY <1>17, <1>18
  <2>2. k = 1
      BY <1>7, <1>17, <2>1, PoppedOne
  <2> HIDE DEF k
  <2>3. c.readPos = After(p, N) /\ c.full = FALSE
    <3>1. c.full = FALSE
      <4>1. k # 0
          BY <2>2
      <4> QED
          BY <1>11, <4>1, Zenon
    <3> DEFINE E == p.pos + p.size
    <3>2. c.readPos = IF E >= N THEN E - N ELSE E
        BY <1>11, <1>17, <2>2
    <3>3. After(p, N) = IF E = N THEN 0 ELSE E
        BY DEF After
    <3>4. E \in Nat /\ E <= N
        BY <1>8
    <3> HIDE DEF E
    <3>5. c.readPos = After(p, N)
        BY <1>3, <3>2, <3>3, <3>4
    <3> QED
        BY <3>1, <3>5
  <2>4. c.heap = <<>>
      BY <1>11, <2>1, <2>2, SubSeqEmpty
  <2>5. \A i \in 1 .. z - 1 : live[i + 1].pos = After(live[i], N)
      BY <1>13, <1>18 DEF Follows
  <2>6. LinedUp(N, After(p, N), w, FALSE, <<>>, L)
    <3>1. L = <<>> => After(p, N) = w
        BY <1>12, <1>14
    <3>2. L # <<>> => L[1].pos = After(p, N) /\ After(L[Len(L)], N) = w
      <4> SUFFICES ASSUME L # <<>>
                   PROVE  L[1].pos = After(p, N) /\ After(L[Len(L)], N) = w
          OBVIOUS
      <4>1. z > 1 /\ 1 \in 1 .. z - 1
          BY <1>4, <1>14
      <4>2. L[1] = live[1 + 1] /\ live[1 + 1].pos = After(live[1], N)
          BY <1>10, <2>5, <4>1
      <4> QED
          BY <1>15, <4>1, <4>2
    <3>3. \A i \in 1 .. Len(L) - 1 : Follows(L[i], L[i + 1], <<>>, N)
      <4> SUFFICES ASSUME NEW i \in 1 .. Len(L) - 1
                   PROVE  Follows(L[i], L[i + 1], <<>>, N)
          OBVIOUS
      <4> DEFINE j == i + 1
      <4>1. i \in 1 .. z - 1 /\ j \in 1 .. z - 1
          BY <1>4, <1>10
      <4>2. L[i] = live[j] /\ L[j] = live[j + 1] /\ live[j + 1].pos = After(live[j], N)
          BY <1>10, <2>5, <4>1
      <4> QED
          BY <4>2 DEF Follows
    <3>4. Len(<<>>) <= 1
        OBVIOUS
    <3> QED
        BY <3>1, <3>2, <3>3, <3>4, Zenon DEF LinedUp
  <2> QED
      BY <1>9, <2>3, <2>4, <2>6 DEF Line
<1>19. CASE oosPackets # <<>> /\ D.pos = p.pos + p.size
  <2>1. Len(H) = 2 /\ H[2] = D
    <3>1. 1 \in 1 .. Len(oosPackets) /\ Len(oosPackets) = 1
        BY <1>16, <1>19
    <3>2. H[1 + 1] = oosPackets[1]
        BY <1>17, <3>1
    <3> QED
        BY <1>17, <3>1, <3>2
  <2>2. k = 2
      BY <1>7, <1>17, <1>19, <2>1, PoppedTwo
  <2> HIDE DEF k
  <2>3. c.readPos = 0 /\ c.full = FALSE
    <3>1. c.full = FALSE
      <4>1. k # 0
          BY <2>2
      <4> QED
          BY <1>11, <4>1, Zenon
    <3> DEFINE E == D.pos + D.size
    <3>2. c.readPos = IF E >= N THEN E - N ELSE E
        BY <1>11, <2>1, <2>2
    <3>3. E = N
        BY <1>16, <1>19
    <3> HIDE DEF E
    <3>4. c.readPos = 0
        BY <1>3, <3>2, <3>3
    <3> QED
        BY <3>1, <3>4
  <2>4. c.heap = <<>>
      BY <1>11, <2>1, <2>2, SubSeqEmpty
  <2>5. ASSUME NEW i \in 1 .. z - 1, i # 1
        PROVE  live[i + 1].pos = After(live[i], N)
    <3>1. i \in 1 .. z /\ i \in DOMAIN live
        BY <1>4
    <3>2. Apart(live[1], live[i], N)
        BY <1>2, <2>5, <3>1 DEF AllApart
    <3>3. D.pos # live[i].pos + live[i].size
      <4> DEFINE a == p.pos
                 s == p.size
                 b == live[i].pos
                 u == live[i].size
      <4>1. a \in Nat /\ s \in Nat /\ s >= 1 /\ b \in Nat /\ u \in Nat /\ u >= 1
          BY <1>5, <1>8, <3>1
      <4>2. a + s <= b \/ b + u <= a
          BY <1>5, <1>8, <3>1, <3>2 DEF Apart
      <4>3. D.pos = a + s
          BY <1>19
      <4> HIDE DEF a, s, b, u, D
      <4>4. D.pos # b + u
          BY <4>1, <4>2, <4>3
      <4> QED
          BY <4>4 DEF b, u
    <3> QED
        BY <1>13, <3>3 DEF Follows
  <2>6. 1 \in 1 .. z - 1 /\ 1 + 1 \in 1 .. z
      BY <1>4, <1>16, <1>19
  <2>7. live[1 + 1].pos = 0
    <3>1. Follows(live[1], live[1 + 1], oosPackets, N)
        BY <1>13, <2>6
    <3>2. After(live[1], N) = D.pos
        BY SMTT(40), <1>3, <1>8, <1>16, <1>19 DEF After
    <3>3. live[1 + 1].pos # D.pos
        BY <1>16, <1>19, <2>6
    <3> QED
        BY <3>1, <3>2, <3>3 DEF Follows
  <2>8. LinedUp(N, 0, w, FALSE, <<>>, L)
    <3>1. L # <<>> /\ L[1].pos = 0 /\ After(L[Len(L)], N) = w
      <4>1. z > 1
          BY <1>16, <1>19
      <4>2. L[1] = live[1 + 1]
          BY <1>10, <2>6
      <4> QED
          BY <1>4, <1>14, <1>15, <2>7, <4>1, <4>2
    <3>2. \A i \in 1 .. Len(L) - 1 : Follows(L[i], L[i + 1], <<>>, N)
      <4> SUFFICES ASSUME NEW i \in 1 .. Len(L) - 1
                   PROVE  Follows(L[i], L[i + 1], <<>>, N)
          OBVIOUS
      <4> DEFINE j == i + 1
      <4>1. i \in 1 .. z - 1 /\ j \in 1 .. z - 1 /\ j # 1
          BY <1>4, <1>10
      <4>2. L[i] = live[j] /\ L[j] = live[j + 1] /\ live[j + 1].pos = After(live[j], N)
          BY <1>10, <2>5, <4>1
      <4> QED
          BY <4>2 DEF Follows
    <3>3. Len(<<>>) <= 1
        OBVIOUS
    <3> QED
        BY <3>1, <3>2, <3>3, Zenon DEF LinedUp
  <2> QED
      BY <1>9, <2>3, <2>4, <2>8 DEF Line
<1>20. CASE oosPackets # <<>> /\ D.pos # p.pos + p.size
  <2>1. Len(H) = 2 /\ H[2] = D /\ Len(oosPackets) = 1
    <3>1. 1 \in 1 .. Len(oosPackets) /\ Len(oosPackets) = 1
        BY <1>16, <1>20
    <3>2. H[1 + 1] = oosPackets[1]
        BY <1>17, <3>1
    <3> QED
        BY <1>17, <3>1, <3>2
  <2>2. k = 1
      BY <1>7, <1>17, <1>20, <2>1, PoppedOne
  <2> HIDE DEF k
  <2>3. c.readPos = p.pos + p.size /\ c.full = FALSE /\ After(p, N) = p.pos + p.size
    <3>1. c.full = FALSE
      <4>1. k # 0
          BY <2>2
      <4> QED
          BY <1>11, <4>1, Zenon
    <3> DEFINE E == p.pos + p.size
    <3>2. c.readPos = IF E >= N THEN E - N ELSE E
        BY <1>11, <1>17, <2>2
    <3>3. After(p, N) = IF E = N THEN 0 ELSE E
        BY DEF After
    <3>4. E \in Nat /\ E < N
      <4>1. /\ D.pos \in Nat /\ D.size \in Nat /\ D.size >= 1
            /\ D.pos + D.size = N /\ E <= D.pos
          BY <1>16, <1>20
      <4>2. E \in Nat
          BY <1>8
      <4> HIDE DEF D, E
      <4> QED
          BY <1>3, <4>1, <4>2
    <3> HIDE DEF E
    <3>5. c.readPos = E /\ After(p, N) = E
        BY <1>3, <3>2, <3>3, <3>4
    <3> QED
        BY <3>1, <3>5 DEF E
  <2>4. c.heap = SubSeq(H, 1 + 1, Len(H))
      BY <1>11, <2>2
  <2> DEFINE G == SubSeq(H, 1 + 1, Len(H))
  <2>5. G \in Seq(Pieces) /\ Len(G) = 1 /\ G[1] = D /\ G # <<>>
    <3>1. 1 \in 0 .. Len(H)
        BY <2>1
    <3>2. /\ G \in Seq(Pieces) /\ Len(G) = Len(H) - 1
          /\ \A i \in 1 .. Len(H) - 1 : G[i] = H[1 + i]
        BY <1>17, <3>1, Cut
    <3> QED
        BY <2>1, <3>2
  <2> HIDE DEF G
  <2>6. ASSUME NEW i \in 1 .. z - 1
        PROVE  Follows(live[i], live[i + 1], G, N)
      BY <1>13, <2>5 DEF Follows
  <2>7. 1 \in 1 .. z - 1
      BY <1>4, <1>16, <1>20
  <2>8. live[1 + 1].pos = p.pos + p.size
      BY <1>20, <2>3, <2>5, <2>6, <2>7 DEF Follows
  <2>9. LinedUp(N, p.pos + p.size, w, FALSE, G, L)
    <3>1. L # <<>> /\ L[1].pos = p.pos + p.size /\ After(L[Len(L)], N) = w
      <4>1. z > 1
          BY <1>16, <1>20
      <4>2. L[1] = live[1 + 1]
          BY <1>10, <2>7
      <4> QED
          BY <1>4, <1>14, <1>15, <2>8, <4>1, <4>2
    <3>2. \A i \in 1 .. Len(L) - 1 : Follows(L[i], L[i + 1], G, N)
      <4> SUFFICES ASSUME NEW i \in 1 .. Len(L) - 1
                   PROVE  Follows(L[i], L[i + 1], G, N)
          OBVIOUS
      <4> DEFINE j == i + 1
      <4>1. i \in 1 .. z - 1 /\ j \in 1 .. z - 1
          BY <1>4, <1>10
      <4>2. L[i] = live[j] /\ L[j] = live[j + 1] /\ Follows(live[j], live[j + 1], G, N)
          BY <1>10, <2>6, <4>1
      <4> QED
          BY <4>2
    <3>3. Len(G) <= 1
        BY <2>5
    <3>4. G[1].pos + G[1].size = N
        BY <1>16, <1>20, <2>5
    <3>5. \E i \in 1 .. Len(L) - 1 : G[1].pos = L[i].pos + L[i].size
      <4>1. PICK i \in 1 .. z - 1 : D.pos = live[i].pos + live[i].size
          BY <1>16, <1>20
      <4>2. i # 1
          BY <1>20, <4>1
      <4> DEFINE j == i - 1
      <4>3. j \in 1 .. Len(L) - 1 /\ j \in 1 .. z - 1 /\ j + 1 = i
          BY <1>4, <1>10, <4>2
      <4>4. L[j] = live[j + 1]
          BY <1>10, <4>3
      <4>5. L[j] = live[i]
          BY <4>3, <4>4
      <4> QED
          BY <2>5, <4>1, <4>3, <4>5
    <3> QED
        BY <3>1, <3>2, <3>3, <3>4, <3>5, Zenon DEF LinedUp
  <2> QED
      BY <1>9, <2>3, <2>4, <2>9 DEF Line, G
<1> QED
    BY <1>18, <1>19, <1>20

(* The rest of resize: nothing is lent before or after.                    *)
LEMMA LineReallocate ==
    ASSUME RingInv, NEW n \in Nat \ {0}, Reallocate(n)
    PROVE  Line'
<1>1. /\ readPos = writePos /\ ~isFull /\ readPos' = 0 /\ writePos' = 0
      /\ UNCHANGED <<isFull, oosPackets, live>>
    BY DEF Reallocate, Empty
<1>2. isFull = FALSE /\ RingOK(sizeInBytes, readPos, readPos, FALSE, oosPackets, live)
    BY <1>1 DEF RingInv, RingOK, PlaceOK
<1>3. oosPackets' = <<>> /\ live' = <<>> /\ isFull' = FALSE
    BY <1>1, <1>2, EmptyRing
<1>4. LinedUp(sizeInBytes', 0, 0, FALSE, <<>>, <<>>)
    BY DEF LinedUp
<1> QED
    BY <1>1, <1>3, <1>4 DEF Line

(* Every step keeps the line as long as packets are destroyed oldest first. *)
LEMMA NextLine ==
    ASSUME PacketBufferAssumption, 0 \notin PacketSizes, RingInv, LineInv, [BufferNext]_bufferVars
    PROVE  LineInv'
<1>1. ASSUME NEW n \in PacketSizes, CreatePacket(n)
      PROVE  LineInv'
  <2> SUFFICES ASSUME inOrder'
               PROVE  Line'
      BY DEF LineInv, Line
  <2>1. n \in Nat /\ n >= 1 /\ Line
      BY <1>1 DEF PacketBufferAssumption, CreatePacket, LineInv, Line
  <2>2. CASE WriteHere(n)
    <3> DEFINE w == IF writePos + n = sizeInBytes THEN 0 ELSE writePos + n
    <3>1. /\ writePos' = w /\ live' = Append(live, Piece(writePos, n))
          /\ UNCHANGED <<sizeInBytes, readPos, oosPackets>>
        BY <2>2 DEF WriteHere
    <3>2. LinedUp(sizeInBytes, readPos, w, isFull', oosPackets, Append(live, Piece(writePos, n)))
        BY <2>1, LineWriteHere DEF RingInv, Line
    <3> HIDE DEF w
    <3> QED
        BY <3>1, <3>2 DEF Line
  <2>3. CASE WriteAtBeginning(n)
      BY <2>1, <2>3, LineWriteAtBeginning
  <2> QED
      BY <1>1, <2>2, <2>3 DEF CreatePacket, Write
<1>2. ASSUME NEW i \in DOMAIN live, Release(i)
      PROVE  LineInv'
  <2> SUFFICES ASSUME inOrder'
               PROVE  Line'
      BY DEF LineInv, Line
  <2>1. i = 1 /\ Line
      BY <1>2 DEF Release, LineInv, Line
  <2> QED
      BY <1>2, <2>1, LineRelease
<1>3. ASSUME NEW r \in Resizers, NEW n \in NewSizes, ResizeBegin(r, n)
      PROVE  LineInv'
    BY <1>3 DEF ResizeBegin, ring, LineInv
<1>4. ASSUME NEW r \in Resizers, NEW n \in NewSizes, ResizeAtOnce(r, n)
      PROVE  LineInv'
  <2>1. n \in Nat \ {0} /\ Reallocate(n)
      BY <1>4 DEF PacketBufferAssumption, ResizeAtOnce
  <2> QED
      BY <2>1, LineReallocate DEF LineInv, Line
<1>5. ASSUME NEW r \in Resizers, ResizeEnd(r)
      PROVE  LineInv'
  <2>1. resizing[r] \in Nat \ {0} /\ Reallocate(resizing[r])
      BY <1>5 DEF RingInv, ResizeEnd
  <2> QED
      BY <2>1, LineReallocate DEF LineInv, Line
<1>6. CASE UNCHANGED bufferVars
    BY <1>6 DEF bufferVars, ring, LineInv
<1> QED
    BY <1>1, <1>2, <1>3, <1>4, <1>5, <1>6 DEF BufferNext

(* EmptyExactlyWhenIdle for every size of the buffer: the predicate resize *)
(* waits for holds only when no packet uses the memory and no piece waits  *)
(* in the heap; and it does hold once every packet is destroyed, if that   *)
(* happened oldest first.                                                  *)
THEOREM EmptyMeansIdle ==
    ASSUME 0 \notin PacketSizes
    PROVE  BufferSpec => []EmptyExactlyWhenIdle
<1>1. BufferInit => RingInv /\ LineInv
  <2>1. BufferInit => RingInv
      BY PacketBufferAssumption, InitRing
  <2>2. LinedUp(InitialSize, 0, 0, FALSE, <<>>, <<>>)
      BY DEF LinedUp
  <2>3. BufferInit => LineInv
      BY <2>2 DEF BufferInit, LineInv
  <2> QED
      BY <2>1, <2>3
<1>2. RingInv /\ LineInv /\ [BufferNext]_bufferVars => RingInv' /\ LineInv'
    BY PacketBufferAssumption, NextRing, NextLine
<1>3. RingInv /\ LineInv => EmptyExactlyWhenIdle
  <2> SUFFICES ASSUME RingInv, LineInv
               PROVE  EmptyExactlyWhenIdle
      OBVIOUS
  <2>1. ASSUME Empty
        PROVE  live = <<>> /\ oosPackets = <<>>
    <3>1. readPos = writePos /\ isFull = FALSE
        BY <2>1 DEF Empty, RingInv, RingOK, PlaceOK
    <3>2. RingOK(sizeInBytes, readPos, readPos, FALSE, oosPackets, live)
        BY <3>1 DEF RingInv
    <3> QED
        BY <3>2, EmptyRing
  <2>2. ASSUME inOrder, live = <<>>
        PROVE  Empty
      BY <2>2 DEF LineInv, LinedUp, Empty
  <2> QED
      BY <2>1, <2>2 DEF EmptyExactlyWhenIdle
<1> QED
    BY <1>1, <1>2, <1>3, PTL DEF BufferSpec, BufferSafe
=============================================================================
