------------------------- MODULE MainThreadLoopProofs -------------------------
(***************************************************************************)
(* Proofs about MainThreadLoop for any number of works, calls of stop and, *)
(* but for the order of execution, threads that run the loop.              *)
(***************************************************************************)
EXTENDS MainThreadLoop, FiniteSetTheorems, TLAPS

--------------------------------------------------------------------------------
(***************************************************************************)
(* Lists.                                                                  *)
(***************************************************************************)
Once(w, s) == \A i, j \in DOMAIN s : s[i] = w /\ s[j] = w => i = j

(* A work is in a list that was extended if it was there or was added.     *)
LEMMA ListAppend ==
    ASSUME NEW S, NEW s \in Seq(S), NEW x \in S, NEW w
    PROVE  /\ Append(s, x) \in Seq(S)
           /\ InList(w, Append(s, x)) <=> InList(w, s) \/ w = x
           /\ Once(w, s) /\ (w = x => ~InList(w, s)) => Once(w, Append(s, x))
<1>1. /\ Append(s, x) \in Seq(S) /\ DOMAIN Append(s, x) = 1 .. Len(s) + 1 /\ DOMAIN s = 1 .. Len(s)
      /\ Len(s) \in Nat
      /\ \A i \in 1 .. Len(s) : Append(s, x)[i] = s[i]
      /\ Append(s, x)[Len(s) + 1] = x
    OBVIOUS
<1>2. \A i \in 1 .. Len(s) + 1 : i \in 1 .. Len(s) \/ i = Len(s) + 1
    BY <1>1
<1>3. Len(s) + 1 \in 1 .. Len(s) + 1 /\ 1 .. Len(s) \subseteq 1 .. Len(s) + 1
    BY <1>1
<1>4. InList(w, Append(s, x)) <=> InList(w, s) \/ w = x
    BY <1>1, <1>2, <1>3 DEF InList
<1>5. Once(w, s) /\ (w = x => ~InList(w, s)) => Once(w, Append(s, x))
    BY <1>1, <1>2, <1>3 DEF Once, InList
<1> QED
    BY <1>1, <1>4, <1>5

(* The first of a list and the others.                                     *)
LEMMA ListTail ==
    ASSUME NEW S, NEW s \in Seq(S), s # << >>, NEW w
    PROVE  /\ Head(s) \in S /\ Tail(s) \in Seq(S)
           /\ InList(w, s) <=> InList(w, Tail(s)) \/ w = Head(s)
           /\ Once(w, s) => Once(w, Tail(s)) /\ (w = Head(s) => ~InList(w, Tail(s)))
<1>1. /\ Tail(s) \in Seq(S) /\ Head(s) = s[1] /\ Head(s) \in S
      /\ Len(s) \in Nat \ {0} /\ DOMAIN s = 1 .. Len(s) /\ DOMAIN Tail(s) = 1 .. Len(s) - 1
      /\ \A i \in 1 .. Len(s) - 1 : Tail(s)[i] = s[i + 1]
    OBVIOUS
<1>2. /\ 1 \in 1 .. Len(s)
      /\ \A i \in 1 .. Len(s) - 1 : i + 1 \in 1 .. Len(s) /\ i + 1 # 1
      /\ \A i \in 1 .. Len(s) : i = 1 \/ i - 1 \in 1 .. Len(s) - 1
      /\ \A i \in 1 .. Len(s) : (i - 1) + 1 = i
    BY <1>1
<1>3. InList(w, Tail(s)) => InList(w, s)
    BY <1>1, <1>2 DEF InList
<1>4. InList(w, s) => InList(w, Tail(s)) \/ w = Head(s)
  <2> SUFFICES ASSUME NEW i \in 1 .. Len(s), s[i] = w PROVE InList(w, Tail(s)) \/ w = Head(s)
      BY <1>1 DEF InList
  <2>1. CASE i = 1
      BY <1>1, <2>1
  <2>2. CASE i # 1
    <3>1. i - 1 \in DOMAIN Tail(s) /\ Tail(s)[i - 1] = w
        BY <1>1, <1>2, <2>2
    <3> QED
        BY <3>1 DEF InList
  <2> QED
      BY <2>1, <2>2
<1>5. w = Head(s) => InList(w, s)
    BY <1>1, <1>2 DEF InList
<1>6. Once(w, s) => Once(w, Tail(s))
  <2> SUFFICES ASSUME Once(w, s), NEW i \in 1 .. Len(s) - 1, NEW j \in 1 .. Len(s) - 1,
                      Tail(s)[i] = w, Tail(s)[j] = w
               PROVE  i = j
      BY <1>1 DEF Once
  <2>1. s[i + 1] = w /\ s[j + 1] = w /\ i + 1 \in DOMAIN s /\ j + 1 \in DOMAIN s
      BY <1>1, <1>2
  <2>2. i + 1 = j + 1
      BY <2>1 DEF Once
  <2> QED
      BY <1>1, <2>2
<1>7. Once(w, s) /\ w = Head(s) => ~InList(w, Tail(s))
  <2> SUFFICES ASSUME Once(w, s), w = s[1], NEW i \in 1 .. Len(s) - 1, Tail(s)[i] = w
               PROVE  FALSE
      BY <1>1 DEF InList
  <2>1. s[i + 1] = w /\ i + 1 \in DOMAIN s /\ 1 \in DOMAIN s /\ i + 1 # 1
      BY <1>1, <1>2
  <2> QED
      BY <2>1 DEF Once
<1> QED
    BY <1>1, <1>3, <1>4, <1>5, <1>6, <1>7

(* Two lists, one after the other.                                         *)
LEMMA ListConcat ==
    ASSUME NEW S, NEW p \in Seq(S), NEW q \in Seq(S), NEW w
    PROVE  /\ p \o q \in Seq(S)
           /\ InList(w, p \o q) <=> InList(w, p) \/ InList(w, q)
           /\ Once(w, p) /\ Once(w, q) /\ ~(InList(w, p) /\ InList(w, q)) => Once(w, p \o q)
<1>1. /\ p \o q \in Seq(S) /\ DOMAIN (p \o q) = 1 .. Len(p) + Len(q)
      /\ Len(p) \in Nat /\ Len(q) \in Nat /\ DOMAIN p = 1 .. Len(p) /\ DOMAIN q = 1 .. Len(q)
      /\ \A i \in 1 .. Len(p) + Len(q) : (p \o q)[i] = IF i <= Len(p) THEN p[i] ELSE q[i - Len(p)]
    OBVIOUS
<1>2. \A i \in 1 .. Len(p) + Len(q) :
          \/ i \in 1 .. Len(p) /\ (p \o q)[i] = p[i]
          \/ /\ i \notin 1 .. Len(p) /\ i - Len(p) \in 1 .. Len(q) /\ (p \o q)[i] = q[i - Len(p)]
             /\ (i - Len(p)) + Len(p) = i
    BY <1>1
<1>3. /\ \A i \in 1 .. Len(p) : i \in 1 .. Len(p) + Len(q) /\ (p \o q)[i] = p[i]
      /\ \A i \in 1 .. Len(q) : i + Len(p) \in 1 .. Len(p) + Len(q) /\ (p \o q)[i + Len(p)] = q[i]
  <2>1. \A i \in 1 .. Len(p) : i \in 1 .. Len(p) + Len(q) /\ (p \o q)[i] = p[i]
      BY <1>1
  <2>2. ASSUME NEW i \in 1 .. Len(q)
        PROVE  i + Len(p) \in 1 .. Len(p) + Len(q) /\ (p \o q)[i + Len(p)] = q[i]
    <3>1. i + Len(p) \in 1 .. Len(p) + Len(q) /\ ~(i + Len(p) <= Len(p)) /\ (i + Len(p)) - Len(p) = i
        BY <1>1
    <3>2. (p \o q)[i + Len(p)] = q[(i + Len(p)) - Len(p)]
        BY <1>1, <3>1
    <3> QED
        BY <3>1, <3>2
  <2> QED
      BY <2>1, <2>2
<1>4. InList(w, p \o q) => InList(w, p) \/ InList(w, q)
  <2> SUFFICES ASSUME NEW i \in 1 .. Len(p) + Len(q), (p \o q)[i] = w PROVE InList(w, p) \/ InList(w, q)
      BY <1>1 DEF InList
  <2> QED
      BY <1>1, <1>2 DEF InList
<1>5. InList(w, p) \/ InList(w, q) => InList(w, p \o q)
    BY <1>1, <1>3 DEF InList
<1>6. Once(w, p) /\ Once(w, q) /\ ~(InList(w, p) /\ InList(w, q)) => Once(w, p \o q)
  <2> SUFFICES ASSUME Once(w, p), Once(w, q), ~(InList(w, p) /\ InList(w, q)),
                      NEW i \in 1 .. Len(p) + Len(q), NEW j \in 1 .. Len(p) + Len(q),
                      (p \o q)[i] = w, (p \o q)[j] = w
               PROVE  i = j
      BY <1>1 DEF Once
  <2>1. CASE i \in 1 .. Len(p) /\ j \in 1 .. Len(p)
      BY <1>1, <1>2, <2>1 DEF Once
  <2>2. CASE i \notin 1 .. Len(p) /\ j \notin 1 .. Len(p)
    <3>1. i - Len(p) = j - Len(p)
        BY <1>1, <1>2, <2>2 DEF Once
    <3> QED
        BY <1>1, <3>1
  <2>3. CASE i \in 1 .. Len(p) /\ j \notin 1 .. Len(p)
      BY <1>1, <1>2, <2>3 DEF InList
  <2>4. CASE i \notin 1 .. Len(p) /\ j \in 1 .. Len(p)
      BY <1>1, <1>2, <2>4 DEF InList
  <2> QED
      BY <2>1, <2>2, <2>3, <2>4
<1> QED
    BY <1>1, <1>4, <1>5, <1>6

(* A list without works.                                                   *)
LEMMA ListEmpty == \A w : ~InList(w, << >>) /\ Once(w, << >>)
BY DEF InList, Once

--------------------------------------------------------------------------------
(***************************************************************************)
(* Types.  Between iterations a thread has no works in its hands.          *)
(***************************************************************************)
HandsEmpty == \A t \in Runners : pc[t] # "executing" => currentWork[t] = << >> /\ repeatWork[t] = << >>
LoopTypes == LoopTypeOK /\ HandsEmpty

(* A new loop has the types it keeps.                                      *)
LEMMA InitLoopTypes == LoopInit => LoopTypes
<1> SUFFICES ASSUME LoopInit PROVE LoopTypes
    OBVIOUS
<1>1. << >> \in Seq(Works) /\ << >> \in Seq(Repetitive)
    OBVIOUS
<1>2. LoopTypeOK
    BY <1>1 DEF LoopInit, LoopTypeOK
<1>3. HandsEmpty
    BY DEF LoopInit, HandsEmpty
<1> QED
    BY <1>2, <1>3 DEF LoopTypes

(* Every step keeps them.                                                  *)
LEMMA NextLoopTypes == LoopTypes /\ [LoopNext]_loopVars => LoopTypes'
<1> SUFFICES ASSUME LoopTypes, [LoopNext]_loopVars PROVE LoopTypes'
    OBVIOUS
<1> USE DEF LoopTypes
<1>0. OneShot \cup Repetitive \subseteq Works /\ Repetitive \subseteq Works /\ Stop \in Works
    BY DEF Works
<1>1. ASSUME NEW w \in OneShot \cup Repetitive, ScheduleTask(w) PROVE LoopTypes'
    BY <1>0, <1>1 DEF ScheduleTask, LoopTypeOK, HandsEmpty
<1>2. CASE RequestStop
    BY <1>0, <1>2 DEF RequestStop, LoopTypeOK, HandsEmpty
<1>3. ASSUME NEW t \in Runners, RunBegin(t) PROVE LoopTypes'
    BY <1>3 DEF RunBegin, LoopTypeOK, HandsEmpty
<1>4. ASSUME NEW t \in Runners, RunIterationBegin(t) PROVE LoopTypes'
    BY <1>4 DEF RunIterationBegin, SwapQueue, LoopTypeOK, HandsEmpty
<1>5. ASSUME NEW t \in Runners, WaitEnd(t) PROVE LoopTypes'
    BY <1>5 DEF WaitEnd, SwapQueue, LoopTypeOK, HandsEmpty
<1>6. ASSUME NEW t \in Runners, ExecuteWork(t) PROVE LoopTypes'
  <2>0. currentWork[t] \in Seq(Works) /\ currentWork[t] # << >>
      BY <1>6 DEF ExecuteWork, LoopTypeOK
  <2>0a. Head(currentWork[t]) \in Works /\ Tail(currentWork[t]) \in Seq(Works)
      BY <2>0, ListTail
  <2>1. PICK w, q : /\ w = Head(currentWork[t]) /\ q = Tail(currentWork[t]) /\ w \in Works /\ q \in Seq(Works)
                    /\ currentWork' = [currentWork EXCEPT ![t] = q] /\ pc[t] = "executing"
      BY <1>6, <2>0a DEF ExecuteWork
  <2>2. \/ done' = Append(done, w) /\ UNCHANGED <<running, repeatWork>>
        \/ w \in Repetitive /\ repeatWork' = [repeatWork EXCEPT ![t] = Append(@, w)] /\ UNCHANGED <<running, done>>
        \/ running' = FALSE /\ UNCHANGED <<done, repeatWork>>
      BY <1>6, <2>1 DEF ExecuteWork
  <2>3. UNCHANGED <<workQueue, pc, mode, submitted, stops, asked>>
      BY <1>6 DEF ExecuteWork
  <2>4a. done' \in Seq(Works)
    <3>1. done \in Seq(Works)
        BY DEF LoopTypeOK
    <3>2. Append(done, w) \in Seq(Works)
        BY <2>1, <3>1, ListAppend
    <3> QED
        BY <2>2, <3>1, <3>2
  <2>4b. repeatWork' \in [Runners -> Seq(Repetitive)]
    <3>1. CASE w \in Repetitive /\ repeatWork' = [repeatWork EXCEPT ![t] = Append(@, w)]
      <4>1. PICK r \in Seq(Repetitive) : r = repeatWork[t]
          BY DEF LoopTypeOK
      <4>2. PICK z \in Seq(Repetitive) : z = Append(r, w)
        <5>1. Append(r, w) \in Seq(Repetitive)
            BY <3>1, <4>1, ListAppend
        <5> QED
            BY <5>1, Zenon
      <4>3. repeatWork' = [repeatWork EXCEPT ![t] = z]
          BY <3>1, <4>1, <4>2
      <4> QED
          BY <4>2, <4>3 DEF LoopTypeOK
    <3>2. CASE repeatWork' = repeatWork
        BY <3>2 DEF LoopTypeOK
    <3> QED
        BY <2>2, <3>1, <3>2
  <2>4c. currentWork' \in [Runners -> Seq(Works)] /\ running' \in BOOLEAN
      BY <2>1, <2>2 DEF LoopTypeOK
  <2>4. LoopTypeOK'
      BY <2>3, <2>4a, <2>4b, <2>4c DEF LoopTypeOK
  <2>5. HandsEmpty'
      BY <2>1, <2>2, <2>3 DEF LoopTypeOK, HandsEmpty
  <2> QED
      BY <2>4, <2>5
<1>7. ASSUME NEW t \in Runners, EndIteration(t) PROVE LoopTypes'
  <2>1. PICK q \in Seq(Works) : q = repeatWork[t] /\ currentWork[t] = << >>
      BY <1>0, <1>7 DEF EndIteration, LoopTypeOK
  <2>2. workQueue' \in Seq(Works)
      BY <1>7, <2>1 DEF EndIteration, LoopTypeOK
  <2>2a. repeatWork' \in [Runners -> Seq(Repetitive)]
    <3>1. << >> \in Seq(Repetitive)
        OBVIOUS
    <3> QED
        BY <1>7, <3>1 DEF EndIteration, LoopTypeOK
  <2>3. LoopTypeOK'
      BY <1>7, <2>2, <2>2a DEF EndIteration, LoopTypeOK
  <2>4. HandsEmpty'
      BY <1>7, <2>1 DEF EndIteration, LoopTypeOK, HandsEmpty
  <2> QED
      BY <2>3, <2>4
<1>8. CASE UNCHANGED loopVars
    BY <1>8 DEF loopVars, LoopTypeOK, HandsEmpty
<1> QED
    BY <1>1, <1>2, <1>3, <1>4, <1>5, <1>6, <1>7, <1>8 DEF LoopNext

--------------------------------------------------------------------------------
(***************************************************************************)
(* Where a work is: at most once in every list, in at most one of them,    *)
(* and in one exactly when it was submitted.                               *)
(***************************************************************************)
OnceEach(w) ==
    /\ Once(w, workQueue) /\ Once(w, done)
    /\ \A t \in Runners : Once(w, currentWork[t]) /\ Once(w, repeatWork[t])

Apart(w) ==
    /\ ~(InList(w, workQueue) /\ InList(w, done))
    /\ \A t \in Runners :
          /\ InList(w, currentWork[t]) \/ InList(w, repeatWork[t]) =>
                 ~InList(w, workQueue) /\ ~InList(w, done)
          /\ \A u \in Runners :
                /\ ~(InList(w, currentWork[t]) /\ InList(w, repeatWork[u]))
                /\ InList(w, currentWork[t]) /\ InList(w, currentWork[u]) => t = u
                /\ InList(w, repeatWork[t]) /\ InList(w, repeatWork[u]) => t = u

Somewhere(w) ==
    InList(w, submitted) <=>
        \/ InList(w, workQueue) \/ InList(w, done)
        \/ \E t \in Runners : InList(w, currentWork[t]) \/ InList(w, repeatWork[t])

Placed(w) == OnceEach(w) /\ Apart(w) /\ Somewhere(w)
PlacedInv == \A w \in OneShot \cup Repetitive : Placed(w)

(* At first no work is submitted and none is anywhere.                     *)
LEMMA InitPlaced == LoopInit => PlacedInv
BY ListEmpty DEF LoopInit, PlacedInv, Placed, OnceEach, Apart, Somewhere

(* A step that moves a work moves it from one place to another.            *)
LEMMA SwapPlaced ==
    ASSUME LoopTypes, NEW w, Placed(w), NEW t \in Runners, pc[t] # "executing", SwapQueue(t)
    PROVE  Placed(w)'
<1>1. /\ currentWork[t] = << >> /\ repeatWork[t] = << >> /\ workQueue' = << >>
      /\ currentWork'[t] = workQueue /\ \A u \in Runners : u # t => currentWork'[u] = currentWork[u]
      /\ UNCHANGED <<repeatWork, submitted, done>>
    BY DEF SwapQueue, LoopTypes, LoopTypeOK, HandsEmpty
<1>2. /\ ~InList(w, currentWork[t]) /\ ~InList(w, repeatWork[t]) /\ ~InList(w, workQueue')
      /\ Once(w, workQueue')
    BY <1>1, ListEmpty
<1>3. OnceEach(w)'
    BY <1>1, <1>2 DEF Placed, OnceEach
<1>4. Apart(w)'
    BY <1>1, <1>2 DEF Placed, Apart
<1>5. Somewhere(w)'
    BY <1>1, <1>2 DEF Placed, Somewhere
<1> QED
    BY <1>3, <1>4, <1>5 DEF Placed

(* Executing a work moves it to done or, repeated, to repeatWork.          *)
LEMMA ExecutePlaced ==
    ASSUME LoopTypes, NEW w \in OneShot \cup Repetitive, Placed(w), NEW t \in Runners, ExecuteWork(t)
    PROVE  Placed(w)'
<1>0. PICK c \in Seq(Works) : c = currentWork[t] /\ c # << >>
    BY DEF ExecuteWork, LoopTypes, LoopTypeOK
<1>0a. Head(c) \in Works /\ Tail(c) \in Seq(Works)
    BY <1>0, ListTail
<1>1. PICK q, x : /\ c = currentWork[t] /\ c \in Seq(Works) /\ c # << >> /\ x = Head(c) /\ q = Tail(c)
                  /\ x \in Works /\ q \in Seq(Works)
                  /\ currentWork'[t] = q /\ \A u \in Runners : u # t => currentWork'[u] = currentWork[u]
    BY <1>0, <1>0a DEF ExecuteWork, LoopTypes, LoopTypeOK
<1>2. /\ InList(w, c) <=> InList(w, q) \/ w = x
      /\ Once(w, c) => Once(w, q) /\ (w = x => ~InList(w, q))
    BY <1>1, ListTail
<1>3. UNCHANGED <<workQueue, submitted>>
    BY DEF ExecuteWork
<1>4. CASE done' = Append(done, x) /\ repeatWork' = repeatWork
  <2>1. done \in Seq(Works)
      BY DEF LoopTypes, LoopTypeOK
  <2>2. /\ InList(w, done') <=> InList(w, done) \/ w = x
        /\ Once(w, done) /\ (w = x => ~InList(w, done)) => Once(w, done')
      BY <1>1, <1>4, <2>1, ListAppend
  <2>3. OnceEach(w)'
      BY <1>1, <1>2, <1>3, <1>4, <2>2 DEF Placed, OnceEach, Apart
  <2>4. Apart(w)'
      BY <1>1, <1>2, <1>3, <1>4, <2>2 DEF Placed, OnceEach, Apart
  <2>5. Somewhere(w)'
      BY <1>1, <1>2, <1>3, <1>4, <2>2 DEF Placed, Somewhere
  <2> QED
      BY <2>3, <2>4, <2>5 DEF Placed
<1>5. CASE x \in Repetitive /\ repeatWork' = [repeatWork EXCEPT ![t] = Append(@, x)] /\ done' = done
  <2>1. PICK r \in Seq(Repetitive) : r = repeatWork[t] /\ repeatWork'[t] = Append(r, x)
      BY <1>5 DEF LoopTypes, LoopTypeOK
  <2>2. /\ InList(w, Append(r, x)) <=> InList(w, r) \/ w = x
        /\ Once(w, r) /\ (w = x => ~InList(w, r)) => Once(w, Append(r, x))
      BY <1>5, <2>1, ListAppend
  <2>3. \A u \in Runners : u # t => repeatWork'[u] = repeatWork[u]
      BY <1>5 DEF LoopTypes, LoopTypeOK
  <2>4. OnceEach(w)'
      BY <1>1, <1>2, <1>3, <1>5, <2>1, <2>2, <2>3 DEF Placed, OnceEach, Apart
  <2>5. Apart(w)'
      BY <1>1, <1>2, <1>3, <1>5, <2>1, <2>2, <2>3 DEF Placed, OnceEach, Apart
  <2>6. Somewhere(w)'
      BY <1>1, <1>2, <1>3, <1>5, <2>1, <2>2, <2>3 DEF Placed, Somewhere
  <2> QED
      BY <2>4, <2>5, <2>6 DEF Placed
<1>6. CASE x = Stop /\ UNCHANGED <<done, repeatWork>>
  <2>1. w # x
      BY <1>6, LoopAssumption
  <2>2. OnceEach(w)'
      BY <1>1, <1>2, <1>3, <1>6, <2>1 DEF Placed, OnceEach
  <2>3. Apart(w)'
      BY <1>1, <1>2, <1>3, <1>6, <2>1 DEF Placed, Apart
  <2>4. Somewhere(w)'
      BY <1>1, <1>2, <1>3, <1>6, <2>1 DEF Placed, Somewhere
  <2> QED
      BY <2>2, <2>3, <2>4 DEF Placed
<1> QED
    BY <1>1, <1>4, <1>5, <1>6 DEF ExecuteWork

(* The works to be repeated return to the queue.                           *)
LEMMA EndPlaced ==
    ASSUME LoopTypes, NEW w, Placed(w), NEW t \in Runners, EndIteration(t)
    PROVE  Placed(w)'
<1>1. PICK r \in Seq(Works) : r = repeatWork[t]
    BY DEF LoopTypes, LoopTypeOK, Works
<1>2. /\ workQueue \in Seq(Works) /\ workQueue' = workQueue \o r /\ repeatWork'[t] = << >>
      /\ \A u \in Runners : u # t => repeatWork'[u] = repeatWork[u]
      /\ UNCHANGED <<currentWork, submitted, done>>
    BY <1>1 DEF EndIteration, LoopTypes, LoopTypeOK
<1>3. /\ InList(w, workQueue') <=> InList(w, workQueue) \/ InList(w, r)
      /\ Once(w, workQueue) /\ Once(w, r) /\ ~(InList(w, workQueue) /\ InList(w, r)) => Once(w, workQueue')
      /\ ~InList(w, repeatWork'[t]) /\ Once(w, repeatWork'[t])
    BY <1>1, <1>2, ListConcat, ListEmpty
<1>4. OnceEach(w)'
    BY <1>1, <1>2, <1>3 DEF Placed, OnceEach, Apart
<1>5. Apart(w)'
    BY <1>1, <1>2, <1>3 DEF Placed, OnceEach, Apart
<1>6. Somewhere(w)'
    BY <1>1, <1>2, <1>3 DEF Placed, Somewhere
<1> QED
    BY <1>4, <1>5, <1>6 DEF Placed

(* Every step leaves a work in exactly one place.                          *)
LEMMA NextPlaced == LoopTypes /\ PlacedInv /\ [LoopNext]_loopVars => PlacedInv'
<1> SUFFICES ASSUME LoopTypes, PlacedInv, [LoopNext]_loopVars, NEW w \in OneShot \cup Repetitive
             PROVE  Placed(w)'
    BY DEF PlacedInv
<1>0. Placed(w) /\ workQueue \in Seq(Works) /\ submitted \in Seq(Works)
    BY DEF PlacedInv, LoopTypes, LoopTypeOK
<1>1. ASSUME NEW v \in OneShot \cup Repetitive, ScheduleTask(v) PROVE Placed(w)'
  <2>0. v \in Works
      BY DEF Works
  <2>1. /\ InList(w, workQueue') <=> InList(w, workQueue) \/ w = v
        /\ Once(w, workQueue) /\ (w = v => ~InList(w, workQueue)) => Once(w, workQueue')
        /\ InList(w, submitted') <=> InList(w, submitted) \/ w = v
      BY <1>0, <1>1, <2>0, ListAppend DEF ScheduleTask
  <2>2. ~InList(v, submitted) /\ UNCHANGED <<currentWork, repeatWork, done>>
      BY <1>1 DEF ScheduleTask
  <2>3. w = v => ~InList(w, workQueue)
      BY <1>0, <2>2 DEF Placed, Somewhere
  <2>4. OnceEach(w)'
      BY <1>0, <2>1, <2>2, <2>3 DEF Placed, OnceEach
  <2>5. Apart(w)'
      BY <1>0, <2>1, <2>2 DEF Placed, Apart, Somewhere
  <2>6. Somewhere(w)'
      BY <1>0, <2>1, <2>2 DEF Placed, Somewhere
  <2> QED
      BY <2>4, <2>5, <2>6 DEF Placed
<1>2. CASE RequestStop
  <2>0. Stop \in Works /\ w # Stop
      BY LoopAssumption DEF Works
  <2>1. /\ InList(w, workQueue') <=> InList(w, workQueue)
        /\ Once(w, workQueue) => Once(w, workQueue')
      BY <1>0, <1>2, <2>0, ListAppend DEF RequestStop
  <2>2. UNCHANGED <<currentWork, repeatWork, done, submitted>>
      BY <1>2 DEF RequestStop
  <2> QED
      BY <1>0, <2>1, <2>2 DEF Placed, OnceEach, Apart, Somewhere
<1>3. ASSUME NEW t \in Runners, RunBegin(t) PROVE Placed(w)'
    BY <1>0, <1>3 DEF RunBegin, Placed, OnceEach, Apart, Somewhere
<1>4. ASSUME NEW t \in Runners, RunIterationBegin(t) PROVE Placed(w)'
    BY <1>0, <1>4, SwapPlaced DEF RunIterationBegin
<1>5. ASSUME NEW t \in Runners, WaitEnd(t) PROVE Placed(w)'
    BY <1>0, <1>5, SwapPlaced DEF WaitEnd
<1>6. ASSUME NEW t \in Runners, ExecuteWork(t) PROVE Placed(w)'
    BY <1>0, <1>6, ExecutePlaced
<1>7. ASSUME NEW t \in Runners, EndIteration(t) PROVE Placed(w)'
    BY <1>0, <1>7, EndPlaced
<1>8. CASE UNCHANGED loopVars
    BY <1>0, <1>8 DEF loopVars, Placed, OnceEach, Apart, Somewhere
<1> QED
    BY <1>1, <1>2, <1>3, <1>4, <1>5, <1>6, <1>7, <1>8 DEF LoopNext

(* The places of a work are as many as the lists it is in.                 *)
LEMMA PlacesCounted ==
    ASSUME NEW w, Placed(w)
    PROVE  Cardinality(Places(w)) = IF InList(w, submitted) THEN 1 ELSE 0
<1>1. \A x : x \in Places(w) <=>
          \/ \E i \in DOMAIN workQueue : workQueue[i] = w /\ x = <<"queue", i>>
          \/ \E i \in DOMAIN done : done[i] = w /\ x = <<"done", i>>
          \/ \E t \in Runners : \E i \in DOMAIN currentWork[t] : currentWork[t][i] = w /\ x = <<t, "current", i>>
          \/ \E t \in Runners : \E i \in DOMAIN repeatWork[t] : repeatWork[t][i] = w /\ x = <<t, "repeat", i>>
    BY DEF Places
<1>2. CASE ~InList(w, submitted)
  <2>1. Places(w) = {}
      BY <1>1, <1>2 DEF Placed, Somewhere, InList
  <2> QED
      BY <1>2, <2>1, FS_EmptySet
<1>3. CASE InList(w, submitted)
  <2>1. \E x : x \in Places(w)
    <3>1. CASE InList(w, workQueue)
        BY <1>1, <3>1 DEF InList
    <3>2. CASE InList(w, done)
        BY <1>1, <3>2 DEF InList
    <3>3. ASSUME NEW t \in Runners, InList(w, currentWork[t]) PROVE \E x : x \in Places(w)
        BY <1>1, <3>3 DEF InList
    <3>4. ASSUME NEW t \in Runners, InList(w, repeatWork[t]) PROVE \E x : x \in Places(w)
        BY <1>1, <3>4 DEF InList
    <3> QED
        BY <1>3, <3>1, <3>2, <3>3, <3>4 DEF Placed, Somewhere
  <2>2. ASSUME NEW x \in Places(w), NEW y \in Places(w) PROVE x = y
    <3> DEFINE InQueue(z) == \E i \in DOMAIN workQueue : workQueue[i] = w /\ z = <<"queue", i>>
               InDone(z) == \E i \in DOMAIN done : done[i] = w /\ z = <<"done", i>>
               InCurrent(z) == \E t \in Runners : \E i \in DOMAIN currentWork[t] :
                                   currentWork[t][i] = w /\ z = <<t, "current", i>>
               InRepeat(z) == \E t \in Runners : \E i \in DOMAIN repeatWork[t] :
                                  repeatWork[t][i] = w /\ z = <<t, "repeat", i>>
    <3>1. \A z : /\ InQueue(z) => InList(w, workQueue)
                 /\ InDone(z) => InList(w, done)
                 /\ InCurrent(z) => \E t \in Runners : InList(w, currentWork[t])
                 /\ InRepeat(z) => \E t \in Runners : InList(w, repeatWork[t])
        BY DEF InList
    <3>2. InQueue(x) /\ InQueue(y) => x = y
        BY DEF Placed, OnceEach, Once
    <3>3. InDone(x) /\ InDone(y) => x = y
        BY DEF Placed, OnceEach, Once
    <3>4. InCurrent(x) /\ InCurrent(y) => x = y
      <4> SUFFICES ASSUME NEW t \in Runners, NEW i \in DOMAIN currentWork[t], currentWork[t][i] = w,
                          x = <<t, "current", i>>,
                          NEW u \in Runners, NEW j \in DOMAIN currentWork[u], currentWork[u][j] = w,
                          y = <<u, "current", j>>
                   PROVE  x = y
          OBVIOUS
      <4>1. t = u
          BY DEF Placed, Apart, InList
      <4>2. i = j
          BY <4>1 DEF Placed, OnceEach, Once
      <4> QED
          BY <4>1, <4>2
    <3>5. InRepeat(x) /\ InRepeat(y) => x = y
      <4> SUFFICES ASSUME NEW t \in Runners, NEW i \in DOMAIN repeatWork[t], repeatWork[t][i] = w,
                          x = <<t, "repeat", i>>,
                          NEW u \in Runners, NEW j \in DOMAIN repeatWork[u], repeatWork[u][j] = w,
                          y = <<u, "repeat", j>>
                   PROVE  x = y
          OBVIOUS
      <4>1. t = u
          BY DEF Placed, Apart, InList
      <4>2. i = j
          BY <4>1 DEF Placed, OnceEach, Once
      <4> QED
          BY <4>1, <4>2
    <3>6. /\ InQueue(x) \/ InDone(x) \/ InCurrent(x) \/ InRepeat(x)
          /\ InQueue(y) \/ InDone(y) \/ InCurrent(y) \/ InRepeat(y)
        BY <1>1
    <3> HIDE DEF InQueue, InDone, InCurrent, InRepeat
    <3> QED
        BY <3>1, <3>2, <3>3, <3>4, <3>5, <3>6 DEF Placed, Apart
  <2>3. PICK x : x \in Places(w)
      BY <2>1
  <2>4. Places(w) = {x}
      BY <2>2, <2>3
  <2> QED
      BY <1>3, <2>4, FS_Singleton
<1> QED
    BY <1>2, <1>3

(* A work handed to scheduleTask is never lost and never there twice, with *)
(* any number of threads that run the loop, also when stop lets a second   *)
(* run begin before the first one has spliced its works back.              *)
THEOREM WorksNeverLost == LoopSafe => []WorkInOnePlace
<1>1. LoopTypes /\ PlacedInv => WorkInOnePlace
    BY PlacesCounted DEF LoopTypes, PlacedInv, WorkInOnePlace
<1> QED
    BY <1>1, InitLoopTypes, NextLoopTypes, InitPlaced, NextPlaced, PTL DEF LoopSafe

--------------------------------------------------------------------------------
(***************************************************************************)
(* Order.  What comes before what in lists put together.                   *)
(***************************************************************************)
LEMMA BeforeConcat ==
    ASSUME NEW S, NEW p \in Seq(S), NEW q \in Seq(S), NEW a, NEW b
    PROVE  Before(a, b, p \o q) <=> \/ Before(a, b, p) \/ Before(a, b, q)
                                    \/ InList(a, p) /\ InList(b, q)
<1>1. /\ p \o q \in Seq(S) /\ DOMAIN (p \o q) = 1 .. Len(p) + Len(q)
      /\ Len(p) \in Nat /\ Len(q) \in Nat /\ DOMAIN p = 1 .. Len(p) /\ DOMAIN q = 1 .. Len(q)
      /\ \A i \in 1 .. Len(p) + Len(q) : (p \o q)[i] = IF i <= Len(p) THEN p[i] ELSE q[i - Len(p)]
    OBVIOUS
<1>2. \A i \in 1 .. Len(p) + Len(q) :
          \/ i \in 1 .. Len(p) /\ (p \o q)[i] = p[i]
          \/ i > Len(p) /\ i - Len(p) \in 1 .. Len(q) /\ (p \o q)[i] = q[i - Len(p)]
    BY <1>1
<1>3. /\ \A i \in 1 .. Len(p) : i \in 1 .. Len(p) + Len(q) /\ (p \o q)[i] = p[i]
      /\ \A i \in 1 .. Len(q) : i + Len(p) \in 1 .. Len(p) + Len(q) /\ (p \o q)[i + Len(p)] = q[i]
  <2>1. \A i \in 1 .. Len(p) : i \in 1 .. Len(p) + Len(q) /\ (p \o q)[i] = p[i]
      BY <1>1
  <2>2. ASSUME NEW i \in 1 .. Len(q)
        PROVE  i + Len(p) \in 1 .. Len(p) + Len(q) /\ (p \o q)[i + Len(p)] = q[i]
    <3>1. i + Len(p) \in 1 .. Len(p) + Len(q) /\ ~(i + Len(p) <= Len(p)) /\ (i + Len(p)) - Len(p) = i
        BY <1>1
    <3>2. (p \o q)[i + Len(p)] = q[(i + Len(p)) - Len(p)]
        BY <1>1, <3>1
    <3> QED
        BY <3>1, <3>2
  <2> QED
      BY <2>1, <2>2
<1>4. ASSUME Before(a, b, p \o q)
      PROVE  Before(a, b, p) \/ Before(a, b, q) \/ (InList(a, p) /\ InList(b, q))
  <2>1. PICK i \in 1 .. Len(p) + Len(q), j \in 1 .. Len(p) + Len(q) :
            i < j /\ (p \o q)[i] = a /\ (p \o q)[j] = b
      BY <1>1, <1>4 DEF Before
  <2>2. CASE j \in 1 .. Len(p)
    <3>1. i \in 1 .. Len(p)
        BY <1>1, <2>1, <2>2
    <3>2. p[i] = a /\ p[j] = b
        BY <1>3, <2>1, <2>2, <3>1
    <3> QED
        BY <1>1, <2>1, <2>2, <3>1, <3>2 DEF Before
  <2>3. CASE j \notin 1 .. Len(p)
    <3>1. j - Len(p) \in 1 .. Len(q) /\ q[j - Len(p)] = b
        BY <1>2, <2>1, <2>3
    <3>2. CASE i \in 1 .. Len(p)
      <4>1. p[i] = a
          BY <1>3, <2>1, <3>2
      <4> QED
          BY <1>1, <3>1, <3>2, <4>1 DEF InList
    <3>3. CASE i \notin 1 .. Len(p)
      <4>1. i - Len(p) \in 1 .. Len(q) /\ q[i - Len(p)] = a
          BY <1>2, <2>1, <3>3
      <4>2. i - Len(p) < j - Len(p)
          BY <1>1, <2>1
      <4> QED
          BY <1>1, <3>1, <4>1, <4>2 DEF Before
    <3> QED
        BY <3>2, <3>3
  <2> QED
      BY <2>2, <2>3
<1>5. ASSUME Before(a, b, p) PROVE Before(a, b, p \o q)
    BY <1>1, <1>3, <1>5 DEF Before
<1>6. ASSUME Before(a, b, q) PROVE Before(a, b, p \o q)
  <2>1. PICK i \in 1 .. Len(q), j \in 1 .. Len(q) : i < j /\ q[i] = a /\ q[j] = b
      BY <1>1, <1>6 DEF Before
  <2>2. i + Len(p) < j + Len(p)
      BY <1>1, <2>1
  <2> QED
      BY <1>1, <1>3, <2>1, <2>2 DEF Before
<1>7. ASSUME InList(a, p), InList(b, q) PROVE Before(a, b, p \o q)
  <2>1. PICK i \in 1 .. Len(p), j \in 1 .. Len(q) : p[i] = a /\ q[j] = b
      BY <1>1, <1>7 DEF InList
  <2>2. i < j + Len(p)
      BY <1>1
  <2> QED
      BY <1>1, <1>3, <2>1, <2>2 DEF Before
<1> QED
    BY <1>4, <1>5, <1>6, <1>7

(* A list with one more work, and a list of one work.                      *)
LEMMA BeforeAppend ==
    ASSUME NEW S, NEW s \in Seq(S), NEW x \in S, NEW a, NEW b
    PROVE  Before(a, b, Append(s, x)) <=> Before(a, b, s) \/ (InList(a, s) /\ b = x)
<1>1. <<x>> \in Seq(S) /\ Append(s, x) = s \o <<x>>
    OBVIOUS
<1>2. ~Before(a, b, <<x>>) /\ (InList(b, <<x>>) <=> b = x)
    BY DEF Before, InList
<1>3. Before(a, b, s \o <<x>>) <=> \/ Before(a, b, s) \/ Before(a, b, <<x>>)
                                   \/ InList(a, s) /\ InList(b, <<x>>)
    BY <1>1, BeforeConcat
<1> QED
    BY <1>1, <1>2, <1>3

(* What comes before what, without the head of a list.                     *)
LEMMA BeforeTail ==
    ASSUME NEW S, NEW s \in Seq(S), s # << >>, NEW a, NEW b
    PROVE  Before(a, b, s) <=> Before(a, b, Tail(s)) \/ (a = Head(s) /\ InList(b, Tail(s)))
<1>1. Head(s) \in S /\ Tail(s) \in Seq(S)
    BY ListTail
<1>2. <<Head(s)>> \in Seq(S) /\ s = <<Head(s)>> \o Tail(s)
    BY <1>1
<1>3. ~Before(a, b, <<Head(s)>>) /\ (InList(a, <<Head(s)>>) <=> a = Head(s))
    BY DEF Before, InList
<1>4. Before(a, b, <<Head(s)>> \o Tail(s)) <=> \/ Before(a, b, <<Head(s)>>) \/ Before(a, b, Tail(s))
                                               \/ InList(a, <<Head(s)>>) /\ InList(b, Tail(s))
    BY <1>1, <1>2, BeforeConcat
<1> QED
    BY <1>2, <1>3, <1>4

(* What is done, left and waiting, read as one list.                       *)
InLine(a, b, t) ==
    \/ Before(a, b, done) \/ Before(a, b, currentWork[t]) \/ Before(a, b, workQueue)
    \/ InList(a, done) /\ InList(b, currentWork[t])
    \/ InList(a, done) /\ InList(b, workQueue)
    \/ InList(a, currentWork[t]) /\ InList(b, workQueue)

(* The order of the works done, taken and queued, by cases.                *)
LEMMA InLineMeans ==
    ASSUME LoopTypes, NEW t \in Runners, NEW a, NEW b
    PROVE  Before(a, b, done \o currentWork[t] \o workQueue) <=> InLine(a, b, t)
<1>1. PICK d \in Seq(Works), c \in Seq(Works), q \in Seq(Works) :
          d = done /\ c = currentWork[t] /\ q = workQueue
    BY DEF LoopTypes, LoopTypeOK
<1>2. d \o c \in Seq(Works) /\ (InList(a, d \o c) <=> InList(a, d) \/ InList(a, c))
    BY ListConcat
<1>3. Before(a, b, d \o c) <=> \/ Before(a, b, d) \/ Before(a, b, c)
                               \/ InList(a, d) /\ InList(b, c)
    BY BeforeConcat
<1>4. Before(a, b, (d \o c) \o q) <=> \/ Before(a, b, d \o c) \/ Before(a, b, q)
                                      \/ InList(a, d \o c) /\ InList(b, q)
    BY <1>2, BeforeConcat
<1> QED
    BY <1>1, <1>2, <1>3, <1>4 DEF InLine

(* Nothing comes before anything in the empty list.                        *)
LEMMA BeforeEmpty == \A a, b : ~Before(a, b, << >>)
BY DEF Before

OrderOf(t) == \A a, b \in OneShot : Before(a, b, submitted) => InLine(a, b, t)

(* The only thread that runs the loop keeps the order.                     *)
LEMMA NextOrder ==
    ASSUME LoopTypes, PlacedInv, NEW t, Runners = {t}, OrderOf(t), [LoopNext]_loopVars
    PROVE  OrderOf(t)'
<1> SUFFICES ASSUME NEW a \in OneShot, NEW b \in OneShot, Before(a, b, submitted')
             PROVE  InLine(a, b, t)'
    BY DEF OrderOf
<1>0. /\ workQueue \in Seq(Works) /\ submitted \in Seq(Works) /\ done \in Seq(Works)
      /\ currentWork \in [{t} -> Seq(Works)] /\ currentWork[t] \in Seq(Works)
      /\ repeatWork[t] \in Seq(Repetitive) /\ repeatWork[t] \in Seq(Works)
      /\ a # Stop /\ b # Stop /\ a \notin Repetitive /\ b \notin Repetitive
    BY LoopAssumption DEF LoopTypes, LoopTypeOK, Works
<1>1. ASSUME NEW w \in OneShot \cup Repetitive, ScheduleTask(w) PROVE InLine(a, b, t)'
  <2>0. w \in Works /\ UNCHANGED <<currentWork, done>>
      BY <1>1 DEF Works, ScheduleTask
  <2>1. /\ InList(b, workQueue') <=> InList(b, workQueue) \/ b = w
        /\ Before(a, b, workQueue') <=> Before(a, b, workQueue) \/ (InList(a, workQueue) /\ b = w)
        /\ Before(a, b, submitted') <=> Before(a, b, submitted) \/ (InList(a, submitted) /\ b = w)
      BY <1>0, <1>1, <2>0, ListAppend, BeforeAppend DEF ScheduleTask
  <2>2. InList(a, submitted) => InList(a, workQueue) \/ InList(a, done) \/ InList(a, currentWork[t])
    <3>1. ~InList(a, repeatWork[t])
        BY <1>0 DEF InList
    <3> QED
        BY <3>1 DEF PlacedInv, Placed, Somewhere
  <2> QED
      BY <2>0, <2>1, <2>2 DEF OrderOf, InLine
<1>2. CASE RequestStop
  <2>0. Stop \in Works /\ UNCHANGED <<currentWork, done, submitted>>
      BY <1>2 DEF Works, RequestStop
  <2>1. /\ InList(b, workQueue') <=> InList(b, workQueue) \/ b = Stop
        /\ Before(a, b, workQueue') <=> Before(a, b, workQueue) \/ (InList(a, workQueue) /\ b = Stop)
      BY <1>0, <1>2, <2>0, ListAppend, BeforeAppend DEF RequestStop
  <2> QED
      BY <2>0, <2>1 DEF OrderOf, InLine
<1>3. CASE RunBegin(t)
    BY <1>3 DEF RunBegin, OrderOf, InLine
<1>4. ASSUME pc[t] # "executing", SwapQueue(t) PROVE InLine(a, b, t)'
  <2>1. /\ currentWork[t] = << >> /\ workQueue' = << >> /\ currentWork'[t] = workQueue
        /\ UNCHANGED <<submitted, done>>
      BY <1>0, <1>4 DEF SwapQueue, LoopTypes, HandsEmpty
  <2>2. \A w : ~InList(w, currentWork[t]) /\ ~InList(w, workQueue')
      BY <2>1, ListEmpty
  <2>3. ~Before(a, b, currentWork[t])
      BY <2>1, BeforeEmpty
  <2> QED
      BY <2>1, <2>2, <2>3 DEF OrderOf, InLine
<1>5. CASE ExecuteWork(t)
  <2>1. PICK c \in Seq(Works) : c = currentWork[t] /\ c # << >>
      BY <1>0, <1>5 DEF ExecuteWork
  <2>2. PICK x, q : /\ x = Head(c) /\ q = Tail(c) /\ x \in Works
                    /\ currentWork'[t] = q /\ UNCHANGED <<workQueue, submitted>>
      BY <1>0, <1>5, <2>1, ListTail DEF ExecuteWork
  <2>3. /\ InList(a, c) <=> InList(a, q) \/ a = x
        /\ InList(b, c) <=> InList(b, q) \/ b = x
        /\ Before(a, b, c) <=> Before(a, b, q) \/ (a = x /\ InList(b, q))
      BY <2>1, <2>2, ListTail, BeforeTail
  <2>4. CASE done' = Append(done, x)
    <3>1. /\ InList(a, done') <=> InList(a, done) \/ a = x
          /\ InList(b, done') <=> InList(b, done) \/ b = x
          /\ Before(a, b, done') <=> Before(a, b, done) \/ (InList(a, done) /\ b = x)
        BY <1>0, <2>2, <2>4, ListAppend, BeforeAppend
    <3> QED
        BY <2>1, <2>2, <2>3, <3>1 DEF OrderOf, InLine
  <2>5. CASE (x \in Repetitive \/ x = Stop) /\ done' = done
    <3>1. a # x /\ b # x
        BY <1>0, <2>5
    <3> QED
        BY <2>1, <2>2, <2>3, <2>5, <3>1 DEF OrderOf, InLine
  <2> QED
      BY <1>5, <2>1, <2>2, <2>4, <2>5 DEF ExecuteWork
<1>6. CASE EndIteration(t)
  <2>1. workQueue' = workQueue \o repeatWork[t] /\ UNCHANGED <<currentWork, submitted, done>>
      BY <1>6 DEF EndIteration
  <2>2. /\ Before(a, b, workQueue) => Before(a, b, workQueue')
        /\ InList(b, workQueue) => InList(b, workQueue')
      BY <1>0, <2>1, ListConcat, BeforeConcat
  <2> QED
      BY <2>1, <2>2 DEF OrderOf, InLine
<1>7. CASE UNCHANGED loopVars
    BY <1>7 DEF loopVars, OrderOf, InLine
<1>8. \/ \E w \in OneShot \cup Repetitive : ScheduleTask(w)
      \/ RequestStop \/ RunBegin(t) \/ RunIterationBegin(t) \/ WaitEnd(t)
      \/ ExecuteWork(t) \/ EndIteration(t) \/ UNCHANGED loopVars
    BY DEF LoopNext
<1> QED
    BY <1>1, <1>2, <1>3, <1>4, <1>5, <1>6, <1>7, <1>8 DEF RunIterationBegin, WaitEnd

(* When one thread runs the loop, as the documentation has it, one-shot    *)
(* works are executed in the order of scheduleTask, however many iterations*)
(* they wait and whatever repeated works are spliced in between.           *)
THEOREM LoopKeepsOrder ==
    ASSUME NEW t, Runners = {t}
    PROVE  LoopSafe => []WorksInOrder
<1> DEFINE Ordered == OrderOf(t)
<1>1. LoopInit => Ordered
    BY BeforeEmpty DEF LoopInit, OrderOf
<1>2. LoopTypes /\ PlacedInv /\ Ordered /\ [LoopNext]_loopVars => Ordered'
    BY NextOrder
<1>3. LoopTypes /\ Ordered => WorksInOrder
    BY InLineMeans DEF WorksInOrder, OrderOf
<1> HIDE DEF Ordered
<1> QED
    BY <1>1, <1>2, <1>3, InitLoopTypes, NextLoopTypes, InitPlaced, NextPlaced, PTL DEF LoopSafe
=============================================================================
