----------------------- MODULE PacketNotificationProofs -----------------------
(***************************************************************************)
(* No wake-up is lost between a connection and the listener of its port,   *)
(* but the ones that find the scheduler stopped or the listener gone, for  *)
(* any number of senders, scheduler workers, listeners and packets.        *)
(***************************************************************************)
EXTENDS PacketNotification, ConnectionProofs

(* The combinations of notification methods and way of reading for which   *)
(* it holds: every one but dequeueAll with SchedulerQueueWasEmpty.         *)
SafePairing ==
    "dequeueAll" \in ReadMethods => "SchedulerQueueWasEmpty" \notin NotifyMethods["dequeueAll"]

(* NoLostWakeup is not inductive: a sender that finds queueEmpty FALSE     *)
(* keeps quiet, so it has to be known that FALSE means somebody is awake.  *)
(* That is Handshake, which the consumer keeps only if it reads with       *)
(* dequeue.                                                                *)
NoteInv ==
    /\ ConnInv
    /\ NoteTypeOK
    /\ NoLostWakeup
    /\ Handshake

(* A thread that has just enqueued leaves somebody awake.                  *)
LEMMA SenderLeavesSomeoneAwake ==
    ASSUME NoteInv, SafePairing, NEW t \in Threads, notifying[t] = "none",
           NEW n \in {QueueWasEmpty, "onThisThread", "withScheduler"},
           Owes(t, n)
    PROVE  Awake' \/ Excused'
<1>1. /\ notifying \in [Threads -> Notices]
      /\ notifying' = [notifying EXCEPT ![t] = n]
      /\ UNCHANGED <<scheduled, reading, stopped, missed, readMethod>>
    BY DEF NoteInv, NoteTypeOK, Owes
<1>2. CASE n = "wasNotEmpty" /\ "SchedulerQueueWasEmpty" \in NotifyMethods[readMethod]
  <2>1. ~queueEmpty /\ readMethod = "dequeue"
      BY <1>2, NotificationAssumption DEF SafePairing, QueueWasEmpty, NoteInv, NoteTypeOK
  <2>2. Awake \/ Excused
      BY <2>1 DEF NoteInv, Handshake
  <2>3. \A u \in Threads : WillNotify(u) => notifying'[u] = notifying[u]
      BY <1>1 DEF WillNotify
  <2> QED
      BY <1>1, <2>2, <2>3, Zenon DEF Awake, WillNotify, Excused
<1>3. CASE ~(n = "wasNotEmpty" /\ "SchedulerQueueWasEmpty" \in NotifyMethods[readMethod])
  <2>1. notifying'[t] = n
      BY <1>1
  <2>2. n \in {"wasEmpty", "wasNotEmpty", "onThisThread", "withScheduler"}
      BY DEF QueueWasEmpty
  <2>3. WillNotify(t)'
      BY <1>1, <1>3, <2>1, <2>2 DEF WillNotify
  <2> QED
      BY <2>3 DEF Awake
<1> QED
    BY <1>2, <1>3

(* A send of any kind: whatever it puts into the queue.                    *)
LEMMA SendInv ==
    ASSUME NoteInv, SafePairing, NEW t \in Threads, notifying[t] = "none",
           NEW n \in {QueueWasEmpty, "onThisThread", "withScheduler"},
           Owes(t, n), ConnInv', queueEmpty' = FALSE
    PROVE  NoteInv'
<1>1. Awake' \/ Excused'
    BY SenderLeavesSomeoneAwake
<1>2. n \in Notices
    BY DEF QueueWasEmpty, Notices
<1>3. NoteTypeOK'
    BY <1>2 DEF NoteInv, NoteTypeOK, Owes, ConnInv
<1> QED
    BY <1>1, <1>3, Zenon DEF NoteInv, NoLostWakeup, Handshake

(* A step that leaves the connection alone leaves its invariant alone.     *)
LEMMA ConnUnchanged ==
    ASSUME ConnInv, UNCHANGED connVars
    PROVE  ConnInv' /\ packets' = packets /\ queueEmpty' = queueEmpty
BY Zenon DEF connVars, ConnInv, ConnTypeOK, SamplesExact, CountersCover,
             counters, gapVars, descVars, history

(* A step that leaves the queue alone may let everybody but one sleep.     *)
LEMMA StillAwake ==
    ASSUME NoteInv, packets' = packets, queueEmpty' = queueEmpty, ConnInv', NoteTypeOK',
           Awake \/ Excused => Awake' \/ Excused', readMethod' = readMethod
    PROVE  NoteInv'
BY Zenon DEF NoteInv, NoLostWakeup, Handshake

(* notifyPacketEnqueued keeps the handshake.                               *)
LEMMA NotifyPacketEnqueuedInv ==
    ASSUME NoteInv, NEW t \in Threads, NotifyPacketEnqueued(t)
    PROVE  NoteInv'
<1>1. ConnInv' /\ packets' = packets /\ queueEmpty' = queueEmpty
    BY ConnUnchanged DEF NoteInv, NotifyPacketEnqueued
<1>2. /\ notifying \in [Threads -> Notices] /\ scheduled \in [Listeners -> Nat]
      /\ reading \in [Threads \cup Workers -> Listeners \cup {NoListener}]
      /\ listener \in Listeners \cup {NoListener} /\ alive \subseteq Listeners
      /\ stopped \in BOOLEAN /\ missed \in BOOLEAN /\ readMethod \in ReadMethods
      /\ notifyMethod \in NotifyMethods[readMethod]
      /\ NoListener \notin Listeners
      /\ NotifyMethods[readMethod] \subseteq {"SameThread", "Scheduler", "SchedulerQueueWasEmpty"}
    BY NotificationAssumption DEF NoteInv, NoteTypeOK
<1>3. /\ notifying' = [notifying EXCEPT ![t] = "none"]
      /\ UNCHANGED <<listener, alive, stopped, notifyMethod, readMethod, setListeners>>
    BY DEF NotifyPacketEnqueued
<1>4. \/ /\ listener \in alive /\ reading' = [reading EXCEPT ![t] = listener]
         /\ missed' = FALSE /\ scheduled' = scheduled
      \/ missed' = TRUE /\ reading' = reading /\ scheduled' = scheduled
      \/ /\ listener \in Listeners /\ scheduled' = [scheduled EXCEPT ![listener] = @ + 1]
         /\ reading' = reading /\ missed' = missed
      \/ /\ reading' = reading /\ scheduled' = scheduled /\ missed' = missed
         /\ stopped \/ ~WillNotify(t)
  <2>1. CASE NotifySameThread(t)
      BY <2>1, Zenon DEF NotifySameThread, PacketReceived
  <2>2. CASE NotifyScheduler
      BY <1>2, <2>2 DEF NotifyScheduler
  <2>3. CASE NotifyNobody /\ notifying[t] = "wasNotEmpty"
             /\ "SchedulerQueueWasEmpty" \in NotifyMethods[readMethod]
    <3>1. ~WillNotify(t)
        BY <2>3 DEF WillNotify
    <3> QED
        BY <2>3, <3>1 DEF NotifyNobody
  <2> QED
      BY <1>2, <2>1, <2>2, <2>3 DEF NotifyPacketEnqueued, PacketEnqueuedNotice
<1>5. NoteTypeOK'
  <2>1. scheduled' \in [Listeners -> Nat]
      BY <1>2, <1>4
  <2>2. reading' \in [Threads \cup Workers -> Listeners \cup {NoListener}]
      BY <1>2, <1>4
  <2>3. missed' \in BOOLEAN
      BY <1>2, <1>4, Zenon
  <2>4. notifying' \in [Threads -> Notices]
      BY <1>2, <1>3 DEF Notices
  <2>5. setListeners \in Nat
      BY DEF NoteInv, NoteTypeOK
  <2> QED
      BY <1>1, <1>2, <1>3, <2>1, <2>2, <2>3, <2>4, <2>5, Zenon DEF NoteTypeOK, ConnInv
<1>6. Awake \/ Excused => Awake' \/ Excused'
  <2>1. CASE listener \in alive /\ reading' = [reading EXCEPT ![t] = listener]
    <3>1. reading'[t] # NoListener
        BY <1>2, <2>1
    <3> QED
        BY <3>1 DEF Awake
  <2>2. CASE missed' = TRUE
      BY <2>2 DEF Excused
  <2>3. CASE listener \in Listeners /\ scheduled' = [scheduled EXCEPT ![listener] = @ + 1]
    <3>1. scheduled'[listener] > 0
        BY <1>2, <2>3
    <3> QED
        BY <2>3, <3>1 DEF Awake
  <2>4. CASE /\ reading' = reading /\ scheduled' = scheduled /\ missed' = missed
             /\ stopped \/ ~WillNotify(t)
    <3>1. ASSUME NEW u \in Threads, u # t, WillNotify(u) PROVE WillNotify(u)'
        BY <1>2, <1>3, <3>1 DEF WillNotify
    <3> QED
        BY <1>3, <2>4, <3>1, Zenon DEF Awake, Excused
  <2> QED
      BY <1>4, <2>1, <2>2, <2>3, <2>4, Zenon
<1> QED
    BY <1>1, <1>3, <1>5, <1>6, StillAwake

(* The start of a scheduled callback keeps the handshake: it leaves a      *)
(* reader, or has missed its listener.                                     *)
LEMMA RunCallbackInv ==
    ASSUME NoteInv, NEW w \in Workers, RunCallback(w)
    PROVE  NoteInv'
<1>1. ConnInv' /\ packets' = packets /\ queueEmpty' = queueEmpty
    BY ConnUnchanged DEF NoteInv, RunCallback
<1>2. PICK l \in Listeners : /\ scheduled[l] > 0
                             /\ scheduled' = [scheduled EXCEPT ![l] = @ - 1]
                             /\ PacketReceived(w, l)
    BY DEF RunCallback
<1>3. /\ scheduled \in [Listeners -> Nat] /\ NoListener \notin Listeners
      /\ reading \in [Threads \cup Workers -> Listeners \cup {NoListener}]
    BY NotificationAssumption DEF NoteInv, NoteTypeOK
<1>4. scheduled' \in [Listeners -> Nat]
    BY <1>2, <1>3
<1>5. /\ reading' \in [Threads \cup Workers -> Listeners \cup {NoListener}]
      /\ missed' \in BOOLEAN
      /\ reading'[w] # NoListener \/ missed'
    BY <1>2, <1>3 DEF PacketReceived, NoteInv, NoteTypeOK
<1>6. NoteTypeOK' /\ readMethod' = readMethod
    BY <1>1, <1>4, <1>5, Zenon DEF RunCallback, NoteInv, NoteTypeOK, ConnInv
<1>7. Awake' \/ Excused'
    BY <1>5, Zenon DEF Awake, Excused
<1> QED
    BY <1>1, <1>6, <1>7, StillAwake

(* A consumer that reads keeps the handshake.                              *)
LEMMA ReadInv ==
    ASSUME NoteInv, NEW c \in Threads \cup Workers, Read(c)
    PROVE  NoteInv'
<1>1. CASE ReadPacket(c)
  <2>1. ConnInv' /\ packets' = Tail(packets) /\ packets # <<>> /\ queueEmpty' = queueEmpty
      BY <1>1, DequeueInv DEF NoteInv, ReadPacket, Dequeue
  <2>2. NoteTypeOK'
      BY <1>1, <2>1, Zenon DEF ReadPacket, noteVars, NoteInv, NoteTypeOK, ConnInv
  <2>3. Awake' /\ readMethod' = readMethod
      BY <1>1, Zenon DEF ReadPacket, noteVars, Awake
  <2>4. (\A i \in DOMAIN packets : packets[i].seq = 0)
            => \A i \in DOMAIN packets' : packets'[i].seq = 0
    <3>1. packets \in Seq(Packet) /\ packets' \in Seq(Packet)
        BY <2>1 DEF NoteInv, ConnInv, ConnTypeOK
    <3>2. \A i \in DOMAIN packets' : i + 1 \in DOMAIN packets /\ packets'[i] = packets[i + 1]
        BY <2>1, <3>1
    <3> QED
        BY <3>2
  <2> QED
      BY <2>1, <2>2, <2>3, <2>4, Zenon DEF NoteInv, NoLostWakeup, Handshake
<1>2. CASE ReadNothing(c)
  <2>1. ConnInv' /\ packets' = <<>> /\ queueEmpty' = TRUE
      BY <1>2, DequeueNothingInv DEF NoteInv, ReadNothing, DequeueNothing
  <2>2. NoteTypeOK'
    <3>1. reading' \in [Threads \cup Workers -> Listeners \cup {NoListener}]
        BY <1>2 DEF ReadNothing, Returned, NoteInv, NoteTypeOK
    <3> QED
        BY <1>2, <2>1, <3>1, Zenon DEF ReadNothing, Returned, NoteInv, NoteTypeOK, ConnInv
  <2>3. DOMAIN packets' = {}
      BY <2>1
  <2> QED
      BY <2>1, <2>2, <2>3, Zenon DEF NoteInv, NoLostWakeup, Handshake
<1>3. CASE ReadAll(c)
  <2>1. ConnInv' /\ packets' = <<>> /\ readMethod' # "dequeue"
      BY <1>3, DequeueAllInv DEF NoteInv, ReadAll, DequeueAll, Returned
  <2>2. NoteTypeOK'
    <3>1. reading' \in [Threads \cup Workers -> Listeners \cup {NoListener}]
        BY <1>3 DEF ReadAll, Returned, NoteInv, NoteTypeOK
    <3> QED
        BY <1>3, <2>1, <3>1, Zenon DEF ReadAll, Returned, NoteInv, NoteTypeOK, ConnInv
  <2>3. DOMAIN packets' = {}
      BY <2>1
  <2> QED
      BY <2>1, <2>2, <2>3, Zenon DEF NoteInv, NoLostWakeup, Handshake
<1> QED
    BY <1>1, <1>2, <1>3 DEF Read

(* A new listener, or none, keeps the handshake.                           *)
LEMMA SetListenerInv ==
    ASSUME NoteInv, NEW l \in alive \cup {NoListener}, SetListener(l)
    PROVE  NoteInv'
<1>1. ConnInv'
    BY EnqueueLastDescriptorInv, ConnUnchanged DEF NoteInv, SetListener
<1>2. listener' \in Listeners \cup {NoListener} /\ setListeners' \in Nat
    BY DEF SetListener, NoteInv, NoteTypeOK
<1>3. NoteTypeOK' /\ readMethod' = readMethod
    BY <1>1, <1>2, Zenon DEF SetListener, NoteInv, NoteTypeOK, ConnInv
<1>4. (Awake' <=> Awake) /\ (Excused' <=> Excused)
    BY Zenon DEF SetListener, Awake, WillNotify, Excused
<1>5. CASE UNCHANGED connVars
  <2>1. packets' = packets /\ queueEmpty' = queueEmpty
      BY <1>5, ConnUnchanged DEF NoteInv
  <2> QED
      BY <1>1, <1>3, <1>4, <2>1, StillAwake
<1>6. CASE EnqueueLastDescriptor
  <2> DEFINE e == EventPacket("descriptor", valueDataDescriptor, domainDataDescriptor)
  <2>1. packets' = <<e>> \o packets /\ queueEmpty' = queueEmpty
      BY <1>6 DEF EnqueueLastDescriptor
  <2>2. e.seq = 0 /\ e \in Packet
      BY DEF EventPacket, Packet, Kinds, NoteInv, ConnInv, ConnTypeOK
  <2> HIDE DEF e
  <2>3. (\E i \in DOMAIN packets' : packets'[i].seq # 0)
            => \E i \in DOMAIN packets : packets[i].seq # 0
    <3>1. packets \in Seq(Packet)
        BY DEF NoteInv, ConnInv, ConnTypeOK
    <3>2. \A i \in DOMAIN packets' : \/ packets'[i] = e
                                     \/ i - 1 \in DOMAIN packets /\ packets'[i] = packets[i - 1]
        BY <2>1, <2>2, <3>1
    <3> QED
        BY <2>2, <3>2
  <2> QED
      BY <1>1, <1>3, <1>4, <2>1, <2>3, Zenon DEF NoteInv, NoLostWakeup, Handshake
<1> QED
    BY <1>5, <1>6 DEF SetListener

(* Every step keeps the handshake.                                         *)
LEMMA NoteNextInv ==
    ASSUME NoteInv, SafePairing, [NoteNext]_vars
    PROVE  NoteInv'
<1>1. ASSUME NEW t \in Threads, Send(t) PROVE NoteInv'
  <2>1. PICK p \in SentPackets : Enqueue(p)
      BY <1>1 DEF Send
  <2>2. ConnInv' /\ queueEmpty' = FALSE
      BY <2>1, EnqueueInv DEF NoteInv, Enqueue
  <2> QED
      BY <1>1, <2>2, SendInv DEF Send, Free
<1>2. ASSUME NEW t \in Threads, SendList(t) PROVE NoteInv'
  <2>1. PICK ps \in Batches : EnqueueMultiple(ps)
      BY <1>2 DEF SendList
  <2>2. PICK m \in 1 .. MaxBatch : ps \in [1 .. m -> DataPackets]
      BY DEF Batches
  <2>3. ps \in Seq(DataPackets)
      BY <2>2, ConnectionAssumption
  <2>4. ConnInv' /\ queueEmpty' = FALSE
      BY <2>1, <2>3, EnqueueMultipleInv DEF NoteInv, EnqueueMultiple, EnqueueList
  <2> QED
      BY <1>2, <2>4, SendInv DEF SendList, Free
<1>3. ASSUME NEW t \in Threads, SendFirst(t) PROVE NoteInv'
  <2>1. PICK p \in EventPackets : Enqueue(p)
      BY <1>3 DEF SendFirst
  <2>2. ConnInv' /\ queueEmpty' = FALSE
      BY <2>1, EnqueueInv DEF NoteInv, Enqueue, SentPackets
  <2>3. PICK n \in {"onThisThread", "withScheduler"} : Owes(t, n)
      BY <1>3 DEF SendFirst
  <2> QED
      BY <1>3, <2>2, <2>3, SendInv DEF SendFirst, Free
<1>4. ASSUME StopScheduler PROVE NoteInv'
  <2>1. ConnInv' /\ packets' = packets /\ queueEmpty' = queueEmpty
      BY <1>4, ConnUnchanged DEF NoteInv, StopScheduler
  <2>2. NoteTypeOK' /\ Excused' /\ readMethod' = readMethod
      BY <1>4, <2>1, Zenon DEF StopScheduler, NoteInv, NoteTypeOK, ConnInv, Excused
  <2> QED
      BY <2>1, <2>2, StillAwake
<1>5. ASSUME SwitchPort PROVE NoteInv'
  <2>1. ConnInv' /\ packets' = packets /\ queueEmpty' = queueEmpty
      BY <1>5, SetActiveInv DEF NoteInv, SwitchPort, SetActive
  <2>2. /\ NoteTypeOK' /\ readMethod' = readMethod
        /\ (Awake' <=> Awake) /\ (Excused' <=> Excused)
      BY <1>5, <2>1, Zenon DEF SwitchPort, noteVars, NoteInv, NoteTypeOK, ConnInv, Awake, WillNotify,
           Excused
  <2> QED
      BY <2>1, <2>2, StillAwake
<1>6. ASSUME NEW m \in NotifyMethods[readMethod], SetNotificationMethod(m) PROVE NoteInv'
  <2>1. ConnInv' /\ packets' = packets /\ queueEmpty' = queueEmpty
      BY <1>6, ConnUnchanged DEF NoteInv, SetNotificationMethod
  <2>2. /\ NoteTypeOK' /\ readMethod' = readMethod
        /\ (Awake' <=> Awake) /\ (Excused' <=> Excused)
      BY <1>6, <2>1, Zenon DEF SetNotificationMethod, NoteInv, NoteTypeOK, ConnInv, Awake, WillNotify,
           Excused
  <2> QED
      BY <2>1, <2>2, StillAwake
<1>7. ASSUME NEW l \in Listeners, ReleaseListener(l) PROVE NoteInv'
  <2>1. ConnInv' /\ packets' = packets /\ queueEmpty' = queueEmpty
      BY <1>7, ConnUnchanged DEF NoteInv, ReleaseListener
  <2>2. /\ NoteTypeOK' /\ readMethod' = readMethod
        /\ (Awake' <=> Awake) /\ (Excused' <=> Excused)
      BY <1>7, <2>1, Zenon DEF ReleaseListener, NoteInv, NoteTypeOK, ConnInv, Awake, WillNotify,
           Excused
  <2> QED
      BY <2>1, <2>2, StillAwake
<1>8. ASSUME UNCHANGED vars PROVE NoteInv'
  <2>1. ConnInv' /\ packets' = packets /\ queueEmpty' = queueEmpty /\ UNCHANGED noteVars
      BY <1>8, ConnUnchanged DEF NoteInv, vars
  <2>2. /\ NoteTypeOK' /\ readMethod' = readMethod
        /\ (Awake' <=> Awake) /\ (Excused' <=> Excused)
      BY <2>1, Zenon DEF noteVars, NoteInv, NoteTypeOK, ConnInv, Awake, WillNotify,
           Excused
  <2> QED
      BY <2>1, <2>2, StillAwake
<1> QED
    BY <1>1, <1>2, <1>3, <1>4, <1>5, <1>6, <1>7, <1>8, NotifyPacketEnqueuedInv, RunCallbackInv,
       ReadInv, SetListenerInv, Zenon DEF NoteNext

(* The handshake holds on a new port.                                      *)
LEMMA NoteInitInv ==
    ASSUME NoteInit
    PROVE  NoteInv
<1>1. ConnInv /\ packets = <<>> /\ queueEmpty = TRUE
    BY ConnInitInv DEF NoteInit, ConnInit
<1>2. NoteTypeOK
    BY <1>1 DEF NoteInit, NoteTypeOK, Notices, ConnInv
<1>3. DOMAIN packets = {}
    BY <1>1
<1> QED
    BY <1>1, <1>2, <1>3, Zenon DEF NoteInv, NoLostWakeup, Handshake

(* With every notification method, also one changed on the way, a packet   *)
(* in the queue has somebody who will read it: the flag queueEmpty, read   *)
(* under the lock and acted on after it, loses no wake-up.  The wake-ups   *)
(* that are lost are those of a stopped scheduler and those that come when *)
(* the listener they were meant for is gone.                               *)
THEOREM NoWakeupIsLost ==
    ASSUME SafePairing
    PROVE  NoteSafe => []NoLostWakeup
<1>1. NoteInit => NoteInv
    BY NoteInitInv
<1>2. NoteInv /\ [NoteNext]_vars => NoteInv'
    BY NoteNextInv
<1>3. NoteInv => NoLostWakeup
    BY DEF NoteInv
<1> QED
    BY <1>1, <1>2, <1>3, PTL DEF NoteSafe

(* The meaning of queueEmpty that the theorem above rests on.              *)
THEOREM HandshakeKept ==
    ASSUME SafePairing
    PROVE  NoteSafe => []Handshake
<1>1. NoteInit => NoteInv
    BY NoteInitInv
<1>2. NoteInv /\ [NoteNext]_vars => NoteInv'
    BY NoteNextInv
<1>3. NoteInv => Handshake
    BY DEF NoteInv
<1> QED
    BY <1>1, <1>2, <1>3, PTL DEF NoteSafe
--------------------------------------------------------------------------------
(***************************************************************************)
(* The connection implements the stream of packets.  The refinement needs  *)
(* no pairing of methods: who is woken does not matter for the order.      *)
(***************************************************************************)

(* WaitingNumbers of any queue, and the numbers from n + 1 to m.           *)
NthOwn(q, n) == CHOOSE i \in Own(q) : Cardinality({j \in Own(q) : j <= i}) = n
NumbersIn(q) == [n \in 1 .. OwnCount(q) |-> q[NthOwn(q, n)].seq]
Numbers(n, m) == [i \in 1 .. m - n |-> n + i]

(* The places up to one of them are those of the stretch that ends there.  *)
LEMMA RankIs ==
    ASSUME NEW q \in Seq(Packet), NEW i \in Own(q)
    PROVE  {j \in Own(q) : j <= i} = Own(SubSeq(q, 1, i))
<1> DEFINE r == SubSeq(q, 1, i)
<1>1. i \in 1 .. Len(q) /\ DOMAIN q = 1 .. Len(q) /\ Len(q) \in Nat
    BY DEF Own
<1>2. DOMAIN r = 1 .. i /\ \A j \in 1 .. i : r[j] = q[j]
    BY <1>1
<1> HIDE DEF r
<1>3. {j \in Own(q) : j <= i} = Own(r)
    BY <1>1, <1>2 DEF Own
<1> QED
    BY <1>3 DEF r

(* Every number up to the count is the rank of a place.                    *)
LEMMA RankExists ==
    ASSUME NEW q \in Seq(Packet), NEW n \in 1 .. OwnCount(q)
    PROVE  \E i \in Own(q) : Cardinality({j \in Own(q) : j <= i}) = n
<1> DEFINE S == Own(q)
           R(i) == {j \in S : j <= i}
           f == [i \in S |-> Cardinality(R(i))]
           k == OwnCount(q)
<1>1. IsFiniteSet(S) /\ k \in Nat /\ k = Cardinality(S) /\ S \subseteq Nat
    BY OwnType DEF OwnCount, Own
<1>2. \A i \in S : /\ IsFiniteSet(R(i)) /\ Cardinality(R(i)) \in Nat /\ Cardinality(R(i)) <= k
                   /\ Cardinality(R(i)) # 0
  <2> TAKE i \in S
  <2>1. R(i) \in SUBSET S /\ i \in R(i)
      BY <1>1
  <2>2. IsFiniteSet(R(i)) /\ Cardinality(R(i)) <= k
      BY <1>1, <2>1, FS_Subset
  <2>3. Cardinality(R(i)) \in Nat
      BY <2>2, FS_CardinalityType
  <2>4. Cardinality(R(i)) # 0
      BY <2>1, <2>2, FS_EmptySet
  <2> QED
      BY <2>2, <2>3, <2>4
<1>3. f \in [S -> 1 .. k]
    BY <1>1, <1>2
<1>4. \A i, j \in S : i < j => f[i] # f[j]
  <2> TAKE i, j \in S
  <2> HAVE i < j
  <2>1. R(i) \in SUBSET R(j) /\ j \in R(j) /\ j \notin R(i)
      BY <1>1
  <2>2. R(i) # R(j)
      BY <2>1
  <2>3. Cardinality(R(j)) # Cardinality(R(i))
      BY <1>2, <2>1, <2>2, FS_Subset
  <2> QED
      BY <2>3
<1>5. \A i, j \in S : f[i] = f[j] => i = j
  <2> TAKE i, j \in S
  <2>1. i \in Nat /\ j \in Nat
      BY <1>1
  <2>2. i < j \/ j < i \/ i = j
      BY <2>1
  <2> HIDE DEF f
  <2> QED
      BY <1>4, <2>2
<1>6. f \in Injection(S, 1 .. k)
    BY <1>3, <1>5 DEF Injection, IsInjective
<1>7. IsFiniteSet(1 .. k) /\ Cardinality(1 .. k) = k
    BY <1>1, FS_Interval
<1>8. f \in Surjection(S, 1 .. k)
    BY <1>1, <1>6, <1>7, FS_Injection
<1>9. PICK i \in S : f[i] = n
    BY <1>8 DEF Surjection
<1> QED
    BY <1>9

(* The numbers of a window are the ones after those handed out.            *)
LEMMA NumbersOfWindow ==
    ASSUME NEW q \in Seq(Packet), NEW n \in Nat, NEW m \in Nat, WindowOf(q, n, m)
    PROVE  NumbersIn(q) = Numbers(n, m) /\ n <= m /\ OwnCount(q) = m - n
<1>1. OwnCount(q) \in Nat /\ OwnCount(q) = m - n /\ NumberedFrom(q, n)
    BY OwnType DEF WindowOf
<1>2. ASSUME NEW i \in 1 .. OwnCount(q) PROVE q[NthOwn(q, i)].seq = n + i
  <2>1. NthOwn(q, i) \in Own(q) /\ Cardinality({j \in Own(q) : j <= NthOwn(q, i)}) = i
      BY RankExists, Zenon DEF NthOwn
  <2>2. q[NthOwn(q, i)].seq = n + OwnCount(SubSeq(q, 1, NthOwn(q, i)))
      BY <1>1, <2>1, Zenon DEF NumberedFrom
  <2> QED
      BY <2>1, <2>2, RankIs, Zenon DEF OwnCount
<1>3. NumbersIn(q) = [i \in 1 .. m - n |-> n + i]
    BY <1>1, <1>2 DEF NumbersIn
<1> QED
    BY <1>1, <1>3 DEF Numbers

(* Numbers that are added at the end and taken away in front.              *)
LEMMA NumbersMove ==
    ASSUME NEW n \in Nat, NEW m \in Nat, n <= m, NEW k \in Nat
    PROVE  /\ Numbers(n, m) \in Seq(Nat) /\ Len(Numbers(n, m)) = m - n
           /\ Numbers(n, m + k) = Numbers(n, m) \o [i \in 1 .. k |-> m + i]
           /\ n + k <= m => Numbers(n + k, m) = SubSeq(Numbers(n, m), k + 1, m - n)
<1> DEFINE w == Numbers(n, m)
           x == [i \in 1 .. k |-> m + i]
<1>1. w \in Seq(Nat) /\ Len(w) = m - n /\ m - n \in Nat /\ \A i \in 1 .. m - n : w[i] = n + i
  <2>1. m - n \in Nat /\ w \in [1 .. m - n -> Nat]
      BY DEF Numbers
  <2> QED
      BY <2>1 DEF Numbers
<1>2. x \in Seq(Nat) /\ Len(x) = k /\ \A i \in 1 .. k : x[i] = m + i
    OBVIOUS
<1>3. Numbers(n, m + k) = w \o x
  <2> DEFINE u == Numbers(n, m + k)
             y == w \o x
  <2>1. u \in Seq(Nat) /\ Len(u) = m + k - n /\ \A i \in 1 .. m + k - n : u[i] = n + i
    <3>1. m + k - n \in Nat /\ u \in [1 .. m + k - n -> Nat]
        BY DEF Numbers
    <3> QED
        BY <3>1 DEF Numbers
  <2> HIDE DEF u, w, x
  <2>2. y \in Seq(Nat) /\ Len(y) = m + k - n
    <3>1. y \in Seq(Nat) /\ Len(y) = Len(w) + Len(x)
        BY <1>1, <1>2, ConcatProperties
    <3> HIDE DEF y
    <3> QED
        BY <1>1, <1>2, <3>1
  <2>3. \A i \in 1 .. m + k - n : y[i] = n + i
    <3> TAKE i \in 1 .. m + k - n
    <3>1. CASE i <= m - n
        BY <1>1, <1>2, <3>1
    <3>2. CASE ~(i <= m - n)
      <4>1. i - (m - n) \in 1 .. k /\ y[i] = x[i - (m - n)]
          BY <1>1, <1>2, <3>2
      <4> QED
          BY <1>2, <4>1
    <3> HIDE DEF y
    <3> QED
        BY <3>1, <3>2
  <2> HIDE DEF y
  <2>4. u = y
      BY <2>1, <2>2, <2>3, SeqEqual
  <2> QED
      BY <2>4 DEF u, y
<1>4. ASSUME n + k <= m PROVE Numbers(n + k, m) = SubSeq(w, k + 1, m - n)
  <2> DEFINE u == Numbers(n + k, m)
             y == SubSeq(w, k + 1, m - n)
  <2>1. u \in Seq(Nat) /\ Len(u) = m - (n + k) /\ \A i \in 1 .. m - (n + k) : u[i] = n + k + i
    <3>1. m - (n + k) \in Nat /\ u \in [1 .. m - (n + k) -> Nat]
        BY <1>4 DEF Numbers
    <3> QED
        BY <3>1 DEF Numbers
  <2> HIDE DEF u, w
  <2>2. y \in Seq(Nat) /\ Len(y) = m - (n + k)
      BY <1>1, <1>4
  <2>3. \A i \in 1 .. m - (n + k) : y[i] = n + k + i
    <3> TAKE i \in 1 .. m - (n + k)
    <3>1. i + k \in 1 .. m - n /\ y[i] = w[i + k]
        BY <1>1, <1>4
    <3> QED
        BY <1>1, <3>1
  <2> HIDE DEF y
  <2>4. u = y
      BY <2>1, <2>2, <2>3, SeqEqual
  <2> QED
      BY <2>4 DEF u, y
<1> QED
    BY <1>1, <1>3, <1>4

(* What a step does to the connection: one of its methods, or nothing.     *)
Sends == \/ \E p \in SentPackets : Room(1) /\ Enqueue(p)
         \/ \E ps \in Batches : Room(Len(ps)) /\ EnqueueMultiple(ps)
HandsOut == Dequeue \/ DequeueAll
LeavesNumbers == EnqueueLastDescriptor \/ DequeueNothing \/ SetActive \/ UNCHANGED connVars

(* Every step is one of these; those that close the stream, or open it     *)
(* again, leave the connection alone.                                      *)
LEMMA StepOfConnection ==
    ASSUME [NoteNext]_vars
    PROVE  \/ Excused' = Excused /\ (Sends \/ HandsOut \/ LeavesNumbers)
           \/ UNCHANGED connVars
<1>1. ASSUME NEW t \in Threads, Send(t) \/ SendList(t) \/ SendFirst(t)
      PROVE  Excused' = Excused /\ Sends
  <2>1. stopped' = stopped /\ missed' = missed
      BY <1>1, Zenon DEF Send, SendList, SendFirst, Owes
  <2>2. Sends
      BY <1>1, Zenon DEF Send, SendList, SendFirst, Sends, SentPackets
  <2> QED
      BY <2>1, <2>2 DEF Excused
<1>2. ASSUME NEW t \in Threads, NotifyPacketEnqueued(t) PROVE UNCHANGED connVars
    BY <1>2, Zenon DEF NotifyPacketEnqueued
<1>3. ASSUME NEW w \in Workers, RunCallback(w) PROVE UNCHANGED connVars
    BY <1>3, Zenon DEF RunCallback
<1>4. ASSUME NEW c \in Threads \cup Workers, Read(c)
      PROVE  Excused' = Excused /\ (HandsOut \/ LeavesNumbers)
  <2>1. stopped' = stopped /\ missed' = missed
      BY <1>4, Zenon DEF Read, ReadPacket, ReadNothing, ReadAll, Returned, noteVars
  <2>2. HandsOut \/ LeavesNumbers
      BY <1>4, Zenon DEF Read, ReadPacket, ReadNothing, ReadAll, HandsOut, LeavesNumbers
  <2> QED
      BY <2>1, <2>2 DEF Excused
<1>5. ASSUME (\E l \in alive \cup {NoListener} : SetListener(l)) \/ SwitchPort
      PROVE  Excused' = Excused /\ LeavesNumbers
  <2>1. stopped' = stopped /\ missed' = missed
      BY <1>5, Zenon DEF SetListener, SwitchPort, noteVars
  <2>2. LeavesNumbers
      BY <1>5, Zenon DEF SetListener, SwitchPort, LeavesNumbers
  <2> QED
      BY <2>1, <2>2 DEF Excused
<1>6. ASSUME \/ StopScheduler
             \/ \E l \in Listeners : ReleaseListener(l)
             \/ \E m \in NotifyMethods[readMethod] : SetNotificationMethod(m)
             \/ UNCHANGED vars
      PROVE  UNCHANGED connVars
    BY <1>6, Zenon DEF StopScheduler, ReleaseListener, SetNotificationMethod, vars
<1> QED
    BY <1>1, <1>2, <1>3, <1>4, <1>5, <1>6, Zenon DEF NoteNext

(* A send appends the next numbers.                                        *)
LEMMA SendsAccept ==
    ASSUME FifoInv, Sends
    PROVE  FifoInv' /\ delivered' = delivered /\ \E n \in 1 .. MaxSent : sent' = sent + n
<1>0. ConnInv /\ sent \in Nat /\ MaxSent \in Nat
    BY ConnectionAssumption DEF FifoInv, ConnInv, ConnTypeOK
<1>1. ASSUME NEW p \in SentPackets, Room(1), Enqueue(p)
      PROVE  FifoInv' /\ delivered' = delivered /\ \E n \in 1 .. MaxSent : sent' = sent + n
  <2>1. WindowOf(packets', delivered', sent') /\ ConnInv'
      BY <1>0, <1>1, EnqueueFifo, EnqueueInv
  <2>2. FifoInv'
      BY <2>1, Zenon DEF FifoInv, WindowOf
  <2>3. delivered' = delivered /\ sent' = sent + 1 /\ 1 \in 1 .. MaxSent
      BY <1>0, <1>1 DEF Enqueue, Room
  <2> QED
      BY <2>2, <2>3, Zenon
<1>2. ASSUME NEW ps \in Batches, Room(Len(ps)), EnqueueMultiple(ps)
      PROVE  FifoInv' /\ delivered' = delivered /\ \E n \in 1 .. MaxSent : sent' = sent + n
  <2>1. PICK u \in Seq(Packet) : /\ EnqueueList(u) /\ Len(u) = Len(ps)
                                 /\ \A i \in DOMAIN u : u[i].seq = sent + i
      BY <1>0, <1>2, ListShape, Zenon
  <2>2. PICK m \in 1 .. MaxBatch : ps \in [1 .. m -> DataPackets]
      BY DEF Batches
  <2>3. ps \in Seq(DataPackets) /\ Len(ps) = m /\ m \in Nat \ {0}
      BY <2>2, ConnectionAssumption
  <2>4. WindowOf(packets', delivered', sent') /\ ConnInv'
      BY <1>0, <1>2, <2>1, <2>3, ListFifo, EnqueueMultipleInv
  <2>5. FifoInv'
      BY <2>4, Zenon DEF FifoInv, WindowOf
  <2>6. delivered' = delivered /\ sent' = sent + m /\ m \in 1 .. MaxSent
      BY <1>0, <1>2, <2>1, <2>3 DEF EnqueueList, Room
  <2> QED
      BY <2>5, <2>6, Zenon
<1> QED
    BY <1>1, <1>2, Zenon DEF Sends

(* A read hands out the first ones.                                        *)
LEMMA HandsOutDelivers ==
    ASSUME FifoInv, HandsOut
    PROVE  FifoInv' /\ sent' = sent /\ \E n \in Nat : delivered' = delivered + n
<1>0. ConnInv
    BY DEF FifoInv
<1>1. ASSUME NEW s \in Seq(Packet), packets' \in Seq(Packet), packets = s \o packets', HandOut(s), ConnInv'
      PROVE  FifoInv' /\ sent' = sent /\ \E n \in Nat : delivered' = delivered + n
  <2>1. FifoInv'
      BY <1>1, HandOutFifo, Zenon DEF FifoInv, WindowOf
  <2>2. delivered' = delivered + OwnCount(s) /\ sent' = sent
      BY <1>1, Zenon DEF HandOut, OwnCount, Own
  <2>3. OwnCount(s) \in Nat
      BY OwnType
  <2> QED
      BY <2>1, <2>2, <2>3
<1>2. CASE Dequeue
  <2> DEFINE s == <<Head(packets)>>
  <2>1. s \in Seq(Packet)
      BY <1>0, <1>2, DequeueShape
  <2>2. packets' \in Seq(Packet) /\ packets = s \o packets' /\ HandOut(s)
      BY <1>0, <1>2, DequeueShape, Zenon
  <2>3. ConnInv'
      BY <1>0, <1>2, DequeueInv
  <2> HIDE DEF s
  <2> QED
      BY <1>1, <2>1, <2>2, <2>3, Zenon
<1>3. CASE DequeueAll
  <2>1. packets' = <<>> /\ HandOut(packets) /\ packets \in Seq(Packet)
      BY <1>0, <1>3 DEF DequeueAll, ConnInv, ConnTypeOK
  <2>2. packets' \in Seq(Packet)
      BY <2>1
  <2>3. packets = packets \o packets'
      BY <2>1, ConcatEmptySeq
  <2>4. ConnInv'
      BY <1>0, <1>3, DequeueAllInv
  <2> QED
      BY <1>1, <2>1, <2>2, <2>3, <2>4, Zenon
<1> QED
    BY <1>2, <1>3 DEF HandsOut

(* The rest leaves the numbers as they are.                                *)
LEMMA NumbersLeft ==
    ASSUME FifoInv, LeavesNumbers
    PROVE  FifoInv' /\ sent' = sent /\ delivered' = delivered
<1>0. ConnInv
    BY DEF FifoInv
<1>1. CASE EnqueueLastDescriptor
  <2>1. WindowOf(packets', delivered', sent') /\ ConnInv'
      BY <1>0, <1>1, LastDescriptorFifo, EnqueueLastDescriptorInv
  <2>2. sent' = sent /\ delivered' = delivered
      BY <1>1 DEF EnqueueLastDescriptor, history
  <2> QED
      BY <2>1, <2>2, Zenon DEF FifoInv, WindowOf
<1>2. CASE DequeueNothing \/ SetActive \/ UNCHANGED connVars
  <2>1. ConnInv'
      BY <1>0, <1>2, DequeueNothingInv, SetActiveInv, ConnUnchanged
  <2>2. UNCHANGED <<packets, delivered, sent>>
      BY <1>2 DEF DequeueNothing, SetActive, connVars, history
  <2> QED
      BY <2>1, <2>2, Zenon DEF FifoInv, WindowOf
<1> QED
    BY <1>1, <1>2 DEF LeavesNumbers

(* The numbers that wait are those from the last one handed out to the     *)
(* last one accepted.                                                      *)
LEMMA WaitingAre ==
    FifoInv => WaitingNumbers = Numbers(delivered, sent) /\ delivered <= sent
               /\ delivered \in Nat /\ sent \in Nat
<1> SUFFICES ASSUME FifoInv
             PROVE  WaitingNumbers = Numbers(delivered, sent) /\ delivered <= sent
                    /\ delivered \in Nat /\ sent \in Nat
    OBVIOUS
<1>1. packets \in Seq(Packet) /\ delivered \in Nat /\ sent \in Nat /\ WindowOf(packets, delivered, sent)
    BY DEF FifoInv, ConnInv, ConnTypeOK
<1>2. WaitingNumbers = NumbersIn(packets)
    BY Zenon DEF WaitingNumbers, NumbersIn, NthOwn, OwnCount, Own
<1> QED
    BY <1>1, <1>2, NumbersOfWindow

(* A step of the connection, its port, the scheduler and the listener is a *)
(* step of the stream or leaves it as it is.                               *)
LEMMA StepOfStream ==
    ASSUME FifoInv, FifoInv', [NoteNext]_vars,
           WaitingNumbers = Numbers(delivered, sent), WaitingNumbers' = Numbers(delivered', sent'),
           delivered \in Nat, sent \in Nat, delivered <= sent, delivered' <= sent'
    PROVE  [Stream!StreamNext]_(Stream!streamVars)
<1>1. CASE Excused' = Excused /\ Sends
  <2>1. PICK n \in 1 .. MaxSent : sent' = sent + n /\ delivered' = delivered
      BY <1>1, SendsAccept
  <2>2. n \in Nat
      OBVIOUS
  <2>3. Numbers(delivered, sent + n) = Numbers(delivered, sent) \o [i \in 1 .. n |-> sent + i]
      BY <2>2, NumbersMove
  <2>4. Stream!Accept(n)
      BY <1>1, <2>1, <2>3, Zenon DEF Stream!Accept
  <2> QED
      BY <2>4, Zenon DEF Stream!StreamNext
<1>2. CASE Excused' = Excused /\ HandsOut
  <2>1. PICK n \in Nat : delivered' = delivered + n /\ sent' = sent
      BY <1>2, HandsOutDelivers
  <2>2. delivered + n <= sent /\ Len(Numbers(delivered, sent)) = sent - delivered
      BY <2>1, NumbersMove
  <2>3. Numbers(delivered + n, sent) = SubSeq(Numbers(delivered, sent), n + 1, sent - delivered)
      BY <2>2, NumbersMove
  <2>4. CASE n = 0
      BY <1>2, <2>1, <2>4 DEF Stream!streamVars
  <2>5. CASE n # 0
    <3>1. n \in 1 .. Len(WaitingNumbers)
        BY <2>2, <2>5
    <3>2. Stream!Deliver(n)
        BY <1>2, <2>1, <2>2, <2>3, Zenon DEF Stream!Deliver
    <3> QED
        BY <3>1, <3>2, Zenon DEF Stream!StreamNext
  <2> QED
      BY <2>4, <2>5
<1>3. CASE Excused' = Excused /\ LeavesNumbers
  <2>1. sent' = sent /\ delivered' = delivered
      BY <1>3, NumbersLeft
  <2> QED
      BY <1>3, <2>1, Zenon DEF Stream!streamVars
<1>4. CASE UNCHANGED connVars
  <2>1. sent' = sent /\ delivered' = delivered
      BY <1>4 DEF connVars, history
  <2>2. Excused' = TRUE \/ Excused' = FALSE
      BY DEF Excused
  <2>3. Stream!Close \/ Stream!Open
      BY <2>1, <2>2, Zenon DEF Stream!Close, Stream!Open
  <2> QED
      BY <2>3, Zenon DEF Stream!StreamNext
<1> QED
    BY <1>1, <1>2, <1>3, <1>4, StepOfConnection, Zenon

(* The steps of the port keep the window.                                  *)
LEMMA NoteNextFifo ==
    ASSUME FifoInv, [NoteNext]_vars
    PROVE  FifoInv'
<1>1. ASSUME UNCHANGED connVars PROVE LeavesNumbers
    BY <1>1, Zenon DEF LeavesNumbers
<1> QED
    BY <1>1, StepOfConnection, SendsAccept, HandsOutDelivers, NumbersLeft, Zenon

(* The safety part of ImplementsStream, for any number of senders, workers *)
(* and packets, any notification methods and either way of reading: the    *)
(* packets accepted are handed out one after the other in the order in     *)
(* which they were accepted, none lost and none twice, whatever packets    *)
(* the connection adds of its own and whichever thread reads them.         *)
THEOREM PortImplementsStream == NoteSafe => Stream!StreamSafe
<1>1. NoteInit => FifoInv /\ Stream!StreamInit
  <2> SUFFICES ASSUME NoteInit PROVE FifoInv /\ Stream!StreamInit
      OBVIOUS
  <2>1. packets = <<>> /\ sent = 0 /\ delivered = 0 /\ Excused = FALSE /\ ConnInv
      BY ConnInitInv DEF NoteInit, ConnInit, Excused
  <2>2. Own(<<>>) = {} /\ OwnCount(<<>>) = 0
      BY FS_EmptySet DEF Own, OwnCount
  <2>3. FifoInv
      BY <2>1, <2>2 DEF FifoInv, WindowOf, NumberedFrom
  <2>4. WaitingNumbers = Numbers(0, 0)
      BY <2>1, <2>3, WaitingAre
  <2>5. Numbers(0, 0) = <<>>
      BY DEF Numbers
  <2> QED
      BY <2>1, <2>3, <2>4, <2>5 DEF Stream!StreamInit
<1>2. FifoInv /\ [NoteNext]_vars => FifoInv'
    BY NoteNextFifo
<1>3. ASSUME FifoInv, FifoInv', [NoteNext]_vars PROVE [Stream!StreamNext]_(Stream!streamVars)
  <2>1. (FifoInv => WaitingNumbers = Numbers(delivered, sent) /\ delivered <= sent
               /\ delivered \in Nat /\ sent \in Nat)'
      BY WaitingAre, PTL
  <2>2. WaitingNumbers' = Numbers(delivered', sent') /\ delivered' <= sent'
      BY <1>3, <2>1 DEF Numbers
  <2> QED
      BY <1>3, <2>2, WaitingAre, StepOfStream, Zenon
<1> QED
    BY <1>1, <1>2, <1>3, PTL DEF NoteSafe, Stream!StreamSafe
=============================================================================
