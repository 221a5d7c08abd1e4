------------------------------ MODULE Connection ------------------------------
(***************************************************************************)
(* The packet queue between a signal and an input port: class              *)
(* ConnectionImpl of core/opendaq/signal.  Every method takes the          *)
(* connection's mutex for its whole body, so every method is one action.   *)
(* Packets are abstracted to what the queue looks at: the packet type and  *)
(* event id (kind), the number of samples, the offset of the domain packet *)
(* and the descriptors an event carries.                                   *)
(***************************************************************************)
EXTENDS Integers, Sequences, FiniteSets

CONSTANTS
    GapChecking,        \* port.getGapCheckingEnabled() when the connection is made
    ValueDescriptors,   \* value descriptors an event may announce
    NoDescriptor,       \* an unassigned descriptor pointer
    DomainDescriptors,  \* domain descriptors an event may announce
    Offsets,            \* offsets of domain packets
    SampleCounts,       \* sample counts of data packets
    EventIds,           \* ids of the event packets the producers send
    Producers,          \* the enqueue methods the producers call
    Consumers,          \* the dequeue methods the owner of the port calls
    MaxSent,            \* bound: packets accepted in one behaviour
    MaxQueue,           \* bound: length of the queue (the code has none)
    MaxBatch            \* bound: packets in one enqueueMultiple call

GapCheckStates == {"disabled", "uninitialized", "not_available", "initialized", "running"}
Kinds == {"data", "descriptor", "gap", "other"}

(* A domain descriptor as initGapCheck reads it: rule "unassigned" is an   *)
(* event parameter left out (not changed), "null" the NullDataDescriptor.  *)
DomainDescriptor == [rule : {"unassigned", "null", "linear", "explicit"},
                     sampleType : {"Int64", "UInt64", "Float64", "invalid"},
                     delta : Nat]
NoDomain == [rule |-> "unassigned", sampleType |-> "invalid", delta |-> 0]

ASSUME ConnectionAssumption ==
    /\ GapChecking \in BOOLEAN
    /\ NoDescriptor \notin ValueDescriptors
    /\ DomainDescriptors \subseteq DomainDescriptor
    /\ Offsets \subseteq Int
    /\ SampleCounts \subseteq Nat
    /\ EventIds \subseteq Kinds \ {"data"}
    /\ GapChecking \/ "gap" \notin EventIds  \* only connections make gap packets
    /\ Producers \subseteq {"enqueue", "enqueueMultiple", "enqueueMultipleAndStealRef",
                            "enqueueLastDescriptor"}
    /\ Consumers \subseteq {"dequeue", "dequeueAll", "dequeueUpTo"}
    /\ MaxSent \in Nat /\ MaxQueue \in Nat /\ MaxBatch \in Nat

VARIABLES
    packets,                    \* the deque
    queueEmpty,                 \* the last dequeue found nothing
    samplesCnt, eventPacketsCnt, gapPacketsCnt,
    gapCheckState, nextExpectedPacketOffset, delta, domainSampleType,
    valueDataDescriptor, domainDataDescriptor,   \* last ones announced
    active,                     \* port.getActive()
    sent,                       \* history: packets accepted from producers
    delivered,                  \* history: packets of producers handed out
    readDescriptor,             \* history: the consumer's value descriptor
    strays                      \* history: event packets of other ids handed out

counters == <<samplesCnt, eventPacketsCnt, gapPacketsCnt>>
gapVars  == <<gapCheckState, nextExpectedPacketOffset, delta, domainSampleType>>
descVars == <<valueDataDescriptor, domainDataDescriptor>>
history  == <<sent, delivered, readDescriptor, strays>>
connVars == <<packets, queueEmpty, counters, gapVars, descVars, active, history>>

(***************************************************************************)
(* Packets.  seq numbers the packets of the producers in the order they    *)
(* were accepted; packets the connection makes itself have seq 0.  A data  *)
(* packet carries its own descriptors: the ones its signal announced last. *)
(***************************************************************************)
Packet == [kind : Kinds, seq : Nat, count : Nat, offset : Int, diff : Int,
           value : ValueDescriptors \cup {NoDescriptor}, domain : DomainDescriptor]

DataPacket(n, off, v, d) ==
    [kind |-> "data", seq |-> 0, count |-> n, offset |-> off, diff |-> 0,
     value |-> v, domain |-> d]
EventPacket(k, v, d) ==
    [kind |-> k, seq |-> 0, count |-> 0, offset |-> 0, diff |-> 0,
     value |-> v, domain |-> d]
GapPacket(x) == [EventPacket("gap", NoDescriptor, NoDomain) EXCEPT !.diff = x]
Numbered(p, n) == [p EXCEPT !.seq = n]

IsEvent(p) == p.kind # "data"

(* The number of samples in a queue, counted one by one: sample j of the   *)
(* packet at place i is the pair <<i, j>>.                                 *)
SamplesOf(q) == UNION {{i} \X (1 .. q[i].count) : i \in DOMAIN q}
SampleCount(q) == Cardinality(SamplesOf(q))
PlacesOf(q, kinds) == {i \in DOMAIN q : q[i].kind \in kinds}
PacketCount(q, kinds) == Cardinality(PlacesOf(q, kinds))

--------------------------------------------------------------------------------
(* The packets of q before the first one of the given kinds.               *)
SelectPrefix(q, kinds) ==
    SubSeq(q, 1, Cardinality({n \in DOMAIN q : \A i \in 1 .. n : q[i].kind \notin kinds}))

(***************************************************************************)
(* The gap check.                                                          *)
(***************************************************************************)

(* checkForGaps throws and the packet is not queued: a data packet before  *)
(* the first event packet, or a gap packet from outside.                   *)
ThrowsOnGapCheck(p) ==
    \/ p.kind = "data" /\ gapCheckState = "uninitialized"
    \/ p.kind = "gap" /\ gapCheckState # "disabled"

Abs(x) == IF x < 0 THEN -x ELSE x

(* doGapCheck: the distance from the expected offset, compared exactly for *)
(* integer domains and with a tolerance of delta/10 for Float64.           *)
GapDiff(p) == p.offset - nextExpectedPacketOffset
GapDetected(p) ==
    /\ p.kind = "data" /\ gapCheckState = "running"
    /\ IF domainSampleType = "Float64" THEN 10 * Abs(GapDiff(p)) > delta
                                       ELSE GapDiff(p) # 0

(* Fault: the last sample of the packet is not counted.                    *)
ExpectAfterShort(p) ==
    /\ nextExpectedPacketOffset' = p.offset + (p.count - 1) * delta
    /\ gapCheckState' = "running"
    /\ UNCHANGED <<delta, domainSampleType>>

(* beginGapCheck and the second half of doGapCheck.                        *)
ExpectAfter(p) ==
    /\ nextExpectedPacketOffset' = p.offset + p.count * delta
    /\ gapCheckState' = "running"
    /\ UNCHANGED <<delta, domainSampleType>>

initGapCheck(p) ==
    \/ /\ p.domain.rule = "unassigned"
       /\ gapCheckState' = IF gapCheckState = "uninitialized" THEN "not_available"
                                                              ELSE gapCheckState
       /\ UNCHANGED <<nextExpectedPacketOffset, delta, domainSampleType>>
    \/ /\ p.domain.rule \in {"null", "explicit"}
       /\ gapCheckState' = "not_available"
       /\ UNCHANGED <<nextExpectedPacketOffset, delta, domainSampleType>>
    \/ /\ p.domain.rule = "linear"
       /\ domainSampleType' = p.domain.sampleType
       /\ \/ /\ p.domain.sampleType # "invalid"
             /\ delta' = p.domain.delta
             /\ gapCheckState' = "initialized"
          \/ /\ p.domain.sampleType = "invalid"
             /\ gapCheckState' = "not_available"
             /\ UNCHANGED delta
       /\ UNCHANGED nextExpectedPacketOffset

checkForGaps(p) ==
    \/ p.kind = "descriptor" /\ gapCheckState # "disabled" /\ initGapCheck(p)
    \/ p.kind = "data" /\ gapCheckState \in {"initialized", "running"} /\ ExpectAfter(p)
    \/ /\ \/ gapCheckState = "disabled"
          \/ p.kind = "data" /\ gapCheckState = "not_available"
          \/ p.kind = "other"
       /\ UNCHANGED gapVars

--------------------------------------------------------------------------------
(***************************************************************************)
(* Counting and remembering descriptors.                                   *)
(***************************************************************************)

(* The value (domain) descriptor after the events of q, cur before them:   *)
(* an event that leaves the parameter out changes nothing.                 *)
LastValue(q, cur) ==
    LET at == {i \in DOMAIN q : q[i].kind = "descriptor" /\ q[i].value # NoDescriptor}
    IN IF at = {} THEN cur ELSE q[CHOOSE i \in at : \A j \in at : j <= i].value
LastDomain(q, cur) ==
    LET at == {i \in DOMAIN q : q[i].kind = "descriptor" /\ q[i].domain.rule # "unassigned"}
    IN IF at = {} THEN cur ELSE q[CHOOSE i \in at : \A j \in at : j <= i].domain

(* Fault: a parameter the event leaves out erases the known descriptor.    *)
onPacketsEnqueuedErasing(ps) ==
    /\ samplesCnt' = samplesCnt + SampleCount(ps)
    /\ eventPacketsCnt' = eventPacketsCnt + PacketCount(ps, Kinds \ {"data"})
    /\ valueDataDescriptor' = IF ps[Len(ps)].kind = "descriptor" THEN ps[Len(ps)].value
                                                               ELSE valueDataDescriptor
    /\ domainDataDescriptor' = LastDomain(ps, domainDataDescriptor)

(* onPacketEnqueued for every packet of ps, in that order.                 *)
onPacketsEnqueued(ps) ==
    /\ samplesCnt' = samplesCnt + SampleCount(ps)
    /\ eventPacketsCnt' = eventPacketsCnt + PacketCount(ps, Kinds \ {"data"})
    /\ valueDataDescriptor' = LastValue(ps, valueDataDescriptor)
    /\ domainDataDescriptor' = LastDomain(ps, domainDataDescriptor)

(* Fault: gap packets are taken off the event counter too.                 *)
onPacketDequeuedTwice(p) ==
    /\ samplesCnt' = samplesCnt - p.count
    /\ eventPacketsCnt' = eventPacketsCnt - (IF IsEvent(p) THEN 1 ELSE 0)
    /\ gapPacketsCnt' = gapPacketsCnt - (IF p.kind = "gap" THEN 1 ELSE 0)

onPacketDequeued(p) ==
    /\ samplesCnt' = samplesCnt - p.count
    /\ eventPacketsCnt' = eventPacketsCnt - (IF p.kind = "descriptor" THEN 1 ELSE 0)
    /\ gapPacketsCnt' = gapPacketsCnt - (IF p.kind = "gap" THEN 1 ELSE 0)

(* Fault: the gap counter is cleared although gap packets may be left.     *)
countPacketsClearing(q) ==
    /\ samplesCnt' = SampleCount(q)
    /\ eventPacketsCnt' = PacketCount(q, {"descriptor", "other"})
    /\ gapPacketsCnt' = 0

(* countPackets, over the queue q: gap packets count as event packets and  *)
(* gapPacketsCnt is left alone.                                            *)
countPackets(q) ==
    /\ samplesCnt' = SampleCount(q)
    /\ eventPacketsCnt' = PacketCount(q, Kinds \ {"data"})
    /\ UNCHANGED gapPacketsCnt

--------------------------------------------------------------------------------
(***************************************************************************)
(* Producers: the packet a signal may send, and the enqueue methods.       *)
(***************************************************************************)
DataPackets == {DataPacket(n, off, valueDataDescriptor, domainDataDescriptor) :
                   n \in SampleCounts, off \in Offsets}
EventPackets ==
    UNION {IF k = "descriptor"
           THEN {EventPacket(k, v, d) : v \in ValueDescriptors \cup {NoDescriptor},
                                        d \in DomainDescriptors}
           ELSE {EventPacket(k, NoDescriptor, NoDomain)} : k \in EventIds}
SentPackets == DataPackets \cup EventPackets

(* A data packet that reaches an inactive port is dropped (IGNORED); event *)
(* packets are queued regardless.  getActive is read before the lock.      *)
Accepted(p) == (active \/ IsEvent(p)) /\ ~ThrowsOnGapCheck(p)

(* Faults: the gap packet is not counted; events overtake the queue; the   *)
(* queue stays marked empty.                                               *)
EnqueueUncounted(p) ==
    /\ Accepted(p)
    /\ checkForGaps(p)
    /\ packets' = packets \o (IF GapDetected(p) THEN <<GapPacket(GapDiff(p))>> ELSE <<>>)
                  \o <<Numbered(p, sent + 1)>>
    /\ onPacketsEnqueued(<<p>>)
    /\ queueEmpty' = FALSE
    /\ sent' = sent + 1
    /\ UNCHANGED <<gapPacketsCnt, active, delivered, readDescriptor, strays>>
EnqueueEventFirst(p) ==
    /\ Accepted(p)
    /\ checkForGaps(p)
    /\ packets' = IF IsEvent(p) THEN <<Numbered(p, sent + 1)>> \o packets
                                ELSE Append(packets, Numbered(p, sent + 1))
    /\ onPacketsEnqueued(<<p>>)
    /\ queueEmpty' = FALSE
    /\ sent' = sent + 1
    /\ UNCHANGED <<gapPacketsCnt, active, delivered, readDescriptor, strays>>
EnqueueUnmarked(p) ==
    /\ Accepted(p)
    /\ checkForGaps(p)
    /\ packets' = Append(packets, Numbered(p, sent + 1))
    /\ onPacketsEnqueued(<<p>>)
    /\ sent' = sent + 1
    /\ UNCHANGED <<queueEmpty, gapPacketsCnt, active, delivered, readDescriptor, strays>>

(* enqueueInternal: enqueue, enqueueAndStealRef, enqueueOnThisThread and   *)
(* enqueueWithScheduler differ only in the notification that follows.      *)
Enqueue(p) ==
    /\ Accepted(p)
    /\ checkForGaps(p)
    /\ LET gap == IF GapDetected(p) THEN <<GapPacket(GapDiff(p))>> ELSE <<>>
       IN /\ packets' = packets \o gap \o <<Numbered(p, sent + 1)>>
          /\ gapPacketsCnt' = gapPacketsCnt + Len(gap)
    /\ onPacketsEnqueued(<<p>>)
    /\ queueEmpty' = FALSE
    /\ sent' = sent + 1
    /\ UNCHANGED <<active, delivered, readDescriptor, strays>>

(* enqueueMultipleInternal: an inactive port loses event packets too, and  *)
(* the gap check does not run.                                             *)
EnqueueList(ps) ==
    /\ active
    /\ packets' = packets \o ps
    /\ onPacketsEnqueued(ps)
    /\ queueEmpty' = FALSE
    /\ sent' = sent + Len(ps)
    /\ UNCHANGED <<gapPacketsCnt, gapVars, active, delivered, readDescriptor, strays>>

(* Fault: the packets of the list are taken from its end.                  *)
EnqueueMultipleBackwards(ps) ==
    EnqueueList([i \in DOMAIN ps |-> LET j == Len(ps) + 1 - i IN Numbered(ps[j], sent + j)])

EnqueueMultiple(ps) ==
    EnqueueList([i \in DOMAIN ps |-> Numbered(ps[i], sent + i)])

(* The rvalue overload takes the packets with popBack, from the last one.  *)
EnqueueMultipleAndStealRef(ps) ==
    EnqueueList([i \in DOMAIN ps |-> LET j == Len(ps) + 1 - i IN Numbered(ps[j], sent + j)])

(* No descriptor was ever announced on this connection.                    *)
NothingKnown == valueDataDescriptor = NoDescriptor /\ domainDataDescriptor.rule = "unassigned"

(* Fault: the event put in front is not counted.                           *)
EnqueueLastDescriptorUncounted ==
    /\ ~NothingKnown
    /\ packets' = <<EventPacket("descriptor", valueDataDescriptor, domainDataDescriptor)>>
                  \o packets
    /\ UNCHANGED <<queueEmpty, counters, gapVars, descVars, active, history>>

(* setListener asks for the known descriptors again, at the front of the   *)
(* queue; neither queueEmpty nor a notification tells anyone.              *)
EnqueueLastDescriptor ==
    /\ ~NothingKnown
    /\ packets' = <<EventPacket("descriptor", valueDataDescriptor, domainDataDescriptor)>>
                  \o packets
    /\ eventPacketsCnt' = eventPacketsCnt + 1
    /\ UNCHANGED <<queueEmpty, samplesCnt, gapPacketsCnt, gapVars, descVars, active, history>>

--------------------------------------------------------------------------------
(***************************************************************************)
(* Consumers.                                                              *)
(***************************************************************************)

(* What the consumer has seen once the packets of q are handed to it.      *)
HandOut(q) ==
    /\ delivered' = delivered + Cardinality({i \in DOMAIN q : q[i].seq # 0})
    /\ readDescriptor' = LastValue(q, readDescriptor)
    /\ strays' = strays + PacketCount(q, {"other"})
    /\ UNCHANGED sent

(* Fault: the newest packet is taken instead of the oldest.                *)
DequeueBack ==
    /\ packets # <<>>
    /\ packets' = SubSeq(packets, 1, Len(packets) - 1)
    /\ onPacketDequeued(packets[Len(packets)])
    /\ HandOut(<<packets[Len(packets)]>>)
    /\ UNCHANGED <<queueEmpty, gapVars, descVars, active>>

Dequeue ==
    /\ packets # <<>>
    /\ packets' = Tail(packets)
    /\ onPacketDequeued(Head(packets))
    /\ HandOut(<<Head(packets)>>)
    /\ UNCHANGED <<queueEmpty, gapVars, descVars, active>>

(* Fault: the queue is not marked empty.                                   *)
DequeueNothingUnmarked ==
    /\ packets = <<>>
    /\ UNCHANGED <<packets, queueEmpty, counters, gapVars, descVars, active, history>>

(* dequeue finds nothing: only now is the queue marked empty.              *)
DequeueNothing ==
    /\ packets = <<>>
    /\ queueEmpty' = TRUE
    /\ UNCHANGED <<packets, counters, gapVars, descVars, active, history>>

(* Fault: the sample counter is not reset.                                 *)
DequeueAllKeepingSamples ==
    /\ packets' = <<>>
    /\ eventPacketsCnt' = 0
    /\ HandOut(packets)
    /\ UNCHANGED <<queueEmpty, samplesCnt, gapPacketsCnt, gapVars, descVars, active>>

DequeueAll ==
    /\ packets' = <<>>
    /\ samplesCnt' = 0
    /\ eventPacketsCnt' = 0
    /\ HandOut(packets)
    /\ UNCHANGED <<queueEmpty, gapPacketsCnt, gapVars, descVars, active>>

DequeueUpTo(n) ==
    LET k == IF n < Len(packets) THEN n ELSE Len(packets)
    IN /\ packets' = SubSeq(packets, k + 1, Len(packets))
       /\ countPackets(SubSeq(packets, k + 1, Len(packets)))
       /\ HandOut(SubSeq(packets, 1, k))
       /\ UNCHANGED <<queueEmpty, gapVars, descVars, active>>

(* setActive of the port, with a value other than the present one.         *)
SetActive ==
    /\ active' = ~active
    /\ UNCHANGED <<packets, queueEmpty, counters, gapVars, descVars, history>>

--------------------------------------------------------------------------------
ConnInit ==
    /\ packets = <<>> /\ queueEmpty = TRUE
    /\ samplesCnt = 0 /\ eventPacketsCnt = 0 /\ gapPacketsCnt = 0
    /\ gapCheckState = IF GapChecking THEN "uninitialized" ELSE "disabled"
    /\ nextExpectedPacketOffset = 0 /\ delta = 0 /\ domainSampleType = "invalid"
    /\ valueDataDescriptor = NoDescriptor /\ domainDataDescriptor = NoDomain
    /\ active = TRUE
    /\ sent = 0 /\ delivered = 0 /\ readDescriptor = NoDescriptor /\ strays = 0

(* Bounds of the model, not of the code.                                   *)
Room(n) == sent + n <= MaxSent /\ Len(packets) + n <= MaxQueue
Batches == UNION {[1 .. n -> DataPackets] : n \in 1 .. MaxBatch}

ConnNext ==
    \/ /\ "enqueue" \in Producers /\ Room(1)
       /\ \E p \in SentPackets : Enqueue(p)
    \/ /\ "enqueueMultiple" \in Producers
       /\ \E ps \in Batches : Room(Len(ps)) /\ EnqueueMultiple(ps)
    \/ /\ "enqueueMultipleAndStealRef" \in Producers
       /\ \E ps \in Batches : Room(Len(ps)) /\ EnqueueMultipleAndStealRef(ps)
    \/ "enqueueLastDescriptor" \in Producers /\ Len(packets) < MaxQueue /\ EnqueueLastDescriptor
    \/ "dequeue" \in Consumers /\ (Dequeue \/ DequeueNothing)
    \/ "dequeueAll" \in Consumers /\ DequeueAll
    \/ "dequeueUpTo" \in Consumers /\ \E n \in 1 .. MaxQueue : DequeueUpTo(n)
    \/ SetActive

ConnSpec == ConnInit /\ [][ConnNext]_connVars

--------------------------------------------------------------------------------
(***************************************************************************)
(* The getters a reader asks before it reads.                              *)
(***************************************************************************)
hasEventPacket == eventPacketsCnt # 0 \/ gapPacketsCnt # 0
hasGapPacket == gapPacketsCnt # 0

(* The walk over the queue: samples before the first packet of one of the  *)
(* kinds, or all of them.                                                  *)
SamplesBefore(kinds) ==
    SampleCount(SelectPrefix(packets, kinds))

getSamplesUntilNextEventPacket ==
    IF ~hasEventPacket THEN samplesCnt ELSE SamplesBefore({"descriptor", "gap", "other"})
getSamplesUntilNextDescriptor ==
    IF eventPacketsCnt = 0 THEN samplesCnt ELSE SamplesBefore({"descriptor"})
getSamplesUntilNextGapPacket ==
    IF gapPacketsCnt = 0 THEN samplesCnt ELSE SamplesBefore({"gap"})

--------------------------------------------------------------------------------
(***************************************************************************)
(* Properties.                                                             *)
(***************************************************************************)

(* Every variable has its type; in particular no SizeT counter of          *)
(* onPacketDequeued ever goes below zero.                                  *)
ConnTypeOK ==
    /\ packets \in Seq(Packet)
    /\ queueEmpty \in BOOLEAN /\ active \in BOOLEAN
    /\ samplesCnt \in Nat /\ eventPacketsCnt \in Nat /\ gapPacketsCnt \in Nat
    /\ gapCheckState \in GapCheckStates
    /\ nextExpectedPacketOffset \in Int /\ delta \in Nat
    /\ domainSampleType \in {"Int64", "UInt64", "Float64", "invalid"}
    /\ valueDataDescriptor \in ValueDescriptors \cup {NoDescriptor}
    /\ domainDataDescriptor \in DomainDescriptor
    /\ sent \in Nat /\ delivered \in Nat /\ strays \in Nat
    /\ readDescriptor \in ValueDescriptors \cup {NoDescriptor}

(* getAvailableSamples, an incrementally kept counter, is the number of    *)
(* samples in the queue, whatever mix of methods filled and emptied it.    *)
SamplesExact == samplesCnt = SampleCount(packets)

(* The counters never run below what is queued.                            *)
CountersCover ==
    /\ eventPacketsCnt >= PacketCount(packets, {"descriptor", "other"})
    /\ gapPacketsCnt >= PacketCount(packets, {"gap"})

(* The shortcut the getSamplesUntilNext... methods take on their counters  *)
(* never steps over a queued event: the answer is the one of the walk, so  *)
(* a reader that trusts it never reads across a descriptor change or gap.  *)
FastPathsRight ==
    /\ getSamplesUntilNextEventPacket = SamplesBefore({"descriptor", "gap", "other"})
    /\ getSamplesUntilNextDescriptor = SamplesBefore({"descriptor"})
    /\ getSamplesUntilNextGapPacket = SamplesBefore({"gap"})

(* What hasEventPacket and hasGapPacket answer for a consumer that reads   *)
(* with dequeue.  hasGapPacket tells exactly whether a gap packet is       *)
(* queued.  hasEventPacket tells exactly whether an event packet is queued *)
(* (connection.h: "True if the connection has an event packet") until an   *)
(* event with an id of neither kind is handed out: onPacketDequeued takes  *)
(* that one off no counter, and the answer stays TRUE from then on.        *)
HasEventPacketRight ==
    hasEventPacket <=> strays > 0 \/ \E i \in DOMAIN packets : IsEvent(packets[i])
HasGapPacketRight == hasGapPacket <=> \E i \in DOMAIN packets : packets[i].kind = "gap"
CountersExact == HasEventPacketRight /\ HasGapPacketRight

(* First in, first out, nothing lost, nothing twice: the packets of the    *)
(* producers that are queued are exactly the ones accepted after the last  *)
(* one handed out, in the order of the calls and of the lists given.       *)
FifoWindow ==
    LET own == {i \in DOMAIN packets : packets[i].seq # 0}
    IN /\ Cardinality(own) = sent - delivered
       /\ \A i \in own : packets[i].seq = delivered + Cardinality({j \in own : j <= i})

(* Data packets i < j of the queue with no data packet between them.       *)
Consecutive(i, j) ==
    /\ i < j /\ packets[i].kind = "data" /\ packets[j].kind = "data"
    /\ \A k \in i + 1 .. j - 1 : packets[k].kind # "data"
DomainKept(i, j) ==
    \A k \in i + 1 .. j - 1 :
        packets[k].kind = "descriptor" => packets[k].domain.rule = "unassigned"
Checkable(d) == d.rule = "linear" /\ d.sampleType # "invalid"
Distance(i, j) ==
    packets[j].offset - (packets[i].offset + packets[i].count * packets[j].domain.delta)
Discontinuous(i, j) ==
    IF packets[j].domain.sampleType = "Float64"
    THEN 10 * Abs(Distance(i, j)) > packets[j].domain.delta
    ELSE Distance(i, j) # 0

(* With gap checking on, the consumer finds a gap packet directly before a *)
(* data packet exactly when it does not continue the one before it in the  *)
(* same linear domain, and the packet states the size of the gap.          *)
GapsMarked ==
    \A i, j \in DOMAIN packets :
        Consecutive(i, j) /\ DomainKept(i, j) /\ Checkable(packets[j].domain) =>
            /\ (packets[j - 1].kind = "gap") <=> Discontinuous(i, j)
            /\ packets[j - 1].kind = "gap" => packets[j - 1].diff = Distance(i, j)

(* A consumer that follows the descriptor events reads every data packet   *)
(* under the descriptor it was sent with.                                  *)
DescriptorInForce ==
    \A i \in DOMAIN packets :
        packets[i].kind = "data" =>
            packets[i].value = LastValue(SubSeq(packets, 1, i - 1), readDescriptor)

(* When the queue is drained the consumer knows the descriptor announced   *)
(* last, even if the listener was replaced on the way.                     *)
LastDescriptorReachesConsumer == LastValue(packets, readDescriptor) = valueDataDescriptor
================================================================================
