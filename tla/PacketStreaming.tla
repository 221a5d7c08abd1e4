--------------------------- MODULE PacketStreaming ---------------------------
(***************************************************************************)
(* The packet streaming protocol: a PacketStreamingServer turns the        *)
(* packets of many signals into one stream of buffers, a                   *)
(* PacketStreamingClient makes packets of them again.  A packet that goes  *)
(* to several signals, or is the domain packet of others, crosses the link *)
(* once: both sides remember its id, and the client is told when it may    *)
(* forget it.  The server learns that from the destructor of the packet,   *)
(* which may run on any thread.  The link itself is reliable and ordered.  *)
(***************************************************************************)
EXTENDS Integers, Sequences, FiniteSets, SequencesExt

CONSTANTS
    Signals, Packets,
    NoPacket,          \* domainPacketId -1
    DomainOf,          \* the domain packet of each packet, or NoPacket
    Descriptors,       \* value descriptors
    Unchanged,         \* a descriptor parameter that is not assigned
    Payload,           \* payload size of each packet
    ReleaseThreshold, CacheablePayloadMax,
    FirstDescriptor,   \* every connection starts with it, for value and domain
    MaxSends,          \* bound: packets sent and descriptors changed by all signals
    MaxOnWire          \* bound: no write task is taken when as many buffers are under way

ASSUME PacketStreamingAssumption ==
    /\ NoPacket \notin Packets /\ Unchanged \notin Descriptors
    /\ DomainOf \in [Packets -> Packets \cup {NoPacket}]
    /\ \A p \in Packets : DomainOf[p] # NoPacket => DomainOf[DomainOf[p]] = NoPacket
    /\ Payload \in [Packets -> Nat]
    /\ ReleaseThreshold \in Nat \ {0} /\ CacheablePayloadMax \in Nat
    /\ MaxSends \in Nat /\ MaxOnWire \in Nat
    /\ FirstDescriptor \in Descriptors

VARIABLES
    pending,           \* per signal: what its connection holds for the server
    source,            \* per signal: its descriptor
    kept,              \* packets their creator still refers to
    alive,             \* packets not destroyed
    descriptorOf,      \* the descriptor each packet was made with
    sends,             \* counter for the bound
    out,               \* server: queue, cacheableBuffersGroups and counters
    dataDescriptors,   \* server: signals whose descriptor event was added
    sent, readyForRelease,  \* server: packetCollection
    wire,              \* buffers on their way
    known,             \* client: descriptors of each signal
    referencedPackets, \* client: packets kept for later references
    waiting,           \* client: per domain packet, the buffers that came before it
    received,          \* client: everything put into its queue, in order
    failed,            \* client: what it threw, if anything
    addedTo, delayed, flagLost  \* history: see the properties

sourceVars == <<pending, source, kept, descriptorOf, sends>>
serverVars == <<out, dataDescriptors>>
collection == <<alive, sent, readyForRelease>>
clientVars == <<known, referencedPackets, waiting, received, failed, delayed, flagLost>>
streamVars == <<sourceVars, serverVars, collection, wire, clientVars, addedTo>>

Event(value, domain) == [kind |-> "event", value |-> value, domain |-> domain]
Data(p) == [kind |-> "data", packet |-> p]
LaterEvents == {Event(d, Unchanged) : d \in Descriptors}
                   \cup {Event(Unchanged, d) : d \in Descriptors}

--------------------------------------------------------------------------------
(* Buffers.  Every header has size 1 and a release takes one unit per id.  *)

Header(type, signal, payload) ==
    [type |-> type, signal |-> signal, payload |-> payload, packet |-> NoPacket,
     canRelease |-> FALSE, event |-> Event(Unchanged, Unchanged), ids |-> {}, group |-> 0]
EventBuffer(s, e) == [Header("event", s, 1) EXCEPT !.event = e]
DataBuffer(s, p, mark) ==
    [Header("data", s, Payload[p]) EXCEPT !.packet = p, !.canRelease = mark]
AlreadySentBuffer(s, p, mark) ==
    [Header("alreadySent", s, 0) EXCEPT !.packet = p, !.canRelease = mark]
ReleaseBuffer(ids) ==
    [Header("release", NoPacket, Cardinality(ids)) EXCEPT !.ids = ids]

Size(b) == 1 + b.payload
IsCacheable(b) == b.group # 0

(* Fault: one group for all cacheable buffers of the queue.                *)
CurrentGroupKept(o) == IF o.queue = <<>> THEN 1 ELSE o.current

(* getPacketCacheableGroupId: a new group after a non-cacheable buffer;    *)
(* group 0, to which the counter of the code returns only by overflow, is  *)
(* the one of the non-cacheable buffers.                                   *)
CurrentGroup(o) ==
    IF o.queue = <<>> THEN 1
    ELSE IF IsCacheable(Last(o.queue)) THEN o.current ELSE o.current + 1

Enlarge(groups, g, n) ==
    [h \in DOMAIN groups \cup {g} |->
        IF h # g THEN groups[h]
        ELSE IF g \in DOMAIN groups
             THEN [count |-> groups[g].count + 1, size |-> groups[g].size + n]
             ELSE [count |-> 1, size |-> n]]

(* queuePacketBuffer                                                       *)
QueuePacketBuffer(o, b) ==
    IF b.payload <= CacheablePayloadMax
    THEN LET g == CurrentGroup(o)
         IN [o EXCEPT !.queue = Append(@, [b EXCEPT !.group = g]),
                      !.current = g,
                      !.groups = Enlarge(@, g, Size(b))]
    ELSE [o EXCEPT !.queue = Append(@, b), !.nonCacheable = @ + 1]
--------------------------------------------------------------------------------
(* The server.                                                             *)

Refers(b, p) == b.type = "data" /\ b.packet = p
(* A buffer holds its packet until it is destroyed: a cacheable one when   *)
(* its payload is copied, another one when its write is done.              *)
HeldDirectly(p, pend, queue, onWire, creators) ==
    \/ p \in creators
    \/ \E s \in Signals : Data(p) \in ToSet(pend[s])
    \/ \E b \in ToSet(queue) : Refers(b, p)
    \/ \E b \in ToSet(onWire) : Refers(b, p) /\ ~IsCacheable(b)

(* The packets somebody refers to, a value packet to its domain packet.    *)
Left(pend, queue, onWire, creators) ==
    LET Held(p) == HeldDirectly(p, pend, queue, onWire, creators)
    IN {p \in alive : Held(p) \/ \E v \in alive : DomainOf[v] = p /\ Held(v)}

(* The packets that lose their last reference are destroyed, value packets *)
(* before the domain packet they refer to, and the destruct callback moves *)
(* their ids from sent to readyForRelease.                                 *)
Destroy(pend, queue, onWire, creators, sentNow, readyNow) ==
    LET left == Left(pend, queue, onWire, creators)
    IN /\ alive' = left
       /\ sent' = sentNow \cap left
       /\ readyForRelease' = readyNow \cup (sentNow \ left)

(* shouldSendPacket                                                        *)
SentAfter(p, mark) == IF mark THEN sent \ {p} ELSE sent \cup {p}

(* Fault: references from value packets are not counted.                   *)
OnlyReferenceOfBuffers(s, p) ==
    ~HeldDirectly(p, [pending EXCEPT ![s] = Tail(@)], out.queue, wire, kept)

(* canReleasePacket: the caller handed over the only reference.            *)
OnlyReference(s, p) ==
    /\ ~HeldDirectly(p, [pending EXCEPT ![s] = Tail(@)], out.queue, wire, kept)
    /\ ~\E v \in alive : DomainOf[v] = p

(* checkAndSendReleasePacket(false)                                        *)
ReleaseDue(ready) == Cardinality(ready) >= ReleaseThreshold
CheckAndSendReleasePacket(o, ready) ==
    IF ReleaseDue(ready) THEN QueuePacketBuffer(o, ReleaseBuffer(ready)) ELSE o
ReadyAfter(ready) == IF ReleaseDue(ready) THEN {} ELSE ready

(* addDaqPacket of the next packet of a signal, an event.                  *)
AddEventPacket(s) ==
    /\ pending[s] # <<>> /\ Head(pending[s]).kind = "event"
    /\ LET e == Head(pending[s])
       IN /\ out' = CheckAndSendReleasePacket(QueuePacketBuffer(out, EventBuffer(s, e)),
                                               readyForRelease)
          /\ dataDescriptors' = IF e.value = Unchanged THEN dataDescriptors
                                ELSE dataDescriptors \cup {s}
          /\ addedTo' = [addedTo EXCEPT ![s] = Append(@, e)]
    /\ pending' = [pending EXCEPT ![s] = Tail(@)]
    /\ Destroy(pending', out'.queue, wire, kept, sent, ReadyAfter(readyForRelease))
    /\ UNCHANGED <<source, kept, descriptorOf, sends, wire, clientVars>>

(* addDaqPacket of a data packet, by reference or (moved) handed over: the *)
(* packet, or its id alone if it was sent before.  A packet handed over    *)
(* and sent before may be destroyed on return, before the release check.   *)
AddDataPacket(s, moved) ==
    /\ pending[s] # <<>> /\ Head(pending[s]).kind = "data"
    /\ s \in dataDescriptors
    /\ LET p == Head(pending[s]).packet
           mark == moved /\ OnlyReference(s, p)
           b == IF p \in sent THEN AlreadySentBuffer(s, p, mark) ELSE DataBuffer(s, p, mark)
           rest == [pending EXCEPT ![s] = Tail(@)]
           queued == QueuePacketBuffer(out, b)
           gone == IF moved THEN SentAfter(p, mark) \ Left(rest, queued.queue, wire, kept) ELSE {}
           ready == readyForRelease \cup gone
       IN /\ out' = CheckAndSendReleasePacket(queued, ready)
          /\ pending' = rest
          /\ Destroy(rest, out'.queue, wire, kept, SentAfter(p, mark) \ gone, ReadyAfter(ready))
          /\ addedTo' = [addedTo EXCEPT ![s] = Append(@, Data(p))]
    /\ UNCHANGED <<source, kept, descriptorOf, sends, dataDescriptors, wire, clientVars>>

(* One task of getStreamingWriteTasks: a whole group of cacheable buffers, *)
(* or one other buffer.                                                    *)
TaskLength ==
    IF IsCacheable(Head(out.queue)) THEN out.groups[Head(out.queue).group].count ELSE 1
GetStreamingWriteTask ==
    /\ out.queue # <<>> /\ Len(wire) < MaxOnWire
    /\ LET n == TaskLength
           rest == SubSeq(out.queue, n + 1, Len(out.queue))
       IN /\ wire' = wire \o SubSeq(out.queue, 1, n)
          /\ out' = IF IsCacheable(Head(out.queue))
                    THEN [out EXCEPT !.queue = rest,
                                     !.groups = [g \in DOMAIN @ \ {Head(out.queue).group} |-> @[g]]]
                    ELSE [out EXCEPT !.queue = rest, !.nonCacheable = @ - 1]
    /\ Destroy(pending, out'.queue, wire', kept, sent, readyForRelease)
    /\ UNCHANGED <<sourceVars, dataDescriptors, clientVars, addedTo>>
--------------------------------------------------------------------------------
(* The client.  Unchanged stands for a descriptor it has not been told.    *)
(* waiting is packetBuffersWaitingForDomainPackets.  referencedPacketBuffers *)
(* is not kept apart: its keys are the packets of the buffers that wait,   *)
(* with which it shares the buffers.                                       *)

Received(s, p, d) == [kind |-> "data", signal |-> s, packet |-> p, descriptor |-> d]
ReceivedEvent(s, e) == [kind |-> "event", signal |-> s, value |-> e.value, domain |-> e.domain]

(* Fault: only a change of the value descriptor is forwarded.              *)
ForwardedValueOnly(s, e) == e.value # Unchanged /\ known[s].value # e.value

(* addEventPacketBuffer: an event that tells nothing new is not forwarded. *)
Forwarded(s, e) ==
    \/ e.value # Unchanged /\ known[s].value # e.value
    \/ e.domain # Unchanged /\ known[s].domain # e.domain
    \/ known[s].value = Unchanged \/ known[s].domain = Unchanged

(* Fault: the descriptors are inserted and never replaced.                 *)
AddEventPacketBufferInsertOnly(b) ==
    /\ b.type = "event"
    /\ known' = [known EXCEPT
            ![b.signal].value = IF @ # Unchanged THEN @ ELSE b.event.value,
            ![b.signal].domain = IF @ # Unchanged THEN @ ELSE b.event.domain]
    /\ received' = IF Forwarded(b.signal, b.event)
                   THEN Append(received, ReceivedEvent(b.signal, b.event)) ELSE received
    /\ UNCHANGED <<referencedPackets, waiting, failed, delayed, flagLost>>

AddEventPacketBuffer(b) ==
    /\ b.type = "event"
    /\ known' = [known EXCEPT
            ![b.signal].value = IF b.event.value = Unchanged THEN @ ELSE b.event.value,
            ![b.signal].domain = IF b.event.domain = Unchanged THEN @ ELSE b.event.domain]
    /\ received' = IF Forwarded(b.signal, b.event)
                   THEN Append(received, ReceivedEvent(b.signal, b.event)) ELSE received
    /\ UNCHANGED <<referencedPackets, waiting, failed, delayed, flagLost>>

(* insert into referencedPackets, which replaces nothing.                  *)
Remember(packets, p, d, mark) ==
    IF mark THEN packets
    ELSE [q \in DOMAIN packets \cup {p} |-> IF q \in DOMAIN packets THEN packets[q] ELSE d]
Forget(packets, ps) == [q \in DOMAIN packets \ ps |-> packets[q]]

(* The buffer b waits for its domain packet, with the other signals that   *)
(* ask for the same packet meanwhile.                                      *)
Wait(b) == [packet |-> b.packet, signal |-> b.signal, canRelease |-> b.canRelease, more |-> <<>>]
Waits(b) == DomainOf[b.packet] # NoPacket /\ DomainOf[b.packet] \notin DOMAIN referencedPackets

(* What one buffer that has waited puts into the queue: the descriptor is  *)
(* looked up now, not when the buffer arrived.                             *)
Woken(w) ==
    <<Received(w.signal, w.packet, known[w.signal].value)>>
        \o [i \in DOMAIN w.more |-> Received(w.more[i], w.packet, known[w.signal].value)]
(* The first buffer of a packet in a list.                                 *)
FirstOf(ws, p) == CHOOSE i \in DOMAIN ws : ws[i].packet = p /\ \A j \in 1 .. i - 1 : ws[j].packet # p
RememberWoken(packets, ws) ==
    LET new == {ws[i].packet : i \in {k \in DOMAIN ws : ~ws[k].canRelease}} \ DOMAIN packets
    IN [q \in DOMAIN packets \cup new |->
           IF q \in DOMAIN packets THEN packets[q] ELSE known[ws[FirstOf(ws, q)].signal].value]

(* Fault: the packets that wait are forgotten with the domain packet.      *)
ProcessDataLosingSome(b) ==
    /\ received' = Append(received, Received(b.signal, b.packet, known[b.signal].value))
    /\ waiting' = [waiting EXCEPT ![b.packet] = <<>>]
    /\ referencedPackets' =
            Remember(referencedPackets, b.packet, known[b.signal].value, b.canRelease)

(* addDataPacketBuffer of a packet that need not wait: itself, then the    *)
(* packets that have waited for it as their domain packet.                 *)
ProcessData(b) ==
    LET ready == waiting[b.packet]
        desc == known[b.signal].value
    IN /\ received' = received \o <<Received(b.signal, b.packet, desc)>>
                          \o FlattenSeq([i \in DOMAIN ready |-> Woken(ready[i])])
       /\ waiting' = [waiting EXCEPT ![b.packet] = <<>>]
       /\ referencedPackets' =
              Remember(RememberWoken(referencedPackets, ready), b.packet, desc, b.canRelease)
(* "Descriptor not registered", for the packet or one that has waited.     *)
Undescribed(b) ==
    \/ known[b.signal].value = Unchanged
    \/ \E i \in DOMAIN waiting[b.packet] : known[waiting[b.packet][i].signal].value = Unchanged

Throw == failed' = TRUE /\ UNCHANGED <<referencedPackets, waiting, received, delayed, flagLost>>

AddDataPacketBuffer(b) ==
    /\ b.type = "data"
    /\ \/ /\ Waits(b)
          /\ waiting' = [waiting EXCEPT ![DomainOf[b.packet]] = Append(@, Wait(b))]
          /\ delayed' = delayed \cup {b.packet}
          /\ UNCHANGED <<referencedPackets, received, failed, flagLost>>
       \/ /\ ~Waits(b)
          /\ IF Undescribed(b)
             THEN Throw
             ELSE ProcessData(b) /\ UNCHANGED <<failed, delayed, flagLost>>
    /\ UNCHANGED known

WaitingFor(d) == {waiting[d][i].packet : i \in DOMAIN waiting[d]}
WaitingPackets == UNION {WaitingFor(d) : d \in Packets}

(* Fault: a packet that waits is not looked for.                           *)
AddReleasePacketBufferNotWaiting(b) ==
    /\ b.type = "release"
    /\ IF b.ids \subseteq DOMAIN referencedPackets
       THEN /\ referencedPackets' = Forget(referencedPackets, b.ids)
            /\ UNCHANGED <<waiting, received, failed, delayed, flagLost>>
       ELSE Throw
    /\ UNCHANGED known

(* addReleasePacketBuffer: forget the packet or, while it waits, mark it.  *)
(* The mark is added to the flags: a second one would clear the bit.       *)
AddReleasePacketBuffer(b) ==
    /\ b.type = "release"
    /\ IF b.ids \subseteq DOMAIN referencedPackets \cup WaitingPackets
       THEN /\ referencedPackets' = Forget(referencedPackets, b.ids)
            /\ waiting' = [d \in Packets |-> [i \in DOMAIN waiting[d] |->
                   IF waiting[d][i].packet \in b.ids \ DOMAIN referencedPackets
                   THEN [waiting[d][i] EXCEPT !.canRelease = ~@] ELSE waiting[d][i]]]
            /\ UNCHANGED <<received, failed, delayed, flagLost>>
       ELSE Throw
    /\ UNCHANGED known

(* Fault: the packet is handed out, the permission to forget it ignored.   *)
AlreadySentReferencedKept(b) ==
    /\ b.packet \in DOMAIN referencedPackets
    /\ received' = Append(received, Received(b.signal, b.packet, referencedPackets[b.packet]))
    /\ UNCHANGED <<referencedPackets, waiting, failed, delayed, flagLost>>

(* addAlreadySentPacketBuffer of a packet that is referenced.              *)
AlreadySentReferenced(b) ==
    /\ b.packet \in DOMAIN referencedPackets
    /\ received' = Append(received, Received(b.signal, b.packet, referencedPackets[b.packet]))
    /\ referencedPackets' = IF b.canRelease THEN Forget(referencedPackets, {b.packet})
                            ELSE referencedPackets
    /\ UNCHANGED <<waiting, failed, delayed, flagLost>>

(* The same of a packet that waits: the CAN_RELEASE flag is not looked at. *)
AlreadySentWaiting(b) ==
    /\ b.packet \notin DOMAIN referencedPackets
    /\ LET dom == DomainOf[b.packet]
       IN waiting' = [waiting EXCEPT ![dom][FirstOf(waiting[dom], b.packet)].more = Append(@, b.signal)]
    /\ flagLost' = IF b.canRelease THEN flagLost \cup {b.packet} ELSE flagLost
    /\ UNCHANGED <<referencedPackets, received, failed, delayed>>

(* A packet of which only the id comes is looked for among those that are  *)
(* referenced, then among those that wait for the same domain packet.      *)
Found(b) ==
    \/ b.packet \in DOMAIN referencedPackets
    \/ DomainOf[b.packet] # NoPacket /\ b.packet \in WaitingFor(DomainOf[b.packet])

AddAlreadySentPacketBuffer(b) ==
    /\ b.type = "alreadySent"
    /\ IF known[b.signal].value # Unchanged /\ Found(b)
       THEN AlreadySentReferenced(b) \/ AlreadySentWaiting(b)
       ELSE Throw
    /\ UNCHANGED known

(* addPacketBuffer                                                         *)
AddPacketBuffer ==
    /\ wire # <<>> /\ ~failed
    /\ LET b == Head(wire)
       IN \/ AddEventPacketBuffer(b) \/ AddDataPacketBuffer(b)
          \/ AddReleasePacketBuffer(b) \/ AddAlreadySentPacketBuffer(b)
    /\ wire' = Tail(wire)
    /\ Destroy(pending, out.queue, wire', kept, sent, readyForRelease)
    /\ UNCHANGED <<sourceVars, serverVars, addedTo>>

--------------------------------------------------------------------------------
(* The signals: every connection starts with both descriptors.             *)

SetDescriptor(s, e) ==
    /\ sends < MaxSends /\ sends' = sends + 1
    /\ pending' = [pending EXCEPT ![s] = Append(@, e)]
    /\ source' = [source EXCEPT ![s] = IF e.value = Unchanged THEN @ ELSE e.value]
    /\ UNCHANGED <<kept, descriptorOf, serverVars, collection, wire, clientVars, addedTo>>

(* A packet is made with the descriptor of the signal that sends it; the   *)
(* creator may send it to several signals, and again.                      *)
SendPacket(p, s) ==
    /\ sends < MaxSends /\ sends' = sends + 1
    /\ p \in kept /\ descriptorOf[p] \in {Unchanged, source[s]}
    /\ descriptorOf' = [descriptorOf EXCEPT ![p] = source[s]]
    /\ pending' = [pending EXCEPT ![s] = Append(@, Data(p))]
    /\ UNCHANGED <<source, kept, serverVars, collection, wire, clientVars, addedTo>>

DropPacket(p) ==
    /\ p \in kept
    /\ kept' = kept \ {p}
    /\ Destroy(pending, out.queue, wire, kept', sent, readyForRelease)
    /\ UNCHANGED <<pending, source, descriptorOf, sends, serverVars, wire, clientVars, addedTo>>

StreamInit ==
    /\ pending = [s \in Signals |-> <<Event(FirstDescriptor, FirstDescriptor)>>]
    /\ source = [s \in Signals |-> FirstDescriptor]
    /\ kept = Packets /\ alive = Packets
    /\ descriptorOf = [p \in Packets |-> Unchanged]
    /\ sends = 0
    /\ out = [queue |-> <<>>, groups |-> [g \in {} |-> 0], nonCacheable |-> 0, current |-> 0]
    /\ dataDescriptors = {} /\ sent = {} /\ readyForRelease = {}
    /\ wire = <<>>
    /\ known = [s \in Signals |-> [value |-> Unchanged, domain |-> Unchanged]]
    /\ referencedPackets = [p \in {} |-> Unchanged]
    /\ waiting = [d \in Packets |-> <<>>] /\ received = <<>>
    /\ failed = FALSE
    /\ addedTo = [s \in Signals |-> <<>>] /\ delayed = {} /\ flagLost = {}

StreamNext ==
    \/ \E s \in Signals, e \in LaterEvents : SetDescriptor(s, e)
    \/ \E p \in Packets, s \in Signals : SendPacket(p, s)
    \/ \E p \in Packets : DropPacket(p)
    \/ \E s \in Signals : AddEventPacket(s)
    \/ \E s \in Signals, moved \in BOOLEAN : AddDataPacket(s, moved)
    \/ GetStreamingWriteTask
    \/ AddPacketBuffer

StreamSpec == StreamInit /\ [][StreamNext]_streamVars
--------------------------------------------------------------------------------
Buffers ==
    [type : {"event", "data", "alreadySent", "release"}, signal : Signals \cup {NoPacket},
     payload : Nat, packet : Packets \cup {NoPacket}, canRelease : BOOLEAN,
     event : [kind : {"event"}, value : Descriptors \cup {Unchanged},
              domain : Descriptors \cup {Unchanged}],
     ids : SUBSET Packets, group : Nat]
(* Every variable keeps its type; a packet the server counts as sent is    *)
(* alive, one whose release is owed is destroyed (packetCollection).       *)
StreamTypeOK ==
    /\ kept \subseteq alive /\ alive \subseteq Packets
    /\ \A i \in DOMAIN out.queue : out.queue[i] \in Buffers
    /\ \A i \in DOMAIN wire : wire[i] \in Buffers
    /\ sent \subseteq alive /\ readyForRelease \subseteq Packets \ alive
    /\ DOMAIN referencedPackets \subseteq Packets
    /\ WaitingPackets \subseteq Packets

Underway == wire \o out.queue

(* The client never throws "Packet not found" or "Descriptor not           *)
(* registered": whatever the order in which packets are sent, sent again,  *)
(* handed over and destroyed, an id on the link is one the client knows.   *)
ClientNeverThrows == ~failed

(* The places at which buffers of a packet wait.                           *)
WaitPlaces(p) ==
    UNION {{d} \X {i \in DOMAIN waiting[d] : waiting[d][i].packet = p} : d \in Packets}
At(w) == waiting[w[1]][w[2]]
Occurrences(seq, Test(_)) == Cardinality({i \in DOMAIN seq : Test(seq[i])})

(* Nothing is lost and nothing is doubled: a packet added for a signal is  *)
(* under way, waits for its domain packet or has been received, once for   *)
(* every time it was added.                                                *)
NothingLost ==
    \A s \in Signals, p \in Packets :
        Occurrences(addedTo[s], LAMBDA x : x = Data(p)) =
            Occurrences(Underway, LAMBDA b : b.signal = s /\ b.packet = p)
            + Occurrences(received, LAMBDA x : x.kind = "data" /\ x.signal = s /\ x.packet = p)
            + Cardinality({w \in WaitPlaces(p) : At(w).signal = s})
            + Cardinality(UNION {{w} \X {j \in DOMAIN At(w).more : At(w).more[j] = s} :
                                     w \in WaitPlaces(p)})

(* The places of a signal's data, those of packets that had to wait left   *)
(* out, in the client's queue and in what was added for the signal.        *)
Got(s) == {i \in DOMAIN received : received[i].kind = "data" /\ received[i].signal = s
                                       /\ received[i].packet \notin delayed}
Put(s) == {j \in DOMAIN addedTo[s] : addedTo[s][j].kind = "data"
                                         /\ addedTo[s][j].packet \notin delayed}
UpTo(places, n) == Cardinality({k \in places : k <= n})

(* A signal's packets arrive in the order they were sent, none left out,   *)
(* and are made with the descriptor they were sent with, except those that *)
(* had to wait for their domain packet (addDataPacketBuffer,               *)
(* getStreamingWriteTasks): the n-th received is the n-th added.           *)
ReceivedAsSent ==
    /\ \A s \in Signals : \A i \in Got(s) : \E j \in Put(s) :
           /\ addedTo[s][j].packet = received[i].packet
           /\ UpTo(Got(s), i) = UpTo(Put(s), j)
    /\ \A i \in DOMAIN received :
           received[i].kind = "data" /\ received[i].packet \notin delayed
               => received[i].descriptor = descriptorOf[received[i].packet]

(* What the reader of a signal was told last is what the client knows,     *)
(* although repeated descriptors are not forwarded.                        *)
ToldLast(s, field) ==
    LET places == {i \in DOMAIN received : received[i].kind = "event" /\ received[i].signal = s
                                               /\ received[i][field] # Unchanged}
    IN IF places = {} THEN Unchanged
       ELSE received[CHOOSE i \in places : \A j \in places : j <= i][field]
DescriptorsTold ==
    \A s \in Signals : /\ ToldLast(s, "value") = known[s].value
                       /\ ToldLast(s, "domain") = known[s].domain

(* No leak: the server counts the ids of live packets as sent and owes     *)
(* releases for destroyed ones only; every packet the client remembers,    *)
(* and every one that waits without permission to be forgotten, is one the *)
(* server still counts as sent or whose release is on its way.  The        *)
(* exception is a packet whose last reference was handed over while it     *)
(* waited: addAlreadySentPacketBuffer does not look at the flag then.      *)
ReleaseComes(p) ==
    \/ p \in sent \cup readyForRelease \cup flagLost
    \/ \E i \in DOMAIN Underway :
           \/ p \in Underway[i].ids
           \/ Underway[i].type = "alreadySent" /\ Underway[i].packet = p /\ Underway[i].canRelease
NoLeak ==
    /\ StreamTypeOK
    /\ \A p \in DOMAIN referencedPackets : ReleaseComes(p)
    /\ \A d \in Packets : \A i \in DOMAIN waiting[d] :
           waiting[d][i].canRelease \/ ReleaseComes(waiting[d][i].packet)

(* linearCachingAssertion never throws: the counters of the groups are     *)
(* exact and the buffers of a group are next to each other.                *)
InGroup(q, g) == {i \in DOMAIN q : q[i].group = g}
Units(q, g) == UNION {{i} \X (1 .. Size(q[i])) : i \in InGroup(q, g)}
GroupsExact ==
    LET q == out.queue
    IN /\ DOMAIN out.groups = {q[i].group : i \in DOMAIN q} \ {0}
       /\ \A g \in DOMAIN out.groups :
              /\ out.groups[g].count = Cardinality(InGroup(q, g))
              /\ out.groups[g].size = Cardinality(Units(q, g))
              /\ \A i, j \in InGroup(q, g) : \A k \in i .. j : q[k].group = g
       /\ out.nonCacheable = Cardinality(InGroup(q, 0))

(* Nobody waits in vain: while a packet waits for its domain packet, that  *)
(* one has not arrived yet; it cannot have come and been forgotten again.  *)
NobodyWaitsInVain ==
    \A p \in WaitingPackets, j \in DOMAIN received :
        received[j].kind = "data" => received[j].packet # DomainOf[p]
================================================================================
