------------------------- MODULE StreamingSessionProofs -------------------------
(***************************************************************************)
(* Proofs about StreamingSession for every set of signals, every relation  *)
(* of domain signals and any number of sessions and events.                *)
(***************************************************************************)
EXTENDS StreamingSession, FiniteSetTheorems, TLAPS

---------------------------------------------------------------------------------
(***************************************************************************)
(* What is on its way: the messages of the device, the tasks of the        *)
(* processing thread and the requests of the client.                       *)
(***************************************************************************)
FromDevice == {Message(k, s) : k \in {"available", "unavailable"}, s \in Signals}
                \cup {Plain("initDone")}
Posted == FromDevice \cup {Plain("Reconnecting"), Plain("Connected"), Plain("initTimer")}
Request == {Message(k, s) : k \in {"subscribe", "unsubscribe"}, s \in Signals}
FromClient == Request \cup {Plain("properties"), Plain("init")}

MirrorTypes ==
    /\ listened \in [Signals -> BOOLEAN]
    /\ streamed \in [Signals -> BOOLEAN]
    /\ active \in [Signals -> BOOLEAN]
    /\ op \in [Signals -> Seq(Request)]
    /\ count \in [Signals -> Int]

ClientTypes ==
    /\ available \subseteq Signals
    /\ signalIds \subseteq Signals
    /\ tasks \in Seq(Posted)
    /\ status \in {"Connected", "Reconnecting", "Unrecoverable"}
    /\ failed \in {"no", "DuplicateItem", "NotFound", "PromiseSatisfied", "InvalidState"}
    /\ {reconnecting, initReady, initTimer, staleTimer, late, threw} \subseteq BOOLEAN

(* An attempt to connect is under way exactly while there is no session,   *)
(* and the bound on the sessions leaves room for it.                       *)
LinkTypes ==
    /\ attempt \in {"none", "pending", "connected", "failed"}
    /\ lastSession \in SessionIds
    /\ IF attempt \in {"pending", "failed"}
         THEN session = 0 /\ lastSession < MaxSessions
         ELSE session = lastSession
    /\ toServer \in [SessionIds -> Seq(FromClient)]
    /\ toClient \in [SessionIds -> Seq(FromDevice)]

DeviceTypes ==
    /\ sessions \subseteq SessionIds
    /\ named \in sessions \cup {0}
    /\ Other \in clients /\ clients \subseteq sessions \cup {Other}
    /\ registered \subseteq Signals
    /\ subscribers \in [Signals -> SUBSET (SessionIds \cup {Other})]
    /\ described \in [Signals -> BOOLEAN]
    /\ reader \in [Signals -> {"none", "new", "read"}]
    /\ told \in [Signals -> SUBSET (SessionIds \cup {Other})]

(* A reader exists exactly while its signal has subscribers; one that has  *)
(* delivered its descriptor event has left the descriptors behind for      *)
(* those who subscribe later.                                              *)
ReadersMatch ==
    \A s \in Signals :
        /\ told[s] \subseteq subscribers[s]
        /\ reader[s] = "none" <=> subscribers[s] = {}
        /\ reader[s] = "read" => described[s] /\ subscribers[s] \subseteq told[s]

TypesInv == MirrorTypes /\ ClientTypes /\ LinkTypes /\ DeviceTypes /\ ReadersMatch

(* What a task or a message can be.                                        *)
LEMMA MessageFacts ==
    /\ \A k, s : Message(k, s).kind = k /\ Message(k, s).signal = s
    /\ \A m \in Posted :
         /\ m.kind \in {"available", "unavailable", "initDone", "Reconnecting", "Connected",
                        "initTimer"}
         /\ m.kind \in {"available", "unavailable"} => m.signal \in Signals /\ m \in FromDevice
         /\ m = Message(m.kind, m.signal)
         /\ m.kind \notin {"available", "unavailable"} => m = Plain(m.kind)
    /\ \A m \in FromDevice : m \in Posted /\ m.kind \in {"available", "unavailable", "initDone"}
    /\ \A m \in FromClient :
         /\ m.kind \in {"subscribe", "unsubscribe", "properties", "init"}
         /\ m.kind \in {"subscribe", "unsubscribe"} => m.signal \in Signals
    /\ \A m \in Request : m \in FromClient /\ m.kind \in {"subscribe", "unsubscribe"}
                          /\ m.signal \in Signals
BY DEF Message, Plain, FromDevice, Posted, Request, FromClient

(* A finite set becomes a sequence of its elements, each once.             *)
LEMMA SetToSeqProperties ==
    ASSUME NEW S, IsFiniteSet(S)
    PROVE  /\ SetToSeq(S) \in Seq(S)
           /\ Len(SetToSeq(S)) = Cardinality(S) /\ Cardinality(S) \in Nat
           /\ \A x \in S : \E i \in 1 .. Cardinality(S) : SetToSeq(S)[i] = x
           /\ \A i, j \in 1 .. Cardinality(S) : SetToSeq(S)[i] = SetToSeq(S)[j] => i = j
<1> DEFINE n == Cardinality(S)
<1>1. n \in Nat
    BY FS_CardinalityType
<1>2. PICK g \in Bijection(1 .. n, S) : TRUE
    BY FS_CardinalityType, Zenon DEF ExistsBijection
<1>3. g \in [1 .. n -> S] /\ IsInjective(g)
    BY <1>2 DEF Bijection, Injection
<1>4. SetToSeq(S) \in [1 .. n -> S] /\ IsInjective(SetToSeq(S))
    BY <1>3, Zenon DEF SetToSeq
<1>5. SetToSeq(S) \in Injection(1 .. n, S) /\ Cardinality(1 .. n) = Cardinality(S)
    BY <1>1, <1>4, FS_Interval DEF Injection
<1>6. SetToSeq(S) \in Surjection(1 .. n, S)
    BY <1>5, FS_Injection, Zenon
<1>7. SetToSeq(S) \in Seq(S) /\ Len(SetToSeq(S)) = n
    BY <1>1, <1>4
<1> QED
    BY <1>1, <1>4, <1>6, <1>7 DEF Surjection, IsInjective

(* What the device sends a client that asks for streaming.                 *)
Announcement == SetToSeq({Message("available", s) : s \in registered}) \o << Plain("initDone") >>

(* It names every registered signal once, and ends with initDone.          *)
LEMMA AnnouncementProperties ==
    ASSUME registered \subseteq Signals
    PROVE  /\ Announcement \in Seq(FromDevice)
           /\ Len(Announcement) \in Nat \ {0}
           /\ Announcement[Len(Announcement)] = Plain("initDone")
           /\ \A s \in registered : \E i \in 1 .. Len(Announcement) - 1 :
                  Announcement[i] = Message("available", s)
           /\ \A i \in 1 .. Len(Announcement) - 1 :
                  \E s \in registered : Announcement[i] = Message("available", s)
           /\ \A i, j \in 1 .. Len(Announcement) : Announcement[i] = Announcement[j] => i = j
<1> DEFINE A == {Message("available", s) : s \in registered}
           f == [s \in registered |-> Message("available", s)]
           q == SetToSeq(A)
<1>1. IsFiniteSet(registered)
    BY SessionAssumption, FS_Subset
<1>2. f \in Surjection(registered, A)
    BY DEF Surjection
<1>3. IsFiniteSet(A)
    BY <1>1, <1>2, FS_Surjection, Zenon
<1>4. /\ q \in Seq(A) /\ Len(q) \in Nat
      /\ \A x \in A : \E i \in 1 .. Len(q) : q[i] = x
      /\ \A i, j \in 1 .. Len(q) : q[i] = q[j] => i = j
  <2>1. /\ q \in Seq(A) /\ Len(q) = Cardinality(A) /\ Cardinality(A) \in Nat
        /\ \A x \in A : \E i \in 1 .. Cardinality(A) : q[i] = x
        /\ \A i, j \in 1 .. Cardinality(A) : q[i] = q[j] => i = j
      BY <1>3, SetToSeqProperties, Zenon
  <2> QED
      BY <2>1
<1>5. A \subseteq FromDevice /\ Plain("initDone") \in FromDevice /\ Plain("initDone") \notin A
  <2>1. \A s \in Signals : Message("available", s) \in FromDevice
      BY DEF FromDevice
  <2>2. \A s : Message("available", s) # Plain("initDone")
      BY DEF Message, Plain
  <2> QED
      BY <2>1, <2>2 DEF FromDevice
<1>6. Announcement = q \o << Plain("initDone") >>
    BY DEF Announcement
<1> HIDE DEF q
<1>7. /\ Announcement \in Seq(FromDevice)
      /\ Len(Announcement) = Len(q) + 1
      /\ \A i \in 1 .. Len(q) : Announcement[i] = q[i] /\ q[i] \in A
      /\ Announcement[Len(q) + 1] = Plain("initDone")
    BY <1>4, <1>5, <1>6
<1> HIDE DEF A
<1>8. ASSUME NEW i \in 1 .. Len(Announcement), NEW j \in 1 .. Len(Announcement),
             Announcement[i] = Announcement[j]
      PROVE  i = j
  <2>1. i \in 1 .. Len(q) \/ i = Len(q) + 1
      BY <1>4, <1>7
  <2>2. j \in 1 .. Len(q) \/ j = Len(q) + 1
      BY <1>4, <1>7
  <2>3. \A k \in 1 .. Len(q) : Announcement[k] = q[k] /\ Announcement[k] # Plain("initDone")
      BY <1>5, <1>7
  <2>4. CASE i \in 1 .. Len(q) /\ j \in 1 .. Len(q)
      BY <1>4, <1>8, <2>3, <2>4
  <2> QED
      BY <1>7, <1>8, <2>1, <2>2, <2>3, <2>4
<1>9. \A s \in registered : Message("available", s) \in A
    BY DEF A
<1>10. \A x \in A : \E s \in registered : x = Message("available", s)
    BY DEF A
<1> QED
    BY SMTT(40), <1>4, <1>7, <1>8, <1>9, <1>10

---------------------------------------------------------------------------------
(***************************************************************************)
(* Type correctness and the readers of the device: one lemma per variable  *)
(* group a step can change.                                                *)
(***************************************************************************)

(* What a client writes is written to its session, or nowhere.             *)
LEMMA SentType ==
    ASSUME LinkTypes, NEW m \in FromClient
    PROVE  Sent(m) \in [SessionIds -> Seq(FromClient)]
<1>1. CASE session \in SessionIds
  <2>1. toServer[session] \in Seq(FromClient)
      BY <1>1 DEF LinkTypes
  <2>2. Append(toServer[session], m) \in Seq(FromClient)
      BY <2>1
  <2> QED
      BY <1>1, <2>2 DEF LinkTypes, Sent
<1>2. CASE session \notin SessionIds
    BY <1>2 DEF LinkTypes, Sent
<1> QED
    BY <1>1, <1>2

(* A request of the client is a message on the link of its session.        *)
LEMMA AskType ==
    ASSUME LinkTypes, ClientTypes, NEW k \in {"subscribe", "unsubscribe"}, NEW s \in Signals,
           Ask(k, s)
    PROVE  toServer' \in [SessionIds -> Seq(FromClient)] /\ late' \in BOOLEAN
<1>1. Message(k, s) \in FromClient
    BY DEF FromClient, Request
<1>2. LateAfter(s \in signalIds) \in BOOLEAN
    BY DEF LateAfter, ClientTypes
<1> QED
    BY <1>1, <1>2, SentType DEF Ask, LinkTypes

(* The calls of users.                                                     *)
LEMMA CallTypes ==
    ASSUME TypesInv, NEW s \in Signals, NEW l \in BOOLEAN, NEW t \in BOOLEAN, NEW a \in BOOLEAN,
           Call(s, l, t, a)
    PROVE  TypesInv'
<1>1. \A k \in {"subscribe", "unsubscribe"} : Requests(s, k) \in Seq(Request)
  <2> SUFFICES ASSUME NEW k \in {"subscribe", "unsubscribe"}
               PROVE  Requests(s, k) \in Seq(Request)
      OBVIOUS
  <2>1. \A x \in Signals : Message(k, x) \in Request
      BY DEF Request
  <2>2. DomainOf[s] # NoSignal => DomainOf[s] \in Signals
      BY SessionAssumption
  <2> QED
      BY <2>1, <2>2 DEF Requests
<1>2. MirrorTypes'
    BY <1>1 DEF TypesInv, MirrorTypes, Call, streaming
<1> QED
    BY <1>2 DEF TypesInv, ClientTypes, LinkTypes, DeviceTypes, ReadersMatch, Call, streaming, timer,
                link, device, managed

(* A mirrored signal that subscribes or unsubscribes with the streaming.   *)
LEMMA RequestStepTypes ==
    ASSUME TypesInv, NEW s \in Signals, RequestStep(s)
    PROVE  TypesInv'
<1> DEFINE r == Head(op[s])
<1>1. op[s] \in Seq(Request) /\ op[s] # << >> /\ r \in Request /\ Tail(op[s]) \in Seq(Request)
    BY DEF TypesInv, MirrorTypes, RequestStep
<1>2. r.kind \in {"subscribe", "unsubscribe"} /\ r.signal \in Signals
    BY <1>1, MessageFacts
<1>3. MirrorTypes'
  <2>1. op' \in [Signals -> Seq(Request)]
      BY <1>1 DEF TypesInv, MirrorTypes, RequestStep
  <2>2. count' \in [Signals -> Int]
      BY <1>2 DEF TypesInv, MirrorTypes, RequestStep, DoSubscribeSignal, DoUnsubscribeSignal
  <2> QED
      BY <2>1, <2>2 DEF TypesInv, MirrorTypes, RequestStep
<1>4. toServer' \in [SessionIds -> Seq(FromClient)] /\ late' \in BOOLEAN
    BY <1>2, AskType DEF RequestStep, DoSubscribeSignal, DoUnsubscribeSignal, AskNothing,
       TypesInv, LinkTypes, ClientTypes
<1> QED
    BY <1>3, <1>4 DEF TypesInv, ClientTypes, LinkTypes, DeviceTypes, ReadersMatch, RequestStep,
                      timer, link, device, managed

(* The transport thread of the client.                                     *)
LEMMA TransportTypes ==
    ASSUME TypesInv,
           OnSessionError \/ InitClientSessionHandler \/ OnConnectionFailed
           \/ CheckReconnectionResult \/ Receive \/ InitTimerExpires
    PROVE  TypesInv'
<1>0. /\ MaxSessions \in Nat \ {0} /\ SessionIds = 1 .. MaxSessions
      /\ Plain("Reconnecting") \in Posted /\ Plain("Connected") \in Posted
      /\ Plain("initTimer") \in Posted /\ Plain("properties") \in FromClient
    BY SessionAssumption DEF SessionIds, Posted, FromClient
<1>a. /\ \A m \in Posted : Append(tasks, m) \in Seq(Posted)
      /\ << Plain("properties") >> \in Seq(FromClient)
    BY <1>0 DEF TypesInv, ClientTypes
<1> USE <1>a DEF TypesInv, MirrorTypes, ClientTypes, LinkTypes, DeviceTypes, ReadersMatch,
            mirror, streaming, timer, link, device, managed
<1>1. CASE OnSessionError
    BY SMTT(40), <1>0, <1>1 DEF OnSessionError
<1>2. CASE InitClientSessionHandler
  <2>1. lastSession' \in SessionIds /\ session' = lastSession' /\ sessions' \subseteq SessionIds
      BY <1>0, <1>2 DEF InitClientSessionHandler
  <2> QED
      BY <1>0, <1>2, <2>1 DEF InitClientSessionHandler
<1>3. CASE OnConnectionFailed
    BY <1>0, <1>3 DEF OnConnectionFailed
<1>4. CASE CheckReconnectionResult
    BY <1>0, <1>4 DEF CheckReconnectionResult
<1>5. CASE Receive
  <2> DEFINE m == Head(toClient[session])
  <2>1. session \in SessionIds /\ toClient[session] \in Seq(FromDevice)
      BY <1>0, <1>5 DEF Receive
  <2>2. m \in FromDevice /\ m \in Posted /\ Tail(toClient[session]) \in Seq(FromDevice)
      BY <1>5, <2>1, MessageFacts DEF Receive
  <2>3. signalIds' \subseteq Signals
      BY <1>5, <2>2, MessageFacts DEF Receive
  <2> QED
      BY <1>0, <1>5, <2>2, <2>3 DEF Receive
<1>6. CASE InitTimerExpires
    BY <1>0, <1>6 DEF InitTimerExpires
<1> QED
    BY <1>1, <1>2, <1>3, <1>4, <1>5, <1>6

(* The processing thread of the client.                                    *)
LEMMA ProcessingTypes ==
    ASSUME TypesInv, Processing
    PROVE  TypesInv'
<1>1. /\ tasks \in Seq(Posted) /\ tasks # << >> /\ Head(tasks) \in Posted
      /\ Tail(tasks) \in Seq(Posted) /\ tasks' = Tail(tasks)
  <2>1. tasks # << >> /\ tasks' = Tail(tasks)
      BY DEF Processing, SignalAvailable, SignalUnavailable, StartReconnection,
             RequestStreamingOnReconnection, StreamingInitDone, CompleteReconnection, Task
  <2> QED
      BY <2>1 DEF TypesInv, ClientTypes
<1>2. Plain("init") \in FromClient
    BY DEF FromClient
<1>3. CASE SignalAvailable
  <2>1. Head(tasks).signal \in Signals
      BY <1>1, <1>3, MessageFacts DEF SignalAvailable, Task
  <2>2. toServer' \in [SessionIds -> Seq(FromClient)] /\ late' \in BOOLEAN
      BY <1>3, <2>1, AskType DEF SignalAvailable, AskNothing, TypesInv, LinkTypes, ClientTypes
  <2> QED
      BY SMTT(40), <1>1, <1>3, <2>1, <2>2 DEF SignalAvailable, TypesInv, MirrorTypes, ClientTypes, LinkTypes,
         DeviceTypes, ReadersMatch, mirror, timer, link, device, managed
<1>4. CASE RequestStreamingOnReconnection
  <2>1. toServer' \in [SessionIds -> Seq(FromClient)]
      BY <1>2, <1>4, SentType DEF RequestStreamingOnReconnection, TypesInv
  <2>2. late' \in BOOLEAN
      BY <1>4 DEF RequestStreamingOnReconnection, LateAfter, TypesInv, ClientTypes
  <2> QED
      BY <1>1, <1>4, <2>1, <2>2 DEF RequestStreamingOnReconnection, TypesInv, MirrorTypes,
         ClientTypes, LinkTypes, DeviceTypes, ReadersMatch, mirror, link, device, managed
<1>5. CASE SignalUnavailable \/ StartReconnection \/ StreamingInitDone \/ CompleteReconnection
    BY ZenonT(40), <1>1, <1>5 DEF SignalUnavailable, StartReconnection, StreamingInitDone, CompleteReconnection,
       TypesInv, MirrorTypes, ClientTypes, LinkTypes, DeviceTypes, ReadersMatch, mirror, timer, link,
       device, managed
<1> QED
    BY <1>3, <1>4, <1>5 DEF Processing

(* A subscriber of the device comes or goes, a client is released.         *)
LEMMA SubscriberTypes ==
    ASSUME DeviceTypes, ReadersMatch, NEW s \in Signals, NEW c \in SessionIds \cup {Other},
           RegisterSignalSubscriber(s, c) \/ RemoveSubscriber({s}, c), UNCHANGED <<sessions, named, clients>>
    PROVE  DeviceTypes' /\ ReadersMatch'
<1>1. CASE RegisterSignalSubscriber(s, c)
    BY <1>1 DEF RegisterSignalSubscriber, Managed, DeviceTypes, ReadersMatch, managed
<1>2. CASE RemoveSubscriber({s}, c)
    BY <1>2 DEF RemoveSubscriber, Managed, DeviceTypes, ReadersMatch
<1> QED
    BY <1>1, <1>2

(* The server forgets a client and keeps its types.                        *)
LEMMA ReleaseTypes ==
    ASSUME DeviceTypes, ReadersMatch, NEW n \in SessionIds, Release(n)
    PROVE  /\ Other \in clients' /\ clients' = clients \ {n}
           /\ registered' = registered
           /\ subscribers' \in [Signals -> SUBSET (SessionIds \cup {Other})]
           /\ described' \in [Signals -> BOOLEAN]
           /\ reader' \in [Signals -> {"none", "new", "read"}]
           /\ told' \in [Signals -> SUBSET (SessionIds \cup {Other})]
           /\ ReadersMatch'
<1>1. n # Other
    BY SessionAssumption DEF SessionIds, Other
<1>2. CASE n \in clients
    BY <1>1, <1>2 DEF Release, RemoveSubscriber, Managed, DeviceTypes, ReadersMatch
<1>3. CASE n \notin clients
    BY <1>1, <1>3 DEF Release, DeviceTypes, ReadersMatch, managed
<1> QED
    BY <1>2, <1>3

(* The handlers of the device for what a session sends.                    *)
LEMMA HandlerTypes ==
    ASSUME TypesInv, NEW n \in SessionIds, Handler(n)
    PROVE  TypesInv'
<1>1. toServer[n] \in Seq(FromClient) /\ toServer[n] # << >> /\ n \in sessions
    BY DEF TypesInv, LinkTypes, Handler, HandleTransportLayerProps, HandleStreamingInit,
           HandleSubscribe, HandleUnsubscribe, Handle
<1>2. Head(toServer[n]) \in FromClient /\ Tail(toServer[n]) \in Seq(FromClient)
    BY <1>1
<1>3. Handled(n) \in [SessionIds -> Seq(FromClient)]
    BY <1>2 DEF Handled, TypesInv, LinkTypes
<1>4. CASE HandleTransportLayerProps(n)
  <2>1. toServer' \in [SessionIds -> Seq(FromClient)]
      BY <1>2, <1>4 DEF HandleTransportLayerProps, TypesInv, LinkTypes
  <2>2. DeviceTypes' /\ ReadersMatch'
    <3>1. CASE named \in SessionIds
        BY <1>1, <1>4, <3>1, ReleaseTypes DEF HandleTransportLayerProps, TypesInv, DeviceTypes
    <3>2. CASE named \notin SessionIds
        BY <1>1, <1>4, <3>2 DEF HandleTransportLayerProps, TypesInv, DeviceTypes, ReadersMatch,
           managed
    <3> QED
        BY <3>1, <3>2
  <2> QED
      BY <1>4, <2>1, <2>2 DEF HandleTransportLayerProps, TypesInv, MirrorTypes, ClientTypes,
         LinkTypes, mirror, streaming, timer, link
<1>5. CASE HandleStreamingInit(n)
  <2>1. toClient' \in [SessionIds -> Seq(FromDevice)]
    <3>1. Announcement \in Seq(FromDevice)
        BY AnnouncementProperties DEF TypesInv, DeviceTypes
    <3>2. toClient[n] \o Announcement \in Seq(FromDevice)
        BY <3>1 DEF TypesInv, LinkTypes
    <3>3. Send(n, Announcement) \in [SessionIds -> Seq(FromDevice)]
        BY <3>2 DEF Send, TypesInv, LinkTypes
    <3> QED
        BY <1>5, <3>3 DEF HandleStreamingInit, Announcement, TypesInv, LinkTypes
  <2>2. DeviceTypes' /\ ReadersMatch'
      BY <1>1, <1>5 DEF HandleStreamingInit, TypesInv, DeviceTypes, ReadersMatch, managed
  <2> QED
      BY <1>3, <1>5, <2>1, <2>2 DEF HandleStreamingInit, TypesInv, MirrorTypes, ClientTypes,
         LinkTypes, mirror, streaming, timer, link
<1>6. CASE HandleSubscribe(n) \/ HandleUnsubscribe(n)
  <2>1. Head(toServer[n]).signal \in Signals
      BY <1>2, <1>6, MessageFacts DEF HandleSubscribe, HandleUnsubscribe, Handle
  <2>2. DeviceTypes' /\ ReadersMatch'
      BY <1>6, <2>1, SubscriberTypes DEF HandleSubscribe, HandleUnsubscribe, TypesInv
  <2> QED
      BY <1>3, <1>6, <2>2 DEF HandleSubscribe, HandleUnsubscribe, TypesInv, MirrorTypes, ClientTypes,
         LinkTypes, mirror, streaming, timer, link
<1> QED
    BY <1>4, <1>5, <1>6 DEF Handler

(* The rest of the device: a session that is lost, the second client,      *)
(* signals that come and go, and the readers.                              *)
LEMMA OnServerSessionErrorTypes ==
    ASSUME TypesInv, NEW n \in SessionIds, OnServerSessionError(n)
    PROVE  TypesInv'
<1>1. DeviceTypes' /\ ReadersMatch'
    BY ReleaseTypes DEF OnServerSessionError, TypesInv, DeviceTypes
<1> QED
    BY <1>1 DEF OnServerSessionError, TypesInv, MirrorTypes, ClientTypes, LinkTypes, mirror,
                streaming, timer, link

(* What happens to the signals of the device keeps the types.              *)
LEMMA DeviceSignalTypes ==
    ASSUME TypesInv, NEW s \in Signals,
           OtherSubscribes(s) \/ AddSignal(s) \/ RemoveComponentSignals(s) \/ ProcessPackets(s)
    PROVE  TypesInv'
<1>1. ASSUME NEW k \in {"available", "unavailable"}
      PROVE  Announced(k, s) \in [SessionIds -> Seq(FromDevice)]
  <2>1. Message(k, s) \in FromDevice
      BY DEF FromDevice
  <2> QED
      BY <2>1 DEF Announced, TypesInv, LinkTypes
<1>2. CASE OtherSubscribes(s)
  <2>1. DeviceTypes' /\ ReadersMatch'
      BY <1>2, SubscriberTypes DEF OtherSubscribes, TypesInv
  <2> QED
      BY <1>2, <2>1 DEF OtherSubscribes, TypesInv, MirrorTypes, ClientTypes, LinkTypes, mirror,
         streaming, timer, link
<1>3. CASE AddSignal(s)
  <2>1. DeviceTypes' /\ ReadersMatch'
      BY <1>3 DEF AddSignal, Managed, TypesInv, DeviceTypes, ReadersMatch
  <2> QED
      BY <1>1, <1>3, <2>1 DEF AddSignal, TypesInv, MirrorTypes, ClientTypes, LinkTypes, mirror,
         streaming, timer, link
<1>4. CASE RemoveComponentSignals(s)
  <2>1. DeviceTypes' /\ ReadersMatch'
      BY <1>4 DEF RemoveComponentSignals, Managed, TypesInv, DeviceTypes, ReadersMatch
  <2> QED
      BY <1>1, <1>4, <2>1 DEF RemoveComponentSignals, TypesInv, MirrorTypes, ClientTypes, LinkTypes,
         mirror, streaming, timer, link
<1>5. CASE ProcessPackets(s)
  <2>1. DeviceTypes' /\ ReadersMatch'
    <3>1. CASE subscribers[s] \subseteq clients
      <4>1. /\ sessions' = sessions /\ named' = named /\ clients' = clients
            /\ registered' = registered /\ subscribers' = subscribers
            /\ described' = [described EXCEPT ![s] = TRUE]
            /\ reader' = [reader EXCEPT ![s] = "read"]
            /\ told' = [told EXCEPT ![s] = subscribers[s]]
            /\ reader[s] # "none"
          BY <1>5, <3>1 DEF ProcessPackets, Managed
      <4>2. DeviceTypes'
          BY <4>1 DEF TypesInv, DeviceTypes
      <4>3. ReadersMatch'
          BY <4>1 DEF TypesInv, DeviceTypes, ReadersMatch
      <4> QED
          BY <4>2, <4>3
    <3>2. CASE ~(subscribers[s] \subseteq clients)
        BY <1>5, <3>2 DEF ProcessPackets, TypesInv, DeviceTypes, ReadersMatch, managed
    <3> QED
        BY <3>1, <3>2
  <2> QED
      BY <1>5, <2>1 DEF ProcessPackets, TypesInv, MirrorTypes, ClientTypes, LinkTypes, mirror,
         streaming, timer, link
<1> QED
    BY <1>2, <1>3, <1>4, <1>5

(* The initial state has the types.                                        *)
LEMMA InitTypes == SessionInit => TypesInv
<1>1. 1 \in SessionIds
    BY SessionAssumption DEF SessionIds
<1> SUFFICES ASSUME SessionInit PROVE TypesInv
    OBVIOUS
<1>2. \A S : << >> \in Seq(S)
    OBVIOUS
<1>3. MirrorTypes
    BY <1>2 DEF SessionInit, MirrorTypes
<1>4. ClientTypes
    BY <1>2 DEF SessionInit, ClientTypes
<1>5. LinkTypes
    BY <1>1, <1>2 DEF SessionInit, LinkTypes
<1>6. DeviceTypes /\ ReadersMatch
    BY <1>1 DEF SessionInit, DeviceTypes, ReadersMatch, Other
<1> QED
    BY <1>3, <1>4, <1>5, <1>6 DEF TypesInv

(* Every step keeps the types.                                             *)
LEMMA NextTypes == TypesInv /\ [SessionNext]_vars => TypesInv'
<1> SUFFICES ASSUME TypesInv, [SessionNext]_vars
             PROVE  TypesInv'
    OBVIOUS
<1>1. ASSUME NEW s \in Signals,
             OnListenedStatusChanged(s) \/ SetStreamed(s) \/ SetActiveStreamingSource(s)
             \/ DeactivateStreaming(s)
      PROVE  TypesInv'
  <2>1. listened[s] \in BOOLEAN /\ streamed[s] \in BOOLEAN /\ active[s] \in BOOLEAN
      BY DEF TypesInv, MirrorTypes
  <2>2. PICK l \in BOOLEAN, t \in BOOLEAN, a \in BOOLEAN : Call(s, l, t, a)
      BY <1>1, <2>1, Zenon DEF OnListenedStatusChanged, SetStreamed, SetActiveStreamingSource,
         DeactivateStreaming
  <2> QED
      BY <2>2, CallTypes
<1>2. CASE UNCHANGED vars
    BY <1>2 DEF vars, TypesInv, MirrorTypes, ClientTypes, LinkTypes, DeviceTypes, ReadersMatch, mirror,
       streaming, timer, link, device, managed
<1> QED
    BY <1>1, <1>2, SessionAssumption, RequestStepTypes, TransportTypes, ProcessingTypes, HandlerTypes,
       OnServerSessionErrorTypes, DeviceSignalTypes, Zenon DEF SessionNext

(* The types hold in every reachable state.                                *)
LEMMA TypesInvariant == SessionSpec => []TypesInv
BY InitTypes, NextTypes, PTL DEF SessionSpec

(* Once the reader of a signal has delivered its descriptor event, every   *)
(* subscriber has been sent descriptors, for any number of clients,        *)
(* signals and sessions.                                                   *)
THEOREM DescriptorsReachSubscribers == SessionSpec => []SubscribersDescribed
<1>1. TypesInv => SubscribersDescribed
    BY DEF TypesInv, ReadersMatch, SubscribersDescribed
<1> QED
    BY <1>1, TypesInvariant, PTL

---------------------------------------------------------------------------------
(***************************************************************************)
(* The subscriber counts.  CountsExact is not inductive: it says nothing   *)
(* of the calls a mirrored signal still has to make.  OpsMatch does: they  *)
(* are what is left of the last change between subscribed and not.  A      *)
(* signal is then counted by exactly those it is due to.                   *)
(***************************************************************************)
Direction(t) == IF Subscribed(t) THEN "subscribe" ELSE "unsubscribe"

OpsMatch ==
    \A t \in Signals :
        op[t] \in {<< >>, Requests(t, Direction(t)), << Message(Direction(t), t) >>}

(* Signal t has yet to make call k for signal s.                           *)
Due(t, k, s) == \E i \in DOMAIN op[t] : op[t][i] = Message(k, s)

(* The mirrored signals that count as subscribers of signal s now.         *)
Counted(s) ==
    {t \in Signals : IF Subscribed(t) THEN s \in {t, DomainOf[t]} /\ ~Due(t, "subscribe", s)
                     ELSE Due(t, "unsubscribe", s)}

CountsInv == OpsMatch /\ \A s \in Signals : count[s] = Cardinality(Counted(s))

(* Signals are finitely many, and so is any part of them.                  *)
LEMMA FinitePart ==
    ASSUME NEW S, S \subseteq Signals
    PROVE  IsFiniteSet(S) /\ Cardinality(S) \in Nat /\ Cardinality(S) <= Cardinality(Signals)
           /\ Cardinality(Signals) \in Nat
BY SessionAssumption, FS_Subset, FS_CardinalityType

(* What the calls of a mirrored signal can be, spelled out.                *)
LEMMA OpShape ==
    ASSUME TypesInv, OpsMatch, NEW t \in Signals
    PROVE  /\ \A s \in Signals, k \in {"subscribe", "unsubscribe"} :
                Due(t, k, s) => k = Direction(t) /\ s \in {t, DomainOf[t]}
           /\ Len(op[t]) <= 2
           /\ op[t] # << >> =>
                /\ Head(op[t]).kind = Direction(t)
                /\ Head(op[t]).signal \in Signals \cap {t, DomainOf[t]}
                /\ Tail(op[t]) \in {<< >>, << Message(Direction(t), t) >>}
                /\ Due(t, Direction(t), Head(op[t]).signal)
                /\ \A i \in DOMAIN Tail(op[t]) :
                       Tail(op[t])[i].signal # Head(op[t]).signal
                /\ \A s \in Signals : s # Head(op[t]).signal =>
                     (Due(t, Direction(t), s)
                        <=> \E i \in DOMAIN Tail(op[t]) : Tail(op[t])[i] = Message(Direction(t), s))
<1> DEFINE k == Direction(t)
           d == DomainOf[t]
<1>1. \/ op[t] = << >>
      \/ op[t] = << Message(k, t) >>
      \/ d \in Signals /\ d # t /\ op[t] = << Message(k, d), Message(k, t) >>
    BY SessionAssumption DEF OpsMatch, Requests
<1>2. \A x, y, s, u : Message(x, s) = Message(y, u) <=> x = y /\ s = u
    BY DEF Message
<1>3. \A x, s : Message(x, s).kind = x /\ Message(x, s).signal = s
    BY DEF Message
<1> HIDE DEF k, d
<1>4. CASE op[t] = << >>
    BY <1>4 DEF Due, k
<1>5. CASE op[t] = << Message(k, t) >>
  <2>1. DOMAIN op[t] = {1} /\ op[t][1] = Message(k, t) /\ Len(op[t]) = 1
        /\ Head(op[t]) = Message(k, t) /\ Tail(op[t]) = << >>
      BY <1>5
  <2> QED
      BY <1>2, <1>3, <2>1 DEF Due, k
<1>6. CASE d \in Signals /\ d # t /\ op[t] = << Message(k, d), Message(k, t) >>
  <2>1. /\ DOMAIN op[t] = {1, 2} /\ op[t][1] = Message(k, d) /\ op[t][2] = Message(k, t)
        /\ Len(op[t]) = 2
        /\ Head(op[t]) = Message(k, d) /\ Tail(op[t]) = << Message(k, t) >>
        /\ DOMAIN Tail(op[t]) = {1} /\ Tail(op[t])[1] = Message(k, t)
      BY <1>6
  <2> QED
      BY <1>2, <1>3, <1>6, <2>1 DEF Due, k, d
<1> QED
    BY <1>1, <1>4, <1>5, <1>6

(* A call changes what is due and what is counted by the same: nothing.    *)
LEMMA CallCounts ==
    ASSUME TypesInv, CountsInv, NEW s \in Signals, NEW l \in BOOLEAN, NEW t \in BOOLEAN,
           NEW a \in BOOLEAN, Call(s, l, t, a)
    PROVE  CountsInv'
<1>1. /\ op[s] = << >> /\ count' = count
      /\ \A u \in Signals : u # s => op'[u] = op[u] /\ (Subscribed(u)' <=> Subscribed(u))
      /\ Subscribed(s)' <=> (l /\ t /\ a)
    BY DEF Call, TypesInv, MirrorTypes, Subscribed, streaming
<1>2. op'[s] = IF Subscribed(s)' <=> Subscribed(s) THEN << >> ELSE Requests(s, Direction(s)')
  <2>1. op'[s] = IF Subscribed(s) = (l /\ t /\ a) THEN << >>
                 ELSE IF Subscribed(s) THEN Requests(s, "unsubscribe") ELSE Requests(s, "subscribe")
      BY DEF Call, TypesInv, MirrorTypes
  <2>2. Subscribed(s) \in BOOLEAN /\ (l /\ t /\ a) \in BOOLEAN
      BY DEF Subscribed, TypesInv, MirrorTypes
  <2>3. Subscribed(s) = (l /\ t /\ a) <=> (Subscribed(s)' <=> Subscribed(s))
      BY <1>1, <2>2
  <2>4. Direction(s)' = IF Subscribed(s)' THEN "subscribe" ELSE "unsubscribe"
      BY DEF Direction
  <2> QED
      BY <2>1, <2>3, <2>4
<1>3. OpsMatch'
  <2> SUFFICES ASSUME NEW u \in Signals
               PROVE  (op[u] \in {<< >>, Requests(u, Direction(u)), << Message(Direction(u), u) >>})'
      BY DEF OpsMatch
  <2>1. CASE u = s
      BY <1>2, <2>1 DEF Requests
  <2>2. CASE u # s
    <3>1. Direction(u)' = Direction(u) /\ op'[u] = op[u]
        BY <1>1, <2>2 DEF Direction
    <3> QED
        BY <3>1 DEF CountsInv, OpsMatch, Requests
  <2> QED
      BY <2>1, <2>2
<1>4. ASSUME NEW x \in Signals
      PROVE  Counted(x)' = Counted(x)
  <2>1. ASSUME NEW u \in Signals
        PROVE  u \in Counted(x)' <=> u \in Counted(x)
    <3>1. CASE u # s
        BY <1>1, <3>1 DEF Counted, Due
    <3>2. CASE u = s
      <4>1. \A k : ~Due(s, k, x)
          BY <1>1 DEF Due
      <4>2. Counted(x) \cap {s} = IF Subscribed(s) /\ x \in {s, DomainOf[s]} THEN {s} ELSE {}
          BY <4>1 DEF Counted
      <4>3. CASE Subscribed(s)' <=> Subscribed(s)
          BY <1>2, <3>2, <4>1, <4>3 DEF Counted, Due
      <4>4. CASE ~(Subscribed(s)' <=> Subscribed(s))
        <5>1. op'[s] = Requests(s, Direction(s)')
            BY <1>2, <4>4
        <5>2. Due(s, Direction(s), x)' <=> x \in {s, DomainOf[s]}
          <6>1. \A k, y, z : Message(k, y) = Message(k, z) <=> y = z
              BY DEF Message
          <6>2. CASE DomainOf[s] = NoSignal
            <7>1. op'[s] = << Message(Direction(s)', s) >>
                BY <5>1, <6>2 DEF Requests
            <7>2. DOMAIN op'[s] = {1} /\ op'[s][1] = Message(Direction(s)', s)
                BY <7>1
            <7> QED
                BY <6>1, <6>2, <7>2, SessionAssumption DEF Due
          <6>3. CASE DomainOf[s] # NoSignal
            <7>1. op'[s] = << Message(Direction(s)', DomainOf[s]), Message(Direction(s)', s) >>
                BY <5>1, <6>3 DEF Requests
            <7>2. DOMAIN op'[s] = {1, 2} /\ op'[s][1] = Message(Direction(s)', DomainOf[s])
                  /\ op'[s][2] = Message(Direction(s)', s)
                BY <7>1
            <7> QED
                BY <6>1, <7>2 DEF Due
          <6> QED
              BY <6>2, <6>3
        <5>3. CASE Subscribed(s)
            BY <3>2, <4>2, <4>4, <5>2, <5>3 DEF Counted, Direction
        <5>4. CASE ~Subscribed(s)
            BY <3>2, <4>2, <4>4, <5>2, <5>4 DEF Counted, Direction
        <5> QED
            BY <5>3, <5>4
      <4> QED
          BY <4>3, <4>4
    <3> QED
        BY <3>1, <3>2
  <2> QED
      BY <2>1 DEF Counted
<1> QED
    BY <1>1, <1>3, <1>4 DEF CountsInv

(* The streaming counts one signal more or less, and is never asked to     *)
(* unsubscribe what has no subscriber.                                     *)
LEMMA RequestStepCounts ==
    ASSUME TypesInv, CountsInv, NEW t \in Signals, RequestStep(t)
    PROVE  CountsInv' /\ ~(Head(op[t]).kind = "unsubscribe" /\ count[Head(op[t]).signal] = 0)
<1>0. PICK x \in Signals, k \in {"subscribe", "unsubscribe"} :
          x = Head(op[t]).signal /\ k = Direction(t)
    BY OpShape DEF CountsInv, RequestStep, Direction
<1>1. /\ op[t] # << >> /\ Head(op[t]).kind = k /\ x \in Signals \cap {t, DomainOf[t]}
      /\ Tail(op[t]) \in {<< >>, << Message(k, t) >>}
      /\ Due(t, k, x)
      /\ \A i \in DOMAIN Tail(op[t]) : Tail(op[t])[i].signal # x
      /\ \A s \in Signals : s # x =>
           (Due(t, k, s) <=> \E i \in DOMAIN Tail(op[t]) : Tail(op[t])[i] = Message(k, s))
    BY <1>0, OpShape DEF CountsInv, RequestStep
<1>2. /\ count[x] = Cardinality(Counted(x)) /\ Counted(x) \subseteq Signals
      /\ IsFiniteSet(Counted(x))
      /\ t \in Counted(x) <=> k = "unsubscribe"
    BY <1>0, <1>1, FinitePart DEF CountsInv, Counted, Direction
<1>3. k = "unsubscribe" => count[x] # 0
    BY <1>2, FS_EmptySet
<1>4. /\ op' = [op EXCEPT ![t] = Tail(@)]
      /\ IF k = "subscribe" THEN DoSubscribeSignal(x) ELSE DoUnsubscribeSignal(x)
      /\ UNCHANGED <<listened, streamed, active>>
    BY <1>0, <1>1, <1>3 DEF RequestStep
<1>5. /\ \A u \in Signals : Subscribed(u)' <=> Subscribed(u)
      /\ \A u \in Signals : Direction(u)' = Direction(u)
      /\ \A u \in Signals : u # t => op'[u] = op[u]
      /\ op'[t] = Tail(op[t])
    BY <1>4 DEF Subscribed, Direction, TypesInv, MirrorTypes
<1>6. OpsMatch'
    BY <1>0, <1>1, <1>5, Zenon DEF CountsInv, OpsMatch, Requests
<1>7. \A s \in Signals : Due(t, k, s)' <=> Due(t, k, s) /\ s # x
  <2>1. \A s : Message(k, s).signal = s
      BY DEF Message
  <2> QED
      BY <1>1, <1>5, <2>1 DEF Due
<1>8. \A s \in Signals, u \in Signals : u # t \/ s # x => (u \in Counted(s)' <=> u \in Counted(s))
  <2>1. \A j : \A u \in Signals, s \in Signals : u # t => (Due(u, j, s)' <=> Due(u, j, s))
      BY <1>5 DEF Due
  <2>2. \A s \in Signals : s # x => (Due(t, k, s)' <=> Due(t, k, s))
      BY <1>7
  <2> QED
      BY <1>0, <1>5, <2>1, <2>2 DEF Counted, Direction
<1>9. t \in Counted(x)' <=> k = "subscribe"
  <2>1. ~Due(t, k, x)'
      BY <1>1, <1>7
  <2>2. CASE Subscribed(t)
      BY <1>0, <1>1, <1>5, <2>1, <2>2 DEF Counted, Direction
  <2>3. CASE ~Subscribed(t)
      BY <1>0, <1>1, <1>5, <2>1, <2>3 DEF Counted, Direction
  <2> QED
      BY <2>2, <2>3
<1>10. \A s \in Signals : s # x => Counted(s)' = Counted(s)
    BY <1>8 DEF Counted
<1>11. Counted(x)' = IF k = "subscribe" THEN Counted(x) \cup {t} ELSE Counted(x) \ {t}
  <2>1. Counted(x)' \subseteq Signals /\ Counted(x) \subseteq Signals
      BY DEF Counted
  <2>2. \A u \in Signals : u # t => (u \in Counted(x)' <=> u \in Counted(x))
      BY <1>1, <1>8
  <2>3. t \in Counted(x)' <=> k = "subscribe"
      BY <1>9
  <2> QED
      BY <2>1, <2>2, <2>3
<1>12. count' = [count EXCEPT ![x] = IF k = "subscribe" THEN @ + 1 ELSE @ - 1]
    BY <1>4 DEF DoSubscribeSignal, DoUnsubscribeSignal
<1>13. /\ count'[x] = IF k = "subscribe" THEN count[x] + 1 ELSE count[x] - 1
       /\ \A s \in Signals : s # x => count'[s] = count[s]
    BY <1>1, <1>12 DEF TypesInv, MirrorTypes
<1>14. count'[x] = Cardinality(Counted(x)')
  <2>1. k = "subscribe" \/ k = "unsubscribe"
      OBVIOUS
  <2>2. k = "subscribe" => Cardinality(Counted(x) \cup {t}) = Cardinality(Counted(x)) + 1
      BY <1>2, <2>1, FS_AddElement
  <2>3. k = "unsubscribe" => Cardinality(Counted(x) \ {t}) = Cardinality(Counted(x)) - 1
      BY <1>2, FS_RemoveElement
  <2> QED
      BY <1>2, <1>11, <1>13, <2>1, <2>2, <2>3
<1>15. \A s \in Signals : count'[s] = Cardinality(Counted(s)')
    BY <1>10, <1>13, <1>14 DEF CountsInv
<1> QED
    BY <1>0, <1>1, <1>3, <1>6, <1>15 DEF CountsInv

(* Every step keeps the counts.                                            *)
LEMMA NextCounts == TypesInv /\ CountsInv /\ [SessionNext]_vars => CountsInv'
<1> SUFFICES ASSUME TypesInv, CountsInv, [SessionNext]_vars
             PROVE  CountsInv'
    OBVIOUS
<1>1. ASSUME NEW s \in Signals,
             OnListenedStatusChanged(s) \/ SetStreamed(s) \/ SetActiveStreamingSource(s)
             \/ DeactivateStreaming(s)
      PROVE  CountsInv'
  <2>1. listened[s] \in BOOLEAN /\ streamed[s] \in BOOLEAN /\ active[s] \in BOOLEAN
      BY DEF TypesInv, MirrorTypes
  <2>2. PICK l \in BOOLEAN, t \in BOOLEAN, a \in BOOLEAN : Call(s, l, t, a)
      BY <1>1, <2>1, Zenon DEF OnListenedStatusChanged, SetStreamed, SetActiveStreamingSource,
         DeactivateStreaming
  <2> QED
      BY <2>2, CallCounts
<1>2. ASSUME UNCHANGED <<mirror, count>>
      PROVE  CountsInv'
    BY <1>2, Zenon DEF mirror, CountsInv, OpsMatch, Counted, Due, Direction, Subscribed, Requests
<1>3. CASE \E s \in Signals : ProcessPackets(s) \/ OtherSubscribes(s) \/ AddSignal(s)
                              \/ RemoveComponentSignals(s)
    BY <1>2, <1>3 DEF ProcessPackets, OtherSubscribes, AddSignal, RemoveComponentSignals, streaming
<1>4. CASE OnSessionError \/ InitClientSessionHandler \/ OnConnectionFailed
           \/ CheckReconnectionResult \/ Receive \/ InitTimerExpires
    BY <1>2, <1>4 DEF OnSessionError, InitClientSessionHandler, OnConnectionFailed,
       CheckReconnectionResult, Receive, InitTimerExpires, streaming
<1>5. CASE Processing
    BY <1>2, <1>5 DEF Processing, SignalAvailable, SignalUnavailable, StartReconnection,
       RequestStreamingOnReconnection, StreamingInitDone, CompleteReconnection
<1>6. CASE \E n \in SessionIds : OnServerSessionError(n) \/ Handler(n)
    BY <1>2, <1>6 DEF OnServerSessionError, Handler, HandleTransportLayerProps, HandleStreamingInit,
       HandleSubscribe, HandleUnsubscribe, streaming
<1>7. CASE UNCHANGED vars
    BY <1>2, <1>7 DEF vars, streaming
<1> QED
    BY <1>1, <1>3, <1>4, <1>5, <1>6, <1>7, SessionAssumption, RequestStepCounts, Zenon
       DEF SessionNext

(* At first nothing is counted.                                            *)
LEMMA InitCounts == SessionInit => CountsInv
<1> SUFFICES ASSUME SessionInit PROVE CountsInv
    OBVIOUS
<1>1. OpsMatch
    BY DEF SessionInit, OpsMatch
<1>2. ASSUME NEW s \in Signals PROVE Counted(s) = {}
    BY DEF SessionInit, Counted, Subscribed, Due
<1> QED
    BY <1>1, <1>2, FS_EmptySet DEF CountsInv, SessionInit

(* The counts are right in every reachable state.                          *)
LEMMA CountsInvariant == SessionSpec => [](TypesInv /\ CountsInv)
BY InitTypes, NextTypes, InitCounts, NextCounts, PTL DEF SessionSpec

(* What the counts are made of: the subscribed signals without those that  *)
(* have yet to subscribe, and those that have yet to unsubscribe.          *)
LEMMA CountsBalance ==
    ASSUME TypesInv, CountsInv, NEW s \in Signals
    PROVE  /\ count[s] + Pending(s, "subscribe")
                = Cardinality({t \in Signals : Subscribed(t) /\ s \in {t, DomainOf[t]}})
                  + Pending(s, "unsubscribe")
           /\ count[s] \in 0 .. Cardinality(Signals)
<1> DEFINE A == {t \in Signals : Subscribed(t) /\ s \in {t, DomainOf[t]}}
           S == {t \in Signals : Due(t, "subscribe", s)}
           U == {t \in Signals : Due(t, "unsubscribe", s)}
<1>1. /\ \A t \in S : Subscribed(t) /\ s \in {t, DomainOf[t]}
      /\ \A t \in U : ~Subscribed(t)
    BY OpShape DEF CountsInv, Direction
<1>2. Counted(s) = (A \ S) \cup U
    BY <1>1 DEF Counted
<1>3. (A \ S) \cap U = {} /\ A \cap S = S
    BY <1>1
<1>4. IsFiniteSet(A) /\ IsFiniteSet(S) /\ IsFiniteSet(U) /\ IsFiniteSet(A \ S)
      /\ Cardinality(A) \in Nat /\ Cardinality(S) \in Nat /\ Cardinality(U) \in Nat
      /\ Cardinality(A \ S) \in Nat
    BY FinitePart
<1> HIDE DEF A, S, U
<1>5. Cardinality(A \ S) = Cardinality(A) - Cardinality(S)
    BY <1>3, <1>4, FS_Difference
<1>6. Cardinality((A \ S) \cup U) = Cardinality(A \ S) + Cardinality(U) - Cardinality((A \ S) \cap U)
    BY <1>4, FS_Union
<1>7. Cardinality((A \ S) \cap U) = 0
    BY <1>3, FS_EmptySet
<1>8. count[s] = Cardinality(A) - Cardinality(S) + Cardinality(U)
    BY <1>2, <1>4, <1>5, <1>6, <1>7 DEF CountsInv
<1>9. Pending(s, "subscribe") = Cardinality(S) /\ Pending(s, "unsubscribe") = Cardinality(U)
    BY DEF Pending, S, U, Due
<1>10. count[s] \in 0 .. Cardinality(Signals)
  <2>1. Counted(s) \subseteq Signals
      BY DEF Counted
  <2> QED
      BY <2>1, FinitePart DEF CountsInv
<1> QED
    BY <1>4, <1>8, <1>9, <1>10 DEF A

(* The subscriber counts of the streaming are exact, however calls on      *)
(* signals that share a domain signal interleave: none is left behind and  *)
(* none taken away too many (doSubscribeSignal, doUnsubscribeSignal).      *)
THEOREM SubscriberCountsExact == SessionSpec => []CountsExact
<1>1. TypesInv /\ CountsInv => CountsExact
    BY CountsBalance DEF CountsExact
<1> QED
    BY <1>1, CountsInvariant, PTL

(* The variables have their types; in particular no count goes below zero  *)
(* and a signal has a reader exactly while it has subscribers.             *)
THEOREM SessionTypeCorrect == SessionSpec => []SessionTypeOK
<1>1. ASSUME TypesInv, CountsInv
      PROVE  SessionTypeOK
  <2>1. \A s \in Signals : Len(op[s]) <= 2 /\ count[s] \in 0 .. Cardinality(Signals)
      BY <1>1, OpShape, CountsBalance DEF CountsInv
  <2>2. session \in 0 .. lastSession /\ lastSession \in SessionIds
      BY <1>1, SessionAssumption DEF TypesInv, LinkTypes, SessionIds
  <2>3. \A s \in Signals : /\ subscribers[s] \subseteq SessionIds \cup {Other}
                           /\ told[s] \subseteq subscribers[s]
                           /\ reader[s] \in {"none", "new", "read"}
                           /\ reader[s] = "none" <=> subscribers[s] = {}
      BY <1>1 DEF TypesInv, DeviceTypes, ReadersMatch
  <2> QED
      BY <1>1, <2>1, <2>2, <2>3 DEF SessionTypeOK, TypesInv, MirrorTypes, ClientTypes, LinkTypes,
         DeviceTypes
<1> QED
    BY <1>1, CountsInvariant, PTL

(* A mirrored signal that unsubscribes is never refused for want of a      *)
(* subscriber: the exception of doUnsubscribeSignal is not reached.        *)
NeverRefused ==
    [][\A t \in Signals : RequestStep(t) =>
           ~(Head(op[t]).kind = "unsubscribe" /\ count[Head(op[t]).signal] = 0)]_vars

(* Unsubscribing is never refused (doUnsubscribeSignal).                   *)
THEOREM UnsubscribeNeverRefused == SessionSpec => NeverRefused
<1>1. TypesInv /\ CountsInv /\ [SessionNext]_vars =>
          [\A t \in Signals : RequestStep(t) =>
               ~(Head(op[t]).kind = "unsubscribe" /\ count[Head(op[t]).signal] = 0)]_vars
    BY RequestStepCounts
<1> QED
    BY <1>1, CountsInvariant, PTL DEF SessionSpec, NeverRefused

---------------------------------------------------------------------------------
(***************************************************************************)
(* What each thread knows of the sessions.                                 *)
(***************************************************************************)
TaskAt(i, k) == i \in 1 .. Len(tasks) /\ tasks[i].kind = k

(* A loss is reported after the connections before it and before those     *)
(* after it.                                                               *)
LossesReported ==
    /\ attempt # "none" =>
         \A i \in Nat : TaskAt(i, "Connected") => \E j \in Nat : j > i /\ TaskAt(j, "Reconnecting")
    /\ \A i, j \in Nat : TaskAt(i, "Connected") /\ TaskAt(j, "Connected") /\ i < j =>
         \E k \in Nat : i < k /\ k < j /\ TaskAt(k, "Reconnecting")

TimerPending == initTimer \/ \E i \in Nat : TaskAt(i, "initTimer")

TimerHonest == TimerPending => session # 0 \/ Unheard \/ staleTimer

(* The init timer was started for a reconnection, and there is one at most.*)
TimersMatch ==
    ~staleTimer =>
        /\ TimerPending => reconnecting
        /\ \A i \in Nat : TaskAt(i, "initTimer") =>
               ~initTimer /\ \A j \in Nat : TaskAt(j, "initTimer") => i = j
        /\ \A i \in Nat : TaskAt(i, "Connected") =>
               \/ reconnecting /\ ~TimerPending
               \/ \E j \in Nat : j < i /\ TaskAt(j, "Reconnecting")
        /\ attempt # "none" => Unheard \/ (reconnecting /\ ~TimerPending)

StatusInv ==
    /\ LossesReported /\ TimerHonest /\ StatusHonest /\ TimersMatch
    /\ failed = "InvalidState" => staleTimer

(* The client has a session whose start was not yet processed.             *)
Fresh ==
    \/ attempt = "connected"
    \/ \E i \in Nat : TaskAt(i, "Connected") /\ \A j \in Nat : j > i => ~TaskAt(j, "Reconnecting")

Live == session # 0 /\ ~Fresh

FromDeviceAt(i) == i \in 1 .. Len(tasks) /\ tasks[i].kind \in {"available", "unavailable", "initDone"}

HasInit(q) == \E i \in DOMAIN q : q[i].kind = "init"
InitSent(n) == HasInit(toServer[n])

SessionsKnown ==
    /\ sessions \subseteq 1 .. lastSession
    /\ \A n \in SessionIds : n # session => toClient[n] = << >>

(* Nothing of a session is processed before its start, and everything of   *)
(* the one before it.                                                      *)
InOrder ==
    /\ Fresh => /\ toClient[session] = << >>
                /\ session \notin clients /\ ~InitSent(session)
    /\ attempt = "none" /\ Unheard => Fresh
    /\ ~Live /\ ~Unheard => available = {} /\ \A i \in Nat : ~FromDeviceAt(i)
    /\ \A i, j \in Nat : (TaskAt(i, "Reconnecting") \/ TaskAt(i, "Connected")) /\ i < j =>
           ~FromDeviceAt(j)

(* What the device holds of its clients: a client asks for streaming once, *)
(* names itself first, and subscribes only to what it was promised.        *)
Servable(n, q, cs, nm) ==
    \A i \in DOMAIN q :
        /\ q[i].kind = "init" => n \notin cs /\ \A j \in DOMAIN q : q[j].kind = "init" => i = j
        /\ q[i].kind = "subscribe" => n \in cs \/ \E j \in DOMAIN q : j < i /\ q[j].kind = "init"
        /\ q[i].kind = "properties" => i = 1 /\ nm # n
RequestsServed == \A n \in SessionIds : Servable(n, toServer[n], clients, named)
ClientsServed ==
    /\ RequestsServed
    /\ \A s \in Signals : subscribers[s] \subseteq clients
    /\ Live /\ session \in sessions => session \in clients \/ InitSent(session)

(* A signal becomes available and unavailable in turn, in what sequence q  *)
(* says of the signals when those of set on were available before it ...   *)
Up(s) == Message("available", s)
Down(s) == Message("unavailable", s)
Says(q, i, m) == i \in 1 .. Len(q) /\ q[i] = m
Alternates(q, on) ==
    \A s \in Signals :
        /\ \A i \in Nat : Says(q, i, Up(s)) =>
             /\ s \notin on \/ \E m \in Nat : m < i /\ Says(q, m, Down(s))
             /\ \A j \in Nat : j < i /\ Says(q, j, Up(s)) =>
                    \E m \in Nat : j < m /\ m < i /\ Says(q, m, Down(s))
        /\ \A i \in Nat : Says(q, i, Down(s)) =>
             /\ s \in on \/ \E m \in Nat : m < i /\ Says(q, m, Up(s))
             /\ \A j \in Nat : j < i /\ Says(q, j, Down(s)) =>
                    \E m \in Nat : j < m /\ m < i /\ Says(q, m, Up(s))

(* ... and those of set after are available after it.                      *)
EndsAt(q, on, after) ==
    \A s \in Signals :
        s \in after <=>
            \/ s \in on /\ \A m \in Nat : ~Says(q, m, Down(s))
            \/ \E i \in Nat :
                   Says(q, i, Up(s)) /\ \A m \in Nat : i < m => ~Says(q, m, Down(s))

SignalsInTurn ==
    /\ Alternates(tasks, available)
    /\ Live =>
         /\ EndsAt(tasks, available, signalIds)
         /\ Alternates(toClient[session], signalIds)
         /\ session \in clients => EndsAt(toClient[session], signalIds, registered)
         /\ InitSent(session) => toClient[session] = << >> /\ signalIds = {}

(* The device answers one request for streaming once.                      *)
DoneIn(q, i) == i \in 1 .. Len(q) /\ q[i].kind = "initDone"
InitDoneOnce ==
    /\ \A i \in Nat : DoneIn(tasks, i) =>
         /\ ~initReady
         /\ \A j \in Nat : DoneIn(tasks, j) => i = j
         /\ session # 0 => \A j \in Nat : ~DoneIn(toClient[session], j)
    /\ session # 0 => \A i \in Nat : DoneIn(toClient[session], i) =>
         ~initReady /\ \A j \in Nat : DoneIn(toClient[session], j) => i = j
    /\ Live /\ InitSent(session) => ~initReady /\ \A i \in Nat : ~DoneIn(tasks, i)

Ordered ==
    /\ InOrder /\ ClientsServed /\ SignalsInTurn /\ InitDoneOnce
    /\ failed \in {"no", "InvalidState"} /\ ~threw
OrderInv == SessionsKnown /\ (~late => Ordered)

---------------------------------------------------------------------------------
(***************************************************************************)
(* The tasks of the processing thread: one is posted at the end, or the    *)
(* first one taken.                                                        *)
(***************************************************************************)
LEMMA TaskPosted ==
    ASSUME tasks \in Seq(Posted), NEW m \in Posted, tasks' = Append(tasks, m)
    PROVE  /\ Len(tasks) \in Nat
           /\ \A k : \A i \in Nat : TaskAt(i, k) => i <= Len(tasks) /\ i >= 1
           /\ \A k : \A i \in Nat : TaskAt(i, k) => TaskAt(i, k)'
           /\ \A k : \A i \in Nat : TaskAt(i, k)' => TaskAt(i, k) \/ (i = Len(tasks) + 1 /\ k = m.kind)
           /\ \A i \in Nat : i = Len(tasks) + 1 => TaskAt(i, m.kind)'
<1>1. /\ Len(tasks) \in Nat /\ Len(tasks') = Len(tasks) + 1
      /\ \A i \in 1 .. Len(tasks) : tasks'[i] = tasks[i]
      /\ tasks'[Len(tasks) + 1] = m
    OBVIOUS
<1> QED
    BY <1>1 DEF TaskAt

(* When the first task is taken, the others move up by one.                *)
LEMMA TaskTaken ==
    ASSUME tasks \in Seq(Posted), tasks # << >>, tasks' = Tail(tasks)
    PROVE  /\ \A k : TaskAt(1, k) <=> Head(tasks).kind = k
           /\ \A k : \A i \in Nat : TaskAt(i, k) => i >= 1
           /\ \A k : \A i \in Nat : TaskAt(i, k)' => i >= 1 /\ TaskAt(i + 1, k)
           /\ \A k : \A i \in Nat : TaskAt(i, k) /\ i > 1 => TaskAt(i - 1, k)' /\ i - 1 \in Nat
<1>1. /\ Len(tasks) \in Nat \ {0} /\ Len(tasks') = Len(tasks) - 1
      /\ \A i \in 1 .. Len(tasks) - 1 : tasks'[i] = tasks[i + 1]
      /\ Head(tasks) = tasks[1]
    OBVIOUS
<1>2. \A k : TaskAt(1, k) <=> Head(tasks).kind = k
    BY <1>1 DEF TaskAt
<1>3. ASSUME NEW k, NEW i \in Nat, TaskAt(i, k)'
      PROVE  i >= 1 /\ TaskAt(i + 1, k)
    BY <1>1, <1>3 DEF TaskAt
<1>4. ASSUME NEW k, NEW i \in Nat, TaskAt(i, k), i > 1
      PROVE  TaskAt(i - 1, k)' /\ i - 1 \in Nat
  <2>1. i - 1 \in 1 .. Len(tasks) - 1 /\ tasks'[i - 1] = tasks[(i - 1) + 1]
      BY <1>1, <1>4 DEF TaskAt
  <2> QED
      BY <1>1, <1>4, <2>1 DEF TaskAt
<1> QED
    BY <1>2, <1>3, <1>4 DEF TaskAt

(* The loss of a session is unheard while its task waits.                  *)
LEMMA UnheardTask ==
    ASSUME tasks \in Seq(Posted)
    PROVE  Unheard <=> \E i \in Nat : TaskAt(i, "Reconnecting")
BY DEF Unheard, TaskAt

(* The same in the next state.                                             *)
LEMMA UnheardTaskNext ==
    ASSUME tasks' \in Seq(Posted)
    PROVE  Unheard' <=> \E i \in Nat : TaskAt(i, "Reconnecting")'
BY DEF Unheard, TaskAt

(* What the status depends on stays as it is.                              *)
LEMMA StatusFrame ==
    ASSUME StatusInv,
           UNCHANGED <<tasks, attempt, session, initTimer, staleTimer, status, reconnecting, failed>>
    PROVE  StatusInv'
<1>1. \A i \in Nat : \A k : TaskAt(i, k)' <=> TaskAt(i, k)
    BY DEF TaskAt
<1>2. (Unheard' <=> Unheard) /\ (TimerPending' <=> TimerPending)
    BY <1>1 DEF TimerPending, Unheard
<1> QED
    BY <1>1, <1>2 DEF StatusInv, LossesReported, TimerHonest, StatusHonest, TimersMatch

(* A task that is none of the four posted at the end changes nothing.      *)
LEMMA StatusPosted ==
    ASSUME TypesInv, StatusInv, NEW m \in FromDevice, tasks' = Append(tasks, m),
           UNCHANGED <<attempt, session, initTimer, staleTimer, status, reconnecting, failed>>
    PROVE  StatusInv'
<1>1. tasks \in Seq(Posted) /\ m \in Posted
      /\ m.kind \notin {"Reconnecting", "Connected", "initTimer"}
    BY MessageFacts DEF TypesInv, ClientTypes
<1>2. \A i \in Nat : \A k \in {"Reconnecting", "Connected", "initTimer"} :
          TaskAt(i, k)' <=> TaskAt(i, k)
    BY <1>1, TaskPosted
<1>3. Unheard' <=> Unheard
    BY <1>1, <1>2, UnheardTask DEF Unheard, TaskAt
<1>4. TimerPending' <=> TimerPending
    BY <1>2 DEF TimerPending
<1> QED
    BY <1>2, <1>3, <1>4 DEF StatusInv, LossesReported, TimerHonest, StatusHonest, TimersMatch

(* The transport layer posts tasks and keeps the status honest.            *)
LEMMA TransportStatus ==
    ASSUME TypesInv, StatusInv,
           OnSessionError \/ InitClientSessionHandler \/ OnConnectionFailed
           \/ CheckReconnectionResult \/ Receive \/ InitTimerExpires
    PROVE  StatusInv'
<1>1. tasks \in Seq(Posted) /\ MaxSessions \in Nat \ {0} /\ lastSession \in 1 .. MaxSessions
    BY SessionAssumption DEF TypesInv, ClientTypes, LinkTypes, SessionIds
<1>2. Unheard <=> \E i \in Nat : TaskAt(i, "Reconnecting")
    BY <1>1, UnheardTask
<1>3. tasks' \in Seq(Posted)
    BY TransportTypes DEF TypesInv, ClientTypes
<1>4. Unheard' <=> \E i \in Nat : TaskAt(i, "Reconnecting")'
    BY <1>3, UnheardTaskNext
<1> USE DEF StatusInv, LossesReported, TimerHonest, StatusHonest, TimersMatch
<1>5. CASE OnSessionError
  <2>1. /\ Plain("Reconnecting") \in Posted /\ Plain("Reconnecting").kind = "Reconnecting"
        /\ tasks' = Append(tasks, Plain("Reconnecting")) /\ attempt' = "pending"
        /\ UNCHANGED <<initTimer, staleTimer, status, reconnecting, failed>>
      BY <1>5 DEF OnSessionError, Posted, Plain, Message, streaming, timer
  <2>2. /\ \A i \in Nat : TaskAt(i, "Reconnecting") => TaskAt(i, "Reconnecting")'
        /\ \A i \in Nat : i = Len(tasks) + 1 => TaskAt(i, "Reconnecting")'
        /\ \A i \in Nat : \A k \in {"Connected", "initTimer"} : TaskAt(i, k)' <=> TaskAt(i, k)
        /\ \A i \in Nat : TaskAt(i, "Connected") => i <= Len(tasks)
        /\ Len(tasks) + 1 \in Nat
      BY <1>1, <2>1, TaskPosted
  <2>3. Unheard'
      BY <1>4, <2>2
  <2>4. TimerPending' <=> TimerPending
      BY <2>1, <2>2 DEF TimerPending
  <2>5. LossesReported'
      BY <2>2
  <2> QED
      BY <2>1, <2>2, <2>3, <2>4, <2>5
<1>6. CASE InitClientSessionHandler
  <2>1. /\ UNCHANGED <<tasks, initTimer, staleTimer, status, reconnecting, failed>>
        /\ attempt # "none" /\ session' # 0
      BY <1>1, <1>6 DEF InitClientSessionHandler, streaming, timer
  <2>2. \A i \in Nat : \A k : TaskAt(i, k)' <=> TaskAt(i, k)
      BY <2>1 DEF TaskAt
  <2>3. (Unheard' <=> Unheard) /\ (TimerPending' <=> TimerPending)
      BY <2>1, <2>2 DEF TimerPending, Unheard
  <2> QED
      BY <2>1, <2>2, <2>3
<1>7. CASE OnConnectionFailed
  <2>1. /\ UNCHANGED <<tasks, session, initTimer, staleTimer, status, reconnecting, failed>>
        /\ attempt # "none"
      BY <1>7 DEF OnConnectionFailed, streaming, timer
  <2>2. \A i \in Nat : \A k : TaskAt(i, k)' <=> TaskAt(i, k)
      BY <2>1 DEF TaskAt
  <2>3. (Unheard' <=> Unheard) /\ (TimerPending' <=> TimerPending)
      BY <2>1, <2>2 DEF TimerPending, Unheard
  <2> QED
      BY <2>1, <2>2, <2>3
<1>8. CASE CheckReconnectionResult /\ attempt = "connected"
  <2>1. /\ Plain("Connected") \in Posted /\ Plain("Connected").kind = "Connected"
        /\ tasks' = Append(tasks, Plain("Connected")) /\ attempt' = "none"
        /\ UNCHANGED <<session, initTimer, staleTimer, status, reconnecting, failed>>
      BY <1>8 DEF CheckReconnectionResult, Posted, Plain, Message, streaming, timer
  <2>2. /\ \A i \in Nat : TaskAt(i, "Connected") => TaskAt(i, "Connected")'
        /\ \A i \in Nat : TaskAt(i, "Connected")' => TaskAt(i, "Connected") \/ i = Len(tasks) + 1
        /\ \A i \in Nat : \A k \in {"Reconnecting", "initTimer"} : TaskAt(i, k)' <=> TaskAt(i, k)
        /\ \A i \in Nat : \A k : TaskAt(i, k) => i <= Len(tasks)
        /\ Len(tasks) + 1 \in Nat
      BY <1>1, <2>1, TaskPosted
  <2>3. (Unheard' <=> Unheard) /\ (TimerPending' <=> TimerPending)
      BY <1>2, <1>4, <2>1, <2>2 DEF TimerPending
  <2>4. TimersMatch'
    <3>1. ASSUME ~staleTimer, NEW i \in Nat, TaskAt(i, "Connected")'
          PROVE  \/ reconnecting /\ ~TimerPending
                 \/ \E j \in Nat : j < i /\ TaskAt(j, "Reconnecting")
        BY <1>2, <1>8, <2>1, <2>2, <3>1
    <3> QED
        BY <2>1, <2>2, <2>3, <3>1
  <2>5. LossesReported'
    <3>1. ASSUME NEW i \in Nat, NEW j \in Nat, TaskAt(i, "Connected")', TaskAt(j, "Connected")', i < j
          PROVE  \E k \in Nat : i < k /\ k < j /\ TaskAt(k, "Reconnecting")
        BY <1>8, <2>1, <2>2, <3>1
    <3> QED
        BY <2>1, <2>2, <3>1
  <2> QED
      BY <2>1, <2>3, <2>4, <2>5
<1>9. CASE CheckReconnectionResult /\ attempt # "connected"
  <2>1. /\ UNCHANGED <<tasks, session, initTimer, staleTimer, status, reconnecting, failed>>
        /\ attempt # "none"
      BY <1>9 DEF CheckReconnectionResult, streaming, timer
  <2>2. \A i \in Nat : \A k : TaskAt(i, k)' <=> TaskAt(i, k)
      BY <2>1 DEF TaskAt
  <2>3. (Unheard' <=> Unheard) /\ (TimerPending' <=> TimerPending)
      BY <2>1, <2>2 DEF TimerPending, Unheard
  <2> QED
      BY <2>1, <2>2, <2>3
<1>10. CASE Receive
  <2>1. /\ Head(toClient[session]) \in FromDevice
        /\ tasks' = Append(tasks, Head(toClient[session]))
        /\ UNCHANGED <<attempt, session, initTimer, staleTimer, status, reconnecting, failed>>
    <3>1. session \in SessionIds /\ toClient[session] # << >>
        BY <1>1, <1>10 DEF Receive, TypesInv, LinkTypes, SessionIds
    <3>2. Head(toClient[session]) \in FromDevice
        BY <3>1 DEF TypesInv, LinkTypes
    <3> QED
        BY <1>10, <3>2 DEF Receive, streaming, timer, link
  <2> QED
      BY <2>1, StatusPosted
<1>11. CASE InitTimerExpires
  <2>1. /\ Plain("initTimer") \in Posted /\ Plain("initTimer").kind = "initTimer"
        /\ tasks' = Append(tasks, Plain("initTimer")) /\ initTimer /\ initTimer' = FALSE
        /\ UNCHANGED <<attempt, session, staleTimer, status, reconnecting, failed>>
      BY <1>11 DEF InitTimerExpires, Posted, Plain, Message, streaming, link
  <2>2. /\ \A i \in Nat : TaskAt(i, "initTimer")' => TaskAt(i, "initTimer") \/ i = Len(tasks) + 1
        /\ \A i \in Nat : i = Len(tasks) + 1 => TaskAt(i, "initTimer")'
        /\ \A i \in Nat : \A k \in {"Reconnecting", "Connected"} : TaskAt(i, k)' <=> TaskAt(i, k)
        /\ Len(tasks) + 1 \in Nat
      BY <1>1, <2>1, TaskPosted
  <2>3. (Unheard' <=> Unheard) /\ TimerPending' /\ TimerPending
      BY <1>2, <1>4, <2>1, <2>2 DEF TimerPending
  <2> QED
      BY <2>1, <2>2, <2>3
<1> QED
    BY <1>5, <1>6, <1>7, <1>8, <1>9, <1>10, <1>11

(* The processing thread takes a task that is none of the three.           *)
LEMMA StatusTaken ==
    ASSUME TypesInv, StatusInv, tasks # << >>, tasks' = Tail(tasks),
           Head(tasks).kind \notin {"Reconnecting", "Connected", "initTimer"},
           UNCHANGED <<attempt, session, initTimer, staleTimer, status, reconnecting>>,
           failed' = "InvalidState" => failed = "InvalidState"
    PROVE  StatusInv'
<1>1. tasks \in Seq(Posted) /\ tasks' \in Seq(Posted)
    BY DEF TypesInv, ClientTypes
<1>2. /\ Unheard <=> \E i \in Nat : TaskAt(i, "Reconnecting")
      /\ Unheard' <=> \E i \in Nat : TaskAt(i, "Reconnecting")'
    BY <1>1, UnheardTask, UnheardTaskNext
<1>3. /\ \A k \in {"Reconnecting", "Connected", "initTimer"} : \A i \in Nat :
           /\ TaskAt(i, k) => i - 1 \in Nat /\ TaskAt(i - 1, k)'
           /\ TaskAt(i, k)' => i + 1 \in Nat /\ TaskAt(i + 1, k)
    BY <1>1, TaskTaken
<1>4. (Unheard' <=> Unheard) /\ (TimerPending' <=> TimerPending)
  <2>1. Unheard' <=> Unheard
      BY <1>2, <1>3
  <2>2. TimerPending' <=> TimerPending
      BY <1>3 DEF TimerPending
  <2> QED
      BY <2>1, <2>2
<1>5. LossesReported'
    BY <1>3 DEF StatusInv, LossesReported
<1>6. TimersMatch'
  <2> SUFFICES ASSUME ~staleTimer'
               PROVE  /\ TimerPending' => reconnecting'
                      /\ \A i \in Nat : TaskAt(i, "initTimer")' =>
                            ~initTimer' /\ \A j \in Nat : TaskAt(j, "initTimer")' => i = j
                      /\ \A i \in Nat : TaskAt(i, "Connected")' =>
                            \/ reconnecting' /\ ~TimerPending'
                            \/ \E j \in Nat : j < i /\ TaskAt(j, "Reconnecting")'
                      /\ attempt' # "none" => Unheard' \/ (reconnecting' /\ ~TimerPending')
      BY DEF TimersMatch
  <2>1. \A i \in Nat : TaskAt(i, "initTimer")' =>
            ~initTimer' /\ \A j \in Nat : TaskAt(j, "initTimer")' => i = j
      BY <1>3 DEF StatusInv, TimersMatch
  <2>2. \A i \in Nat : TaskAt(i, "Connected")' =>
            \/ reconnecting' /\ ~TimerPending'
            \/ \E j \in Nat : j < i /\ TaskAt(j, "Reconnecting")'
      BY <1>3, <1>4 DEF StatusInv, TimersMatch
  <2> QED
      BY <1>4, <2>1, <2>2 DEF StatusInv, TimersMatch
<1> QED
    BY <1>4, <1>5, <1>6 DEF StatusInv, TimerHonest, StatusHonest

(* The task handlers of the client keep the status honest.                 *)
LEMMA ProcessingStatus ==
    ASSUME TypesInv, StatusInv, Processing
    PROVE  StatusInv'
<1>1. tasks # << >> /\ tasks' = Tail(tasks)
    BY DEF Processing, SignalAvailable, SignalUnavailable, StartReconnection,
           RequestStreamingOnReconnection, StreamingInitDone, CompleteReconnection, Task
<1>2. tasks \in Seq(Posted) /\ tasks' \in Seq(Posted)
    BY <1>1 DEF TypesInv, ClientTypes
<1>3. /\ Unheard <=> \E i \in Nat : TaskAt(i, "Reconnecting")
      /\ Unheard' <=> \E i \in Nat : TaskAt(i, "Reconnecting")'
    BY <1>2, UnheardTask, UnheardTaskNext
<1>4. /\ \A k : TaskAt(1, k) <=> Head(tasks).kind = k
      /\ \A k : \A i \in Nat : TaskAt(i, k) => i >= 1
      /\ \A k : \A i \in Nat : TaskAt(i, k)' => i >= 1 /\ TaskAt(i + 1, k)
      /\ \A k : \A i \in Nat : TaskAt(i, k) /\ i > 1 => TaskAt(i - 1, k)' /\ i - 1 \in Nat
    BY <1>1, <1>2, TaskTaken
<1>5. CASE SignalAvailable \/ SignalUnavailable \/ StreamingInitDone
    BY <1>1, <1>5, StatusTaken DEF SignalAvailable, SignalUnavailable, StreamingInitDone, Task, timer, link
<1>6. CASE StartReconnection
  <2>1. /\ Head(tasks).kind = "Reconnecting"
        /\ reconnecting' = TRUE /\ status' = "Reconnecting"
        /\ UNCHANGED <<attempt, session, initTimer, failed>>
        /\ staleTimer' <=> staleTimer \/ TimerPending
    <3>1. Plain("initTimer") \in ToSet(tasks) <=> \E i \in Nat : TaskAt(i, "initTimer")
      <4>1. \A i \in 1 .. Len(tasks) : tasks[i] = Plain("initTimer") <=> tasks[i].kind = "initTimer"
          BY <1>2, MessageFacts DEF Plain
      <4>2. DOMAIN tasks = 1 .. Len(tasks) /\ Len(tasks) \in Nat
          BY <1>2
      <4> QED
          BY <4>1, <4>2 DEF ToSet, TaskAt
    <3> QED
        BY <1>6, <3>1 DEF StartReconnection, Task, link, TimerPending, TypesInv, ClientTypes
  <2>2. ~TimerPending => ~TimerPending'
      BY <1>4, <2>1 DEF TimerPending
  <2>3. TimerHonest' /\ StatusHonest'
      BY <2>1, <2>2 DEF TimerHonest, StatusHonest
  <2>4. \A i \in Nat : \A k \in {"Connected", "initTimer"} : TaskAt(i, k) => i > 1
      BY <1>4, <2>1
  <2>5. LossesReported'
      BY <1>4, <2>1, <2>4 DEF StatusInv, LossesReported
  <2>6. TimersMatch'
    <3>1. staleTimer' \/ ~TimerPending'
        BY <2>1, <2>2
    <3>2. ~TimerPending' => ~initTimer' /\ \A i \in Nat : ~TaskAt(i, "initTimer")'
        BY DEF TimerPending
    <3> QED
        BY <2>1, <3>1, <3>2 DEF TimersMatch
  <2> QED
      BY <2>1, <2>3, <2>5, <2>6 DEF StatusInv
<1>7. CASE RequestStreamingOnReconnection
  <2>1. /\ Head(tasks).kind = "Connected" /\ initTimer' = TRUE
        /\ UNCHANGED <<attempt, session, staleTimer, status, reconnecting, failed>>
      BY <1>7 DEF RequestStreamingOnReconnection, Task, link
  <2>2. \A i \in Nat : \A k \in {"Reconnecting", "initTimer"} : TaskAt(i, k) => i > 1
      BY <1>4, <2>1
  <2>3. Unheard' <=> Unheard
    <3>1. Unheard' => Unheard
        BY <1>3, <1>4
    <3>2. Unheard => Unheard'
        BY <1>3, <1>4, <2>2
    <3> QED
        BY <3>1, <3>2
  <2>4. LossesReported'
      BY <1>4, <2>1 DEF StatusInv, LossesReported
  <2>5. session = 0 => Unheard'
    <3>1. session = 0 => attempt # "none"
        BY SessionAssumption DEF TypesInv, LinkTypes, SessionIds
    <3>2. TaskAt(1, "Connected")
        BY <1>4, <2>1
    <3> QED
        BY <1>3, <2>3, <3>1, <3>2 DEF StatusInv, LossesReported
  <2>6. ~staleTimer => reconnecting /\ ~TimerPending
    <3>1. TaskAt(1, "Connected") /\ \A j \in Nat : TaskAt(j, "Reconnecting") => ~(j < 1)
        BY <1>4, <2>1
    <3> QED
        BY <3>1 DEF StatusInv, TimersMatch
  <2>7. ~staleTimer => \A i \in Nat : ~TaskAt(i, "initTimer")'
      BY <1>4, <2>6 DEF TimerPending
  <2>9. ASSUME ~staleTimer, NEW i \in Nat, TaskAt(i, "Connected")'
        PROVE  \E j \in Nat : j < i /\ TaskAt(j, "Reconnecting")'
    <3>1. TaskAt(1, "Connected") /\ TaskAt(i + 1, "Connected") /\ 1 < i + 1 /\ i + 1 \in Nat
        BY <1>4, <2>1, <2>9
    <3>2. PICK k \in Nat : 1 < k /\ k < i + 1 /\ TaskAt(k, "Reconnecting")
        BY <3>1 DEF StatusInv, LossesReported
    <3> QED
        BY <1>4, <3>2
  <2>10. attempt # "none" /\ ~staleTimer => Unheard'
    <3>1. TaskAt(1, "Connected")
        BY <1>4, <2>1
    <3> QED
        BY <1>3, <2>3, <3>1 DEF StatusInv, LossesReported
  <2>11. TimersMatch'
      BY <2>1, <2>6, <2>7, <2>9, <2>10 DEF TimersMatch
  <2> QED
      BY <2>1, <2>3, <2>4, <2>5, <2>11 DEF StatusInv, TimerHonest, StatusHonest
<1>8. CASE CompleteReconnection
  <2>1. /\ Head(tasks).kind = "initTimer" /\ TimerPending
        /\ UNCHANGED <<attempt, session, initTimer, staleTimer>>
        /\ ~staleTimer => failed' = failed
        /\ failed' = "InvalidState" => staleTimer
    <3>1. Head(tasks).kind = "initTimer"
        BY <1>8 DEF CompleteReconnection, Task
    <3>2. TimerPending
        BY <1>4, <3>1 DEF TimerPending
    <3>3. ~staleTimer => reconnecting
        BY <3>2 DEF StatusInv, TimersMatch
    <3> QED
        BY <1>8, <3>1, <3>2, <3>3 DEF CompleteReconnection, timer, link, StatusInv
  <2>2. \A i \in Nat : \A k \in {"Reconnecting", "Connected"} : TaskAt(i, k) => i > 1
      BY <1>4, <2>1
  <2>3. Unheard' <=> Unheard
    <3>1. Unheard' => Unheard
        BY <1>3, <1>4
    <3>2. Unheard => Unheard'
        BY <1>3, <1>4, <2>2
    <3> QED
        BY <3>1, <3>2
  <2>4. LossesReported'
      BY <1>4, <2>1, <2>2 DEF StatusInv, LossesReported
  <2>5. session # 0 \/ Unheard' \/ staleTimer
      BY <2>1, <2>3 DEF StatusInv, TimerHonest
  <2>6. ~staleTimer => ~initTimer /\ \A i \in Nat : ~TaskAt(i, "initTimer")'
      BY <1>4, <2>1 DEF StatusInv, TimersMatch
  <2>7. ~staleTimer => ~TimerPending'
      BY <2>1, <2>6 DEF TimerPending
  <2>8. ASSUME ~staleTimer, NEW i \in Nat, TaskAt(i, "Connected")'
        PROVE  \E j \in Nat : j < i /\ TaskAt(j, "Reconnecting")'
    <3>1. PICK j \in Nat : j < i + 1 /\ TaskAt(j, "Reconnecting")
        BY <1>4, <2>1, <2>8 DEF StatusInv, TimersMatch
    <3> QED
        BY <1>4, <2>2, <3>1
  <2>10. TimersMatch'
      BY <2>1, <2>3, <2>6, <2>7, <2>8 DEF StatusInv, TimersMatch
  <2> QED
      BY <2>1, <2>4, <2>5, <2>10 DEF StatusInv, TimerHonest, StatusHonest
<1> QED
    BY <1>5, <1>6, <1>7, <1>8 DEF Processing

(* Every step keeps the status honest.                                     *)
LEMMA NextStatus == TypesInv /\ StatusInv /\ [SessionNext]_vars => StatusInv'
<1> SUFFICES ASSUME TypesInv, StatusInv, [SessionNext]_vars
             PROVE  StatusInv'
    OBVIOUS
<1>1. CASE \E s \in Signals : OnListenedStatusChanged(s) \/ SetStreamed(s)
             \/ SetActiveStreamingSource(s) \/ DeactivateStreaming(s) \/ RequestStep(s)
    BY <1>1, StatusFrame DEF OnListenedStatusChanged, SetStreamed, SetActiveStreamingSource,
       DeactivateStreaming, Call, RequestStep, streaming, timer, link
<1>2. CASE \E s \in Signals : ProcessPackets(s) \/ OtherSubscribes(s) \/ AddSignal(s)
                              \/ RemoveComponentSignals(s)
    BY <1>2, StatusFrame DEF ProcessPackets, OtherSubscribes, AddSignal, RemoveComponentSignals,
       streaming, timer, link
<1>3. CASE \E n \in SessionIds : OnServerSessionError(n) \/ Handler(n)
    BY <1>3, StatusFrame DEF OnServerSessionError, Handler, HandleTransportLayerProps,
       HandleStreamingInit, HandleSubscribe, HandleUnsubscribe, streaming, timer, link
<1>4. CASE UNCHANGED vars
    BY <1>4, StatusFrame DEF vars, streaming, timer, link
<1> QED
    BY <1>1, <1>2, <1>3, <1>4, TransportStatus, ProcessingStatus, SessionAssumption, Zenon
       DEF SessionNext

(* The status is honest at first.                                          *)
LEMMA InitStatus == SessionInit => StatusInv
<1> SUFFICES ASSUME SessionInit PROVE StatusInv
    OBVIOUS
<1>1. \A i \in Nat : \A k : ~TaskAt(i, k)
    BY DEF SessionInit, TaskAt
<1>2. ~Unheard /\ ~TimerPending
    BY <1>1 DEF SessionInit, Unheard, TimerPending
<1> QED
    BY <1>1, <1>2 DEF SessionInit, StatusInv, LossesReported, TimerHonest, StatusHonest, TimersMatch

(* The status is honest in every reachable state.                          *)
LEMMA StatusInvariant == SessionSpec => [](TypesInv /\ StatusInv)
BY InitTypes, NextTypes, InitStatus, NextStatus, PTL DEF SessionSpec

(* The status says "Connected" only while there is a session or the news   *)
(* of its loss is on the way, except after an init timer that outlived its *)
(* session (updateConnectionStatus, requestStreamingOnReconnection).       *)
THEOREM StatusIsHonest == SessionSpec => []StatusHonest
<1>1. StatusInv => StatusHonest
    BY DEF StatusInv
<1> QED
    BY <1>1, StatusInvariant, PTL

---------------------------------------------------------------------------------
(***************************************************************************)
(* What is said of the signals in turn: at the end of a sequence, and at   *)
(* its head.                                                               *)
(***************************************************************************)
LEMMA UpDownFacts ==
    /\ \A s, u : (Up(s) = Up(u) <=> s = u) /\ (Down(s) = Down(u) <=> s = u) /\ Up(s) # Down(u)
    /\ \A s : Up(s).kind = "available" /\ Down(s).kind = "unavailable"
    /\ \A m \in Posted : m.kind = "available" => m = Up(m.signal) /\ m.signal \in Signals
    /\ \A m \in Posted : m.kind = "unavailable" => m = Down(m.signal) /\ m.signal \in Signals
    /\ \A s \in Signals : Up(s) \in FromDevice /\ Down(s) \in FromDevice
<1>1. \A s : Up(s) = Message("available", s) /\ Down(s) = Message("unavailable", s)
    BY DEF Up, Down
<1>2. \A k, s, j, u : Message(k, s) = Message(j, u) <=> k = j /\ s = u
    BY DEF Message
<1>3. \A s \in Signals : Up(s) \in FromDevice /\ Down(s) \in FromDevice
    BY <1>1 DEF FromDevice
<1> QED
    BY <1>1, <1>2, <1>3, MessageFacts

(* What a sequence says when something is added, and when its head is      *)
(* taken.                                                                  *)
LEMMA SaysAppend ==
    ASSUME NEW q \in Seq(Posted), NEW m \in Posted
    PROVE  /\ Len(q) + 1 \in Nat
           /\ \A i \in Nat : \A n : Says(q, i, n) => i <= Len(q) /\ i < Len(q) + 1
           /\ \A i \in Nat : \A n : Says(Append(q, m), i, n)
                                      <=> Says(q, i, n) \/ (i = Len(q) + 1 /\ n = m)
<1>1. /\ Len(q) \in Nat /\ Len(Append(q, m)) = Len(q) + 1 /\ Append(q, m)[Len(q) + 1] = m
      /\ \A i \in 1 .. Len(q) : Append(q, m)[i] = q[i]
    OBVIOUS
<1> QED
    BY <1>1 DEF Says

(* What a queue says, without its head.                                    *)
LEMMA SaysTail ==
    ASSUME NEW q \in Seq(Posted), q # << >>
    PROVE  /\ \A n : Says(q, 1, n) <=> Head(q) = n
           /\ \A i \in Nat : \A n : Says(q, i, n) => i >= 1
           /\ \A i \in Nat : \A n : Says(Tail(q), i, n) => i >= 1 /\ i + 1 \in Nat /\ Says(q, i + 1, n)
           /\ \A i \in Nat : \A n : Says(q, i, n) /\ i # 1 => i - 1 \in Nat /\ Says(Tail(q), i - 1, n)
<1>1. /\ Len(q) \in Nat \ {0} /\ Len(Tail(q)) = Len(q) - 1 /\ Head(q) = q[1]
      /\ \A i \in 1 .. Len(q) - 1 : Tail(q)[i] = q[i + 1]
    OBVIOUS
<1>2. \A n : Says(q, 1, n) <=> Head(q) = n
    BY <1>1 DEF Says
<1>3. ASSUME NEW i \in Nat, NEW n, Says(Tail(q), i, n)
      PROVE  i >= 1 /\ i + 1 \in Nat /\ Says(q, i + 1, n)
    BY <1>1, <1>3 DEF Says
<1>4. ASSUME NEW i \in Nat, NEW n, Says(q, i, n), i # 1
      PROVE  i - 1 \in Nat /\ Says(Tail(q), i - 1, n)
  <2>1. i - 1 \in 1 .. Len(q) - 1 /\ Tail(q)[i - 1] = q[(i - 1) + 1]
      BY <1>1, <1>4 DEF Says
  <2> QED
      BY <1>1, <1>4, <2>1 DEF Says
<1> QED
    BY <1>2, <1>3, <1>4 DEF Says

(* Something else is said.                                                 *)
LEMMA OtherSaid ==
    ASSUME NEW q \in Seq(Posted), NEW on, NEW after, NEW m \in Posted,
           m.kind \notin {"available", "unavailable"}
    PROVE  /\ Alternates(q, on) => Alternates(Append(q, m), on)
           /\ EndsAt(q, on, after) => EndsAt(Append(q, m), on, after)
<1>1. \A s : m # Up(s) /\ m # Down(s)
    BY UpDownFacts
<1>2. \A i \in Nat : \A s : /\ Says(Append(q, m), i, Up(s)) <=> Says(q, i, Up(s))
                            /\ Says(Append(q, m), i, Down(s)) <=> Says(q, i, Down(s))
    BY <1>1, SaysAppend
<1> QED
    BY <1>2 DEF Alternates, EndsAt

(* A signal becomes available.                                             *)
LEMMA UpSaid ==
    ASSUME NEW q \in Seq(Posted), NEW on, NEW after, NEW s \in Signals, s \notin after,
           Alternates(q, on), EndsAt(q, on, after)
    PROVE  Alternates(Append(q, Up(s)), on) /\ EndsAt(Append(q, Up(s)), on, after \cup {s})
<1>0. PICK last \in Nat : last = Len(q) + 1
    OBVIOUS
<1>1. PICK x : x = Append(q, Up(s))
    OBVIOUS
<1>2. /\ \A i \in Nat : \A u : Says(x, i, Down(u)) <=> Says(q, i, Down(u))
      /\ \A i \in Nat : \A u : u # s => (Says(x, i, Up(u)) <=> Says(q, i, Up(u)))
      /\ \A i \in Nat : Says(x, i, Up(s)) <=> Says(q, i, Up(s)) \/ i = last
      /\ \A i \in Nat : \A n : Says(q, i, n) => i < last
    BY <1>0, <1>1, SaysAppend, UpDownFacts, MessageFacts
<1>3. /\ s \notin on \/ \E m \in Nat : Says(q, m, Down(s))
      /\ \A j \in Nat : Says(q, j, Up(s)) => \E m \in Nat : j < m /\ Says(q, m, Down(s))
    BY DEF EndsAt
<1>4. Alternates(x, on)
  <2> SUFFICES ASSUME NEW u \in Signals
               PROVE  /\ \A i \in Nat : Says(x, i, Up(u)) =>
                           /\ u \notin on \/ \E m \in Nat : m < i /\ Says(x, m, Down(u))
                           /\ \A j \in Nat : j < i /\ Says(x, j, Up(u)) =>
                                \E m \in Nat : j < m /\ m < i /\ Says(x, m, Down(u))
                      /\ \A i \in Nat : Says(x, i, Down(u)) =>
                           /\ u \in on \/ \E m \in Nat : m < i /\ Says(x, m, Up(u))
                           /\ \A j \in Nat : j < i /\ Says(x, j, Down(u)) =>
                                \E m \in Nat : j < m /\ m < i /\ Says(x, m, Up(u))
      BY DEF Alternates
  <2>1. CASE u # s
      BY <1>2, <2>1 DEF Alternates
  <2>2. CASE u = s
    <3>1. ASSUME NEW i \in Nat, Says(x, i, Up(s))
          PROVE  /\ s \notin on \/ \E m \in Nat : m < i /\ Says(x, m, Down(s))
                 /\ \A j \in Nat : j < i /\ Says(x, j, Up(s)) =>
                        \E m \in Nat : j < m /\ m < i /\ Says(x, m, Down(s))
      <4>1. CASE i = last
          BY <1>2, <1>3, <4>1
      <4>2. CASE i # last
          BY <1>2, <3>1, <4>2 DEF Alternates
      <4> QED
          BY <4>1, <4>2
    <3>2. ASSUME NEW i \in Nat, Says(x, i, Down(s))
          PROVE  /\ s \in on \/ \E m \in Nat : m < i /\ Says(x, m, Up(s))
                 /\ \A j \in Nat : j < i /\ Says(x, j, Down(s)) =>
                        \E m \in Nat : j < m /\ m < i /\ Says(x, m, Up(s))
        BY <1>2, <3>2 DEF Alternates
    <3> QED
        BY <2>2, <3>1, <3>2
  <2> QED
      BY <2>1, <2>2
<1>5. EndsAt(x, on, after \cup {s})
  <2> SUFFICES ASSUME NEW u \in Signals
               PROVE  u \in after \cup {s} <=>
                        \/ u \in on /\ \A m \in Nat : ~Says(x, m, Down(u))
                        \/ \E i \in Nat :
                             Says(x, i, Up(u)) /\ \A m \in Nat : i < m => ~Says(x, m, Down(u))
      BY DEF EndsAt
  <2>1. CASE u = s
    <3>1. Says(x, last, Up(s)) /\ \A m \in Nat : last < m => ~Says(x, m, Down(s))
        BY <1>2
    <3> QED
        BY <2>1, <3>1
  <2>2. CASE u # s
      BY <1>2, <2>2 DEF EndsAt
  <2> QED
      BY <2>1, <2>2
<1> QED
    BY <1>1, <1>4, <1>5

(* A signal becomes unavailable.                                           *)
LEMMA DownSaid ==
    ASSUME NEW q \in Seq(Posted), NEW on, NEW after, NEW s \in Signals, s \in after,
           Alternates(q, on), EndsAt(q, on, after)
    PROVE  Alternates(Append(q, Down(s)), on) /\ EndsAt(Append(q, Down(s)), on, after \ {s})
<1>0. PICK last \in Nat : last = Len(q) + 1
    OBVIOUS
<1>1. PICK x : x = Append(q, Down(s))
    OBVIOUS
<1>2. /\ \A i \in Nat : \A u : Says(x, i, Up(u)) <=> Says(q, i, Up(u))
      /\ \A i \in Nat : \A u : u # s => (Says(x, i, Down(u)) <=> Says(q, i, Down(u)))
      /\ \A i \in Nat : Says(x, i, Down(s)) <=> Says(q, i, Down(s)) \/ i = last
      /\ \A i \in Nat : \A n : Says(q, i, n) => i < last
    BY <1>0, <1>1, SaysAppend, UpDownFacts, MessageFacts
<1>3. /\ s \in on \/ \E m \in Nat : Says(q, m, Up(s))
      /\ \A j \in Nat : Says(q, j, Down(s)) => \E m \in Nat : j < m /\ Says(q, m, Up(s))
  <2>1. CASE \A m \in Nat : ~Says(q, m, Down(s))
      BY <2>1 DEF EndsAt
  <2>2. ASSUME NEW i \in Nat, Says(q, i, Up(s)), \A m \in Nat : i < m => ~Says(q, m, Down(s))
        PROVE  \A j \in Nat : Says(q, j, Down(s)) => j < i
    <3>1. \A j \in Nat : Says(q, j, Down(s)) => j # i
        BY <2>2, UpDownFacts DEF Says
    <3> QED
        BY <2>2, <3>1
  <2> QED
      BY <2>1, <2>2 DEF EndsAt
<1>4. Alternates(x, on)
  <2> SUFFICES ASSUME NEW u \in Signals
               PROVE  /\ \A i \in Nat : Says(x, i, Up(u)) =>
                           /\ u \notin on \/ \E m \in Nat : m < i /\ Says(x, m, Down(u))
                           /\ \A j \in Nat : j < i /\ Says(x, j, Up(u)) =>
                                \E m \in Nat : j < m /\ m < i /\ Says(x, m, Down(u))
                      /\ \A i \in Nat : Says(x, i, Down(u)) =>
                           /\ u \in on \/ \E m \in Nat : m < i /\ Says(x, m, Up(u))
                           /\ \A j \in Nat : j < i /\ Says(x, j, Down(u)) =>
                                \E m \in Nat : j < m /\ m < i /\ Says(x, m, Up(u))
      BY DEF Alternates
  <2>1. CASE u # s
      BY <1>2, <2>1 DEF Alternates
  <2>2. CASE u = s
    <3>1. ASSUME NEW i \in Nat, Says(x, i, Down(s))
          PROVE  /\ s \in on \/ \E m \in Nat : m < i /\ Says(x, m, Up(s))
                 /\ \A j \in Nat : j < i /\ Says(x, j, Down(s)) =>
                        \E m \in Nat : j < m /\ m < i /\ Says(x, m, Up(s))
      <4>1. CASE i = last
          BY <1>2, <1>3, <4>1
      <4>2. CASE i # last
          BY <1>2, <3>1, <4>2 DEF Alternates
      <4> QED
          BY <4>1, <4>2
    <3>2. ASSUME NEW i \in Nat, Says(x, i, Up(s))
          PROVE  /\ s \notin on \/ \E m \in Nat : m < i /\ Says(x, m, Down(s))
                 /\ \A j \in Nat : j < i /\ Says(x, j, Up(s)) =>
                        \E m \in Nat : j < m /\ m < i /\ Says(x, m, Down(s))
        BY <1>2, <3>2 DEF Alternates
    <3> QED
        BY <2>2, <3>1, <3>2
  <2> QED
      BY <2>1, <2>2
<1>5. EndsAt(x, on, after \ {s})
  <2> SUFFICES ASSUME NEW u \in Signals
               PROVE  u \in after \ {s} <=>
                        \/ u \in on /\ \A m \in Nat : ~Says(x, m, Down(u))
                        \/ \E i \in Nat :
                             Says(x, i, Up(u)) /\ \A m \in Nat : i < m => ~Says(x, m, Down(u))
      BY DEF EndsAt
  <2>1. CASE u = s
    <3>1. Says(x, last, Down(s)) /\ \A i \in Nat : Says(x, i, Up(s)) => i < last
        BY <1>2
    <3> QED
        BY <2>1, <3>1
  <2>2. CASE u # s
      BY <1>2, <2>2 DEF EndsAt
  <2> QED
      BY <2>1, <2>2
<1> QED
    BY <1>1, <1>4, <1>5

(* What is said first is taken.                                            *)
LEMMA HeadTaken ==
    ASSUME NEW q \in Seq(Posted), q # << >>, NEW on, NEW after, NEW to,
           \/ Head(q).kind \notin {"available", "unavailable"} /\ to = on
           \/ Head(q).kind = "available" /\ to = on \cup {Head(q).signal}
           \/ Head(q).kind = "unavailable" /\ to = on \ {Head(q).signal}
    PROVE  /\ Alternates(q, on) =>
                /\ Alternates(Tail(q), to)
                /\ Head(q).kind = "available" => Head(q).signal \notin on
                /\ Head(q).kind = "unavailable" => Head(q).signal \in on
           /\ EndsAt(q, on, after) => EndsAt(Tail(q), to, after)
<1>1. PICK x : x = Tail(q)
    OBVIOUS
<1>2. /\ \A i \in Nat : \A n : Says(q, i, n) => i >= 1
      /\ \A i \in Nat : \A n : Says(x, i, n) => i >= 1 /\ i + 1 \in Nat /\ Says(q, i + 1, n)
      /\ \A i \in Nat : \A n : Says(q, i, n) /\ i # 1 => i - 1 \in Nat /\ Says(x, i - 1, n)
    BY <1>1, SaysTail
<1>3. \A u \in Signals :
         /\ Says(q, 1, Up(u)) => u \in to /\ ~Says(q, 1, Down(u))
         /\ Says(q, 1, Down(u)) => u \notin to
         /\ ~Says(q, 1, Up(u)) /\ ~Says(q, 1, Down(u)) => (u \in to <=> u \in on)
  <2>1. Head(q) \in Posted /\ \A n : Says(q, 1, n) <=> Head(q) = n
      BY SaysTail
  <2>2. \A u \in Signals : Head(q) = Up(u) <=> Head(q).kind = "available" /\ Head(q).signal = u
      BY <2>1, UpDownFacts, MessageFacts
  <2>3. \A u \in Signals : Head(q) = Down(u) <=> Head(q).kind = "unavailable" /\ Head(q).signal = u
      BY <2>1, UpDownFacts, MessageFacts
  <2> QED
      BY <2>1, <2>2, <2>3
<1>4. ASSUME Alternates(q, on)
      PROVE  /\ Alternates(x, to)
             /\ Head(q).kind = "available" => Head(q).signal \notin on
             /\ Head(q).kind = "unavailable" => Head(q).signal \in on
  <2>1. Head(q).kind = "available" => Head(q).signal \notin on
    <3> SUFFICES ASSUME Head(q).kind = "available" PROVE Head(q).signal \notin on
        OBVIOUS
    <3>1. Head(q).signal \in Signals /\ Says(q, 1, Up(Head(q).signal))
        BY SaysTail, UpDownFacts
    <3>2. \A m \in Nat : m < 1 => ~Says(q, m, Down(Head(q).signal))
        BY <1>2
    <3> QED
        BY <1>4, <3>1, <3>2 DEF Alternates
  <2>2. Head(q).kind = "unavailable" => Head(q).signal \in on
    <3> SUFFICES ASSUME Head(q).kind = "unavailable" PROVE Head(q).signal \in on
        OBVIOUS
    <3>1. Head(q).signal \in Signals /\ Says(q, 1, Down(Head(q).signal))
        BY SaysTail, UpDownFacts
    <3>2. \A m \in Nat : m < 1 => ~Says(q, m, Up(Head(q).signal))
        BY <1>2
    <3> QED
        BY <1>4, <3>1, <3>2 DEF Alternates
  <2>3. ASSUME NEW u \in Signals, NEW i \in Nat, Says(x, i, Up(u))
        PROVE  /\ u \notin to \/ \E m \in Nat : m < i /\ Says(x, m, Down(u))
               /\ \A j \in Nat : j < i /\ Says(x, j, Up(u)) =>
                    \E m \in Nat : j < m /\ m < i /\ Says(x, m, Down(u))
    <3>1. Says(q, i + 1, Up(u)) /\ i + 1 \in Nat
        BY <1>2, <2>3
    <3>2. ASSUME NEW j \in Nat, j < i, Says(x, j, Up(u))
          PROVE  \E m \in Nat : j < m /\ m < i /\ Says(x, m, Down(u))
      <4>1. PICK m \in Nat : j + 1 < m /\ m < i + 1 /\ Says(q, m, Down(u))
          BY <1>2, <1>4, <3>1, <3>2 DEF Alternates
      <4> QED
          BY <1>2, <4>1
    <3>3. CASE Says(q, 1, Up(u))
      <4>1. PICK m \in Nat : 1 < m /\ m < i + 1 /\ Says(q, m, Down(u))
          BY <1>2, <1>4, <2>3, <3>1, <3>3 DEF Alternates
      <4> QED
          BY <1>2, <3>2, <4>1
    <3>4. CASE Says(q, 1, Down(u))
        BY <1>3, <3>2, <3>4
    <3>5. CASE ~Says(q, 1, Up(u)) /\ ~Says(q, 1, Down(u))
      <4>1. u \notin on \/ \E m \in Nat : m < i + 1 /\ Says(q, m, Down(u)) /\ m # 1
          BY <1>4, <3>1, <3>5 DEF Alternates
      <4>2. u \notin on \/ \E m \in Nat : m < i /\ Says(x, m, Down(u))
          BY <1>2, <4>1
      <4> QED
          BY <1>3, <3>2, <3>5, <4>2
    <3> QED
        BY <3>3, <3>4, <3>5
  <2>4. ASSUME NEW u \in Signals, NEW i \in Nat, Says(x, i, Down(u))
        PROVE  /\ u \in to \/ \E m \in Nat : m < i /\ Says(x, m, Up(u))
               /\ \A j \in Nat : j < i /\ Says(x, j, Down(u)) =>
                    \E m \in Nat : j < m /\ m < i /\ Says(x, m, Up(u))
    <3>1. Says(q, i + 1, Down(u)) /\ i + 1 \in Nat
        BY <1>2, <2>4
    <3>2. ASSUME NEW j \in Nat, j < i, Says(x, j, Down(u))
          PROVE  \E m \in Nat : j < m /\ m < i /\ Says(x, m, Up(u))
      <4>1. PICK m \in Nat : j + 1 < m /\ m < i + 1 /\ Says(q, m, Up(u))
          BY <1>2, <1>4, <3>1, <3>2 DEF Alternates
      <4> QED
          BY <1>2, <4>1
    <3>3. CASE Says(q, 1, Down(u))
      <4>1. PICK m \in Nat : 1 < m /\ m < i + 1 /\ Says(q, m, Up(u))
          BY <1>2, <1>4, <2>4, <3>1, <3>3 DEF Alternates
      <4> QED
          BY <1>2, <3>2, <4>1
    <3>4. CASE Says(q, 1, Up(u))
        BY <1>3, <3>2, <3>4
    <3>5. CASE ~Says(q, 1, Up(u)) /\ ~Says(q, 1, Down(u))
      <4>1. u \in on \/ \E m \in Nat : m < i + 1 /\ Says(q, m, Up(u)) /\ m # 1
          BY <1>4, <3>1, <3>5 DEF Alternates
      <4>2. u \in on \/ \E m \in Nat : m < i /\ Says(x, m, Up(u))
          BY <1>2, <4>1
      <4> QED
          BY <1>3, <3>2, <3>5, <4>2
    <3> QED
        BY <3>3, <3>4, <3>5
  <2> QED
      BY <2>1, <2>2, <2>3, <2>4 DEF Alternates
<1>5. ASSUME EndsAt(q, on, after), NEW u \in Signals
      PROVE  u \in after <=>
                \/ u \in to /\ \A m \in Nat : ~Says(x, m, Down(u))
                \/ \E i \in Nat : Says(x, i, Up(u)) /\ \A m \in Nat : i < m => ~Says(x, m, Down(u))
  <2>1. \A i \in Nat : (\A m \in Nat : i < m => ~Says(x, m, Down(u)))
                         <=> (\A m \in Nat : i + 1 < m => ~Says(q, m, Down(u)))
      BY <1>2
  <2>2. (\E i \in Nat : Says(x, i, Up(u)) /\ \A m \in Nat : i < m => ~Says(x, m, Down(u)))
          <=> (\E i \in Nat : i # 1 /\ Says(q, i, Up(u))
                              /\ \A m \in Nat : i < m => ~Says(q, m, Down(u)))
      BY <1>2, <2>1
  <2>3. (\A m \in Nat : ~Says(x, m, Down(u))) <=> (\A m \in Nat : 1 < m => ~Says(q, m, Down(u)))
      BY <1>2
  <2>4. u \in after <=>
            \/ u \in on /\ \A m \in Nat : ~Says(q, m, Down(u))
            \/ \E i \in Nat : Says(q, i, Up(u)) /\ \A m \in Nat : i < m => ~Says(q, m, Down(u))
      BY <1>5 DEF EndsAt
  <2>5. CASE Says(q, 1, Up(u))
      BY <1>3, <2>2, <2>3, <2>4, <2>5
  <2>6. CASE Says(q, 1, Down(u))
    <3>1. ~Says(q, 1, Up(u)) /\ u \notin to
        BY <1>3, <2>6
    <3> QED
        BY <2>2, <2>4, <2>6, <3>1
  <2>7. CASE ~Says(q, 1, Up(u)) /\ ~Says(q, 1, Down(u))
    <3>1. (\A m \in Nat : ~Says(x, m, Down(u))) <=> (\A m \in Nat : ~Says(q, m, Down(u)))
        BY <1>2, <2>7
    <3> QED
        BY <1>3, <2>2, <2>4, <2>7, <3>1
  <2> QED
      BY <2>5, <2>6, <2>7
<1> QED
    BY <1>1, <1>4, <1>5 DEF EndsAt

(* Nothing is said.                                                        *)
LEMMA NothingSaid ==
    ASSUME NEW q, NEW on, \A i \in Nat : \A s \in Signals : ~Says(q, i, Up(s)) /\ ~Says(q, i, Down(s))
    PROVE  Alternates(q, on) /\ EndsAt(q, on, on)
BY DEF Alternates, EndsAt

(* Everything that is registered is said to be available.                  *)
LEMMA AnnouncementSaid ==
    ASSUME registered \subseteq Signals
    PROVE  Alternates(Announcement, {}) /\ EndsAt(Announcement, {}, registered)
<1>1. /\ Len(Announcement) \in Nat \ {0}
      /\ Announcement[Len(Announcement)] = Plain("initDone")
      /\ \A s \in registered : \E i \in 1 .. Len(Announcement) - 1 : Announcement[i] = Up(s)
      /\ \A i \in 1 .. Len(Announcement) - 1 : \E s \in registered : Announcement[i] = Up(s)
      /\ \A i, j \in 1 .. Len(Announcement) : Announcement[i] = Announcement[j] => i = j
    BY AnnouncementProperties DEF Up
<1>2. \A s : Plain("initDone") # Up(s) /\ Plain("initDone") # Down(s)
    BY DEF Plain, Up, Down, Message
<1>3. \A i \in Nat : \A s : ~Says(Announcement, i, Down(s))
  <2> SUFFICES ASSUME NEW i \in 1 .. Len(Announcement), NEW s PROVE Announcement[i] # Down(s)
      BY DEF Says
  <2>1. i = Len(Announcement) \/ i \in 1 .. Len(Announcement) - 1
      BY <1>1
  <2> QED
      BY <1>1, <1>2, <2>1, UpDownFacts
<1>4. \A i \in Nat : \A s : Says(Announcement, i, Up(s)) => s \in registered
  <2> SUFFICES ASSUME NEW i \in 1 .. Len(Announcement), NEW s, Announcement[i] = Up(s)
               PROVE  s \in registered
      BY DEF Says
  <2>1. i \in 1 .. Len(Announcement) - 1
      BY <1>1, <1>2
  <2> QED
      BY <1>1, <2>1, UpDownFacts
<1>5. \A s \in registered : \E i \in Nat : Says(Announcement, i, Up(s))
    BY <1>1 DEF Says
<1>6. \A i, j \in Nat : \A n : Says(Announcement, i, n) /\ Says(Announcement, j, n) => i = j
    BY <1>1 DEF Says
<1>7. Alternates(Announcement, {})
    BY <1>3, <1>6 DEF Alternates
<1>8. EndsAt(Announcement, {}, registered)
    BY <1>3, <1>4, <1>5 DEF EndsAt
<1> QED
    BY <1>7, <1>8

---------------------------------------------------------------------------------
(***************************************************************************)
(* The order of what is on its way, step by step.                          *)
(***************************************************************************)
LEMMA NextKnown == TypesInv /\ SessionsKnown /\ [SessionNext]_vars => SessionsKnown'
<1> SUFFICES ASSUME TypesInv, SessionsKnown, [SessionNext]_vars
             PROVE  SessionsKnown'
    OBVIOUS
<1>0. /\ SessionIds \subseteq Nat \ {0} /\ lastSession \in SessionIds
      /\ attempt = "pending" => session = 0 /\ lastSession + 1 \in SessionIds
      /\ toClient \in [SessionIds -> Seq(FromDevice)]
      /\ session = 0 \/ session \in SessionIds
    BY SessionAssumption DEF TypesInv, LinkTypes, SessionIds
<1>1. CASE \E s \in Signals : OnListenedStatusChanged(s) \/ SetStreamed(s)
             \/ SetActiveStreamingSource(s) \/ DeactivateStreaming(s) \/ RequestStep(s)
    BY <1>1 DEF OnListenedStatusChanged, SetStreamed, SetActiveStreamingSource,
       DeactivateStreaming, Call, RequestStep, link, device, SessionsKnown
<1>2. CASE \E s \in Signals : ProcessPackets(s) \/ OtherSubscribes(s)
    BY <1>2 DEF ProcessPackets, OtherSubscribes, link, SessionsKnown
<1>3. CASE \E s \in Signals : AddSignal(s) \/ RemoveComponentSignals(s)
    BY <1>0, <1>3 DEF AddSignal, RemoveComponentSignals, link, SessionsKnown, Announced
<1>4. CASE \E n \in SessionIds : OnServerSessionError(n)
    BY <1>4 DEF OnServerSessionError, link, SessionsKnown
<1>5. CASE \E n \in SessionIds : HandleTransportLayerProps(n)
    BY <1>5 DEF HandleTransportLayerProps, link, SessionsKnown
<1>6. CASE \E n \in SessionIds : HandleStreamingInit(n)
    BY <1>0, <1>6 DEF HandleStreamingInit, link, SessionsKnown, Send
<1>7. CASE \E n \in SessionIds : HandleSubscribe(n) \/ HandleUnsubscribe(n)
    BY <1>7 DEF HandleSubscribe, HandleUnsubscribe, link, SessionsKnown
<1>8. CASE OnSessionError
    BY <1>0, <1>8 DEF OnSessionError, device, SessionsKnown
<1>9. CASE InitClientSessionHandler
    BY <1>0, <1>9 DEF InitClientSessionHandler, SessionsKnown
<1>10. CASE OnConnectionFailed \/ CheckReconnectionResult \/ InitTimerExpires
    BY <1>10 DEF OnConnectionFailed, CheckReconnectionResult, InitTimerExpires, link, device,
       SessionsKnown
<1>11. CASE Receive
    BY <1>0, <1>11 DEF Receive, link, device, SessionsKnown
<1>12. CASE Processing
    BY <1>12 DEF Processing, SignalAvailable, SignalUnavailable, StartReconnection,
       RequestStreamingOnReconnection, StreamingInitDone, CompleteReconnection, link, device,
       SessionsKnown
<1>13. CASE UNCHANGED vars
    BY <1>13 DEF vars, link, device, SessionsKnown
<1> QED
    BY <1>1, <1>2, <1>3, <1>4, <1>5, <1>6, <1>7, <1>8, <1>9, <1>10, <1>11, <1>12, <1>13,
       SessionAssumption, Zenon DEF SessionNext, Handler

(* What was sent too early stays recorded.                                 *)
LEMMA LateStays == TypesInv /\ [SessionNext]_vars /\ ~late' => ~late
<1> SUFFICES ASSUME TypesInv, [SessionNext]_vars, late PROVE late'
    OBVIOUS
<1>1. \A b : LateAfter(b)
    BY DEF LateAfter
<1>2. CASE \E s \in Signals : RequestStep(s)
    BY <1>1, <1>2 DEF RequestStep, DoSubscribeSignal, DoUnsubscribeSignal, Ask, AskNothing
<1>3. CASE Processing
    BY <1>1, <1>3 DEF Processing, SignalAvailable, SignalUnavailable, StartReconnection,
       RequestStreamingOnReconnection, StreamingInitDone, CompleteReconnection, Ask, AskNothing
<1>4. CASE \E s \in Signals : OnListenedStatusChanged(s) \/ SetStreamed(s)
             \/ SetActiveStreamingSource(s) \/ DeactivateStreaming(s) \/ ProcessPackets(s)
             \/ OtherSubscribes(s) \/ AddSignal(s) \/ RemoveComponentSignals(s)
    BY <1>4 DEF OnListenedStatusChanged, SetStreamed, SetActiveStreamingSource,
       DeactivateStreaming, Call, ProcessPackets, OtherSubscribes, AddSignal, RemoveComponentSignals
<1>5. CASE \E n \in SessionIds : OnServerSessionError(n) \/ Handler(n)
    BY <1>5 DEF OnServerSessionError, Handler, HandleTransportLayerProps,
       HandleStreamingInit, HandleSubscribe, HandleUnsubscribe
<1>6. CASE OnSessionError \/ InitClientSessionHandler \/ OnConnectionFailed
           \/ CheckReconnectionResult \/ Receive \/ InitTimerExpires
    BY <1>6 DEF OnSessionError, InitClientSessionHandler, OnConnectionFailed,
       CheckReconnectionResult, Receive, InitTimerExpires
<1>7. CASE UNCHANGED vars
    BY <1>7 DEF vars
<1> QED
    BY <1>2, <1>3, <1>4, <1>5, <1>6, <1>7, SessionAssumption, Zenon DEF SessionNext

(* In a session whose start was processed nothing of the sessions is left  *)
(* to hear of.                                                             *)
LEMMA LiveFacts ==
    ASSUME TypesInv, InOrder
    PROVE  /\ Live => /\ attempt = "none" /\ ~Unheard /\ session \in SessionIds
                      /\ \A i \in Nat : ~TaskAt(i, "Connected") /\ ~TaskAt(i, "Reconnecting")
           /\ attempt = "none" /\ (\A i \in Nat : ~TaskAt(i, "Connected")) => Live
           /\ session \in SessionIds \cup {0}
<1>1. /\ session # 0 => attempt \in {"none", "connected"}
      /\ attempt = "none" => session \in SessionIds /\ session # 0
      /\ session # 0 => session \in SessionIds
      /\ tasks \in Seq(Posted)
    BY SessionAssumption DEF TypesInv, LinkTypes, ClientTypes, SessionIds
<1>2. Live => attempt = "none" /\ ~Unheard
    BY <1>1 DEF Live, Fresh, InOrder
<1>3. Live => \A i \in Nat : ~TaskAt(i, "Connected") /\ ~TaskAt(i, "Reconnecting")
    BY <1>1, <1>2, UnheardTask DEF Live, Fresh
<1>4. attempt = "none" /\ (\A i \in Nat : ~TaskAt(i, "Connected")) => Live
    BY <1>1 DEF Live, Fresh
<1> QED
    BY <1>1, <1>2, <1>3, <1>4 DEF Live

(* A request of a client that streams, or has asked to, is added.          *)
LEMMA RequestAdded ==
    ASSUME TypesInv, RequestsServed, NEW k \in {"subscribe", "unsubscribe"}, NEW s \in Signals,
           toServer' = toServer \/ toServer' = Sent(Message(k, s)), UNCHANGED <<clients, named>>,
           session \in sessions => session \in clients \/ InitSent(session)
    PROVE  RequestsServed' /\ \A n \in SessionIds : InitSent(n)' <=> InitSent(n)
<1>1. toServer \in [SessionIds -> Seq(FromClient)] /\ sessions \subseteq SessionIds
    BY DEF TypesInv, LinkTypes, DeviceTypes
<1>2. CASE toServer' = toServer
    BY <1>2 DEF RequestsServed, InitSent
<1>3. CASE toServer' # toServer
  <2>1. session \in sessions /\ toServer' = [toServer EXCEPT ![session] = Append(@, Message(k, s))]
      BY <1>3 DEF Sent
  <2>2. PICK q, x, m : /\ q = toServer[session] /\ q \in Seq(FromClient)
                     /\ x = Append(q, m) /\ m = Message(k, s)
      BY <1>1, <2>1
  <2>3. /\ Len(q) \in Nat /\ DOMAIN q = 1 .. Len(q) /\ DOMAIN x = 1 .. Len(q) + 1
        /\ \A i \in 1 .. Len(q) : x[i] = q[i]
        /\ x[Len(q) + 1] = m /\ m.kind = k
      BY <2>2 DEF Message
  <2>4. /\ toServer'[session] = x /\ toServer[session] = q /\ session \in SessionIds
        /\ \A n \in SessionIds : n # session => toServer'[n] = toServer[n]
      BY <1>1, <2>1, <2>2
  <2>5. \A n \in SessionIds : InitSent(n)' <=> InitSent(n)
    <3> SUFFICES ASSUME NEW n \in SessionIds PROVE InitSent(n)' <=> InitSent(n)
        OBVIOUS
    <3>1. CASE n = session
        BY <2>3, <2>4, <3>1 DEF InitSent, HasInit
    <3>2. CASE n # session
        BY <2>4, <3>2 DEF InitSent
    <3> QED
        BY <3>1, <3>2
  <2>6. ASSUME NEW n \in SessionIds
        PROVE  Servable(n, toServer'[n], clients, named)
    <3>1. Servable(n, toServer[n], clients, named)
        BY DEF RequestsServed
    <3>2. CASE n = session
      <4>1. Servable(n, q, clients, named) /\ (n \in clients \/ HasInit(q))
          BY <2>1, <2>4, <3>1, <3>2 DEF InitSent
      <4> QED
          BY <2>3, <2>4, <3>2, <4>1 DEF Servable, HasInit
    <3> QED
        BY <2>4, <3>1, <3>2
  <2>7. RequestsServed'
      BY <2>6 DEF RequestsServed
  <2> QED
      BY <2>5, <2>7
<1> QED
    BY <1>2, <1>3

(* A request is made only in a session whose start was processed, or is    *)
(* recorded as late.                                                       *)
LEMMA Asked ==
    ASSUME TypesInv, Ordered, ~late', NEW k \in {"subscribe", "unsubscribe"}, NEW s \in Signals,
           Ask(k, s) \/ AskNothing, UNCHANGED <<clients, named>>,
           available # {} \/ \E i \in Nat : FromDeviceAt(i)
    PROVE  RequestsServed' /\ \A n \in SessionIds : InitSent(n)' <=> InitSent(n)
<1>1. RequestsServed
    BY DEF Ordered, ClientsServed
<1>2. CASE toServer' = toServer
    BY <1>1, <1>2 DEF RequestsServed, InitSent
<1>3. CASE toServer' # toServer
  <2>1. toServer' = Sent(Message(k, s)) /\ late' = LateAfter(TRUE)
      BY <1>3 DEF Ask, AskNothing
  <2>2. session \in sessions /\ session # 0
      BY <1>3, <2>1, SessionAssumption DEF Sent, TypesInv, DeviceTypes, SessionIds
  <2>3. ~Unheard
      BY <2>1, <2>2 DEF LateAfter
  <2>4. Live
      BY <2>3 DEF Ordered, InOrder
  <2>5. session \in clients \/ InitSent(session)
      BY <2>2, <2>4 DEF Ordered, ClientsServed
  <2> QED
      BY <1>1, <2>1, <2>5, RequestAdded
<1> QED
    BY <1>2, <1>3

(* A client whose session is fresh has one.                                *)
LEMMA FreshHasSession ==
    ASSUME TypesInv, StatusInv, Fresh
    PROVE  session \in SessionIds
BY SessionAssumption DEF TypesInv, LinkTypes, StatusInv, LossesReported, Fresh, SessionIds

(* Requests come or are handled and sessions close, and nothing else       *)
(* changes.                                                                *)
LEMMA RequestsFrame ==
    ASSUME TypesInv, StatusInv, Ordered,
           UNCHANGED <<tasks, attempt, session, toClient, available, signalIds, registered, initReady,
                       failed, threw>>,
           sessions' \subseteq sessions, clients' \subseteq clients,
           \A s \in Signals : subscribers'[s] \subseteq clients',
           RequestsServed', \A n \in SessionIds : InitSent(n)' => InitSent(n),
           \A n \in sessions' : (n \in clients => n \in clients') /\ (InitSent(n) => InitSent(n)')
    PROVE  Ordered'
<1>1. /\ Fresh' <=> Fresh
      /\ Live' <=> Live
      /\ Unheard' <=> Unheard
      /\ \A i \in Nat : FromDeviceAt(i)' <=> FromDeviceAt(i)
      /\ \A i \in Nat : \A k : TaskAt(i, k)' <=> TaskAt(i, k)
      /\ \A q, i : DoneIn(q, i)' <=> DoneIn(q, i)
    BY DEF Fresh, Live, Unheard, FromDeviceAt, TaskAt, DoneIn
<1>2. (Fresh \/ Live) => (InitSent(session)' => InitSent(session))
    BY FreshHasSession, LiveFacts DEF Ordered
<1>3. InOrder'
    BY <1>1, <1>2 DEF Ordered, InOrder
<1>4. ClientsServed'
  <2>1. Live' /\ session' \in sessions' => session' \in clients' \/ InitSent(session)'
      BY <1>1 DEF Ordered, ClientsServed
  <2> QED
      BY <2>1 DEF ClientsServed
<1>5. SignalsInTurn'
    BY <1>1, <1>2 DEF Ordered, SignalsInTurn
<1>6. InitDoneOnce'
    BY <1>1, <1>2 DEF Ordered, InitDoneOnce
<1> QED
    BY <1>3, <1>4, <1>5, <1>6 DEF Ordered

(* The calls of the user keep requests and announcements in order.         *)
LEMMA UserOrder ==
    ASSUME TypesInv, StatusInv, Ordered, ~late',
           \E s \in Signals : OnListenedStatusChanged(s) \/ SetStreamed(s)
             \/ SetActiveStreamingSource(s) \/ DeactivateStreaming(s) \/ RequestStep(s)
    PROVE  Ordered'
<1>0. /\ RequestsServed /\ \A s \in Signals : subscribers[s] \subseteq clients
      /\ sessions \subseteq SessionIds
    BY DEF Ordered, ClientsServed, TypesInv, DeviceTypes
<1>1. CASE \E s \in Signals : OnListenedStatusChanged(s) \/ SetStreamed(s)
             \/ SetActiveStreamingSource(s) \/ DeactivateStreaming(s)
  <2>1. UNCHANGED <<streaming, tasks, failed, link, signalIds, toServer, toClient, device>>
      BY <1>1 DEF OnListenedStatusChanged, SetStreamed, SetActiveStreamingSource,
         DeactivateStreaming, Call
  <2>2. RequestsServed' /\ \A n \in SessionIds : InitSent(n)' <=> InitSent(n)
      BY <1>0, <2>1 DEF RequestsServed, InitSent, device
  <2> QED
      BY <1>0, <2>1, <2>2, RequestsFrame DEF streaming, link, device, managed
<1>2. ASSUME NEW s \in Signals, RequestStep(s) PROVE Ordered'
  <2>1. UNCHANGED <<tasks, failed, link, signalIds, toClient, device, available, initReady>>
      BY <1>2 DEF RequestStep
  <2>2. PICK r : r = Head(op[s]) /\ r \in Request
      BY <1>2 DEF RequestStep, TypesInv, MirrorTypes
  <2>3. r.kind \in {"subscribe", "unsubscribe"} /\ r.signal \in Signals
      BY <2>2 DEF Request, Message
  <2>4. \/ AskNothing
        \/ r.signal \in available /\ \E k \in {"subscribe", "unsubscribe"} : Ask(k, r.signal)
      BY <1>2, <2>2 DEF RequestStep, DoSubscribeSignal, DoUnsubscribeSignal
  <2>5. RequestsServed' /\ \A n \in SessionIds : InitSent(n)' <=> InitSent(n)
    <3>1. CASE AskNothing
        BY <1>0, <2>1, <3>1 DEF AskNothing, RequestsServed, InitSent, device
    <3>2. CASE ~AskNothing
        BY <2>1, <2>3, <2>4, <3>2, Asked DEF device
    <3> QED
        BY <3>1, <3>2
  <2> QED
      BY <1>0, <2>1, <2>5, RequestsFrame DEF link, device, managed
<1> QED
    BY <1>1, <1>2

(* Subscribers are streaming clients.                                      *)
LEMMA SubscriberOrder ==
    ASSUME TypesInv, \A u \in Signals : subscribers[u] \subseteq clients, NEW c
    PROVE  /\ \A s : c \in clients /\ RegisterSignalSubscriber(s, c) =>
                registered' = registered /\ \A u \in Signals : subscribers'[u] \subseteq clients
           /\ \A ss : RemoveSubscriber(ss, c) =>
                /\ registered' = registered
                /\ \A u \in Signals : subscribers'[u] \subseteq clients
           /\ Release(c) =>
                /\ registered' = registered /\ clients' = clients \ {c}
                /\ \A u \in Signals : subscribers'[u] \subseteq clients'
<1>1. subscribers \in [Signals -> SUBSET (SessionIds \cup {Other})]
    BY DEF TypesInv, DeviceTypes
<1>2. ASSUME NEW s, c \in clients, RegisterSignalSubscriber(s, c)
      PROVE  registered' = registered /\ \A u \in Signals : subscribers'[u] \subseteq clients
    BY <1>1, <1>2 DEF RegisterSignalSubscriber, Managed, managed
<1>3. ASSUME NEW ss, RemoveSubscriber(ss, c)
      PROVE  /\ registered' = registered
             /\ \A u \in Signals : subscribers'[u] \subseteq clients
             /\ ss = Signals => \A u \in Signals : c \notin subscribers'[u]
    BY <1>1, <1>3 DEF RemoveSubscriber, Managed
<1>4. ASSUME Release(c)
      PROVE  /\ registered' = registered /\ clients' = clients \ {c}
             /\ \A u \in Signals : subscribers'[u] \subseteq clients'
    BY <1>3, <1>4 DEF Release, managed
<1> QED
    BY <1>2, <1>3, <1>4

(* The readers of the server keep the order.                               *)
LEMMA ReaderOrder ==
    ASSUME TypesInv, StatusInv, Ordered,
           \E s \in Signals : ProcessPackets(s) \/ OtherSubscribes(s)
    PROVE  Ordered'
<1>0. /\ RequestsServed /\ \A s \in Signals : subscribers[s] \subseteq clients
      /\ sessions \subseteq SessionIds
    BY DEF Ordered, ClientsServed, TypesInv, DeviceTypes
<1>1. UNCHANGED <<streaming, tasks, failed, link, signalIds, toServer, toClient, sessions, named, clients>>
    BY DEF ProcessPackets, OtherSubscribes
<1>2. RequestsServed' /\ \A n \in SessionIds : InitSent(n)' <=> InitSent(n)
    BY <1>0, <1>1 DEF RequestsServed, InitSent
<1>3. registered' = registered /\ threw' = threw /\ \A s \in Signals : subscribers'[s] \subseteq clients
  <2>1. ASSUME NEW s \in Signals, ProcessPackets(s)
        PROVE  registered' = registered /\ threw' = threw /\ subscribers' = subscribers
      BY <1>0, <2>1 DEF ProcessPackets, Managed, managed
  <2>2. ASSUME NEW s \in Signals, OtherSubscribes(s)
        PROVE  /\ registered' = registered /\ threw' = threw
               /\ \A u \in Signals : subscribers'[u] \subseteq clients
    <3>1. Other \in clients
        BY DEF TypesInv, DeviceTypes
    <3> QED
        BY <1>0, <2>2, <3>1, SubscriberOrder DEF OtherSubscribes
  <2> QED
      BY <1>0, <2>1, <2>2
<1> QED
    BY <1>0, <1>1, <1>2, <1>3, RequestsFrame DEF streaming, link

(* The device takes the first request.                                     *)
LEMMA ServableTail ==
    ASSUME NEW n, NEW q \in Seq(FromClient), q # << >>, NEW cs, NEW nm, Servable(n, q, cs, nm)
    PROVE  /\ Head(q).kind # "init" =>
                /\ \A nm2 : Servable(n, Tail(q), cs, nm2)
                /\ HasInit(Tail(q)) <=> HasInit(q)
           /\ Head(q).kind = "init" =>
                /\ n \notin cs /\ HasInit(q) /\ ~HasInit(Tail(q))
                /\ \A nm2 : Servable(n, Tail(q), cs \cup {n}, nm2)
           /\ Head(q).kind = "properties" => nm # n
           /\ Head(q).kind = "subscribe" => n \in cs
<1>0. PICK t : t = Tail(q)
    OBVIOUS
<1>1. /\ Len(q) \in Nat \ {0} /\ DOMAIN q = 1 .. Len(q) /\ DOMAIN t = 1 .. Len(q) - 1
      /\ \A i \in DOMAIN t : t[i] = q[i + 1] /\ i + 1 \in DOMAIN q
      /\ \A i \in DOMAIN q : i # 1 => i - 1 \in DOMAIN t /\ t[i - 1] = q[i]
      /\ Head(q) = q[1] /\ 1 \in DOMAIN q
    BY <1>0
<1>2. /\ Head(q).kind = "properties" => nm # n
      /\ Head(q).kind = "subscribe" => n \in cs
      /\ Head(q).kind = "init" => n \notin cs
    BY <1>1 DEF Servable
<1>3. CASE Head(q).kind # "init"
  <2>1. HasInit(t) <=> HasInit(q)
      BY <1>1, <1>3 DEF HasInit
  <2>2. ASSUME NEW nm2 PROVE Servable(n, t, cs, nm2)
    <3> SUFFICES ASSUME NEW i \in DOMAIN t
                 PROVE  /\ t[i].kind = "init" =>
                             n \notin cs /\ \A j \in DOMAIN t : t[j].kind = "init" => i = j
                        /\ t[i].kind = "subscribe" =>
                             n \in cs \/ \E j \in DOMAIN t : j < i /\ t[j].kind = "init"
                        /\ t[i].kind # "properties"
        BY DEF Servable
    <3>1. i \in Nat /\ i + 1 \in DOMAIN q /\ t[i] = q[i + 1] /\ i + 1 # 1
        BY <1>1
    <3>2. t[i].kind # "properties"
        BY <3>1 DEF Servable
    <3>3. t[i].kind = "init" => n \notin cs /\ \A j \in DOMAIN t : t[j].kind = "init" => i = j
        BY <1>1, <3>1 DEF Servable
    <3>4. ASSUME t[i].kind = "subscribe", n \notin cs
          PROVE  \E j \in DOMAIN t : j < i /\ t[j].kind = "init"
      <4>1. PICK j \in DOMAIN q : j < i + 1 /\ q[j].kind = "init"
          BY <3>1, <3>4 DEF Servable
      <4>2. j - 1 \in DOMAIN t /\ t[j - 1] = q[j] /\ j - 1 < i
          BY <1>1, <1>3, <3>1, <4>1
      <4> QED
          BY <4>1, <4>2
    <3> QED
        BY <3>2, <3>3, <3>4
  <2> QED
      BY <1>0, <1>2, <1>3, <2>1, <2>2
<1>4. CASE Head(q).kind = "init"
  <2>1. HasInit(q)
      BY <1>1, <1>4 DEF HasInit
  <2>2. ASSUME NEW i \in DOMAIN t PROVE t[i].kind # "init" /\ t[i].kind # "properties"
    <3>1. i \in Nat /\ i + 1 \in DOMAIN q /\ t[i] = q[i + 1] /\ i + 1 # 1
        BY <1>1, <2>2
    <3> QED
        BY <1>1, <1>4, <3>1 DEF Servable
  <2>3. ~HasInit(t) /\ \A nm2 : Servable(n, t, cs \cup {n}, nm2)
      BY <2>2 DEF HasInit, Servable
  <2> QED
      BY <1>0, <1>2, <1>4, <2>1, <2>3
<1> QED
    BY <1>3, <1>4

(* A signal comes or goes on the device.                                   *)
LEMMA SignalOrder ==
    ASSUME TypesInv, StatusInv, Ordered,
           \E s \in Signals : AddSignal(s) \/ RemoveComponentSignals(s)
    PROVE  Ordered'
<1>1. PICK s, m :
          /\ s \in Signals
          /\ toClient' = [n \in SessionIds |-> IF n \in clients /\ n = session
                                               THEN Append(toClient[n], m) ELSE toClient[n]]
          /\ \/ m = Up(s) /\ s \notin registered /\ registered' = registered \cup {s}
             \/ m = Down(s) /\ s \in registered /\ registered' = registered \ {s}
          /\ \A u \in Signals : subscribers'[u] \subseteq subscribers[u]
          /\ UNCHANGED <<streaming, tasks, failed, link, signalIds, toServer, sessions, named,
                         clients, threw>>
  <2>1. ASSUME NEW s \in Signals, AddSignal(s)
        PROVE  /\ s \notin registered /\ registered' = registered \cup {s}
               /\ \A u \in Signals : subscribers'[u] \subseteq subscribers[u]
               /\ toClient' = Announced("available", s)
               /\ UNCHANGED <<streaming, tasks, failed, link, signalIds, toServer, sessions, named,
                              clients, threw>>
      BY <2>1 DEF AddSignal, Managed
  <2>2. ASSUME NEW s \in Signals, RemoveComponentSignals(s)
        PROVE  /\ s \in registered /\ registered' = registered \ {s}
               /\ \A u \in Signals : subscribers'[u] \subseteq subscribers[u]
               /\ toClient' = Announced("unavailable", s)
               /\ UNCHANGED <<streaming, tasks, failed, link, signalIds, toServer, sessions, named,
                              clients, threw>>
      BY <2>2 DEF RemoveComponentSignals, Managed, TypesInv, DeviceTypes
  <2>3. \A s : /\ Announced("available", s) =
                    [n \in SessionIds |-> IF n \in clients /\ n = session
                                          THEN Append(toClient[n], Up(s)) ELSE toClient[n]]
               /\ Announced("unavailable", s) =
                    [n \in SessionIds |-> IF n \in clients /\ n = session
                                          THEN Append(toClient[n], Down(s)) ELSE toClient[n]]
      BY DEF Announced, Up, Down
  <2>4. CASE \E s \in Signals : AddSignal(s)
    <3>1. PICK s \in Signals : AddSignal(s)
        BY <2>4
    <3>2. \E m : /\ toClient' = [n \in SessionIds |-> IF n \in clients /\ n = session
                                               THEN Append(toClient[n], m) ELSE toClient[n]]
                 /\ m = Up(s)
        BY <2>1, <2>3, <3>1
    <3> QED
        BY <2>1, <3>1, <3>2
  <2>5. CASE \E s \in Signals : RemoveComponentSignals(s)
    <3>1. PICK s \in Signals : RemoveComponentSignals(s)
        BY <2>5
    <3>2. \E m : /\ toClient' = [n \in SessionIds |-> IF n \in clients /\ n = session
                                               THEN Append(toClient[n], m) ELSE toClient[n]]
                 /\ m = Down(s)
        BY <2>2, <2>3, <3>1
    <3> QED
        BY <2>2, <3>1, <3>2
  <2> QED
      BY <2>4, <2>5
<1>2. UNCHANGED <<available, initReady, session, attempt, tasks, failed, signalIds, toServer, sessions,
                  named, clients, threw>>
    BY <1>1 DEF streaming, link
<1>3. /\ Fresh' <=> Fresh
      /\ Live' <=> Live
      /\ Unheard' <=> Unheard
      /\ \A i \in Nat : FromDeviceAt(i)' <=> FromDeviceAt(i)
      /\ \A i \in Nat : \A k : TaskAt(i, k)' <=> TaskAt(i, k)
    BY <1>2 DEF Fresh, Live, Unheard, FromDeviceAt, TaskAt
<1>4. \A n : InitSent(n)' <=> InitSent(n)
    BY <1>2 DEF InitSent
<1>5. /\ session \in SessionIds /\ session \notin clients => toClient'[session] = toClient[session]
      /\ session \in SessionIds /\ session \in clients =>
             toClient'[session] = Append(toClient[session], m)
      /\ session \in SessionIds => toClient[session] \in Seq(Posted)
      /\ session \in SessionIds \cup {0}
    BY <1>1, LiveFacts DEF TypesInv, LinkTypes, Posted, Ordered
<1>6. InOrder'
    BY <1>2, <1>3, <1>4, <1>5, FreshHasSession DEF Ordered, InOrder
<1>7. ClientsServed'
    BY <1>1, <1>2, <1>3, <1>4 DEF Ordered, ClientsServed, RequestsServed
<1>8. SignalsInTurn'
  <2>1. Alternates(tasks, available)'
      BY <1>2 DEF Ordered, SignalsInTurn
  <2>2. ASSUME Live
        PROVE  /\ EndsAt(tasks, available, signalIds)'
               /\ Alternates(toClient[session], signalIds)'
               /\ session \in clients => EndsAt(toClient[session], signalIds, registered)'
               /\ InitSent(session) => toClient'[session] = << >> /\ signalIds = {}
    <3>1. EndsAt(tasks, available, signalIds)'
        BY <1>2, <2>2 DEF Ordered, SignalsInTurn
    <3>2. session \in SessionIds
        BY <2>2, LiveFacts DEF Ordered
    <3>3. InitSent(session) => session \notin clients
        BY <3>2 DEF Ordered, ClientsServed, RequestsServed, Servable, InitSent, HasInit
    <3>4. PICK q : q = toClient[session] /\ q \in Seq(Posted)
        BY <1>5, <3>2
    <3>5. CASE session \in clients
      <4>1. Alternates(q, signalIds) /\ EndsAt(q, signalIds, registered)
          BY <2>2, <3>4, <3>5 DEF Ordered, SignalsInTurn
      <4>2. Alternates(Append(q, m), signalIds) /\ EndsAt(Append(q, m), signalIds, registered')
          BY <1>1, <3>4, <4>1, UpSaid, DownSaid
      <4>3. toClient'[session'] = Append(q, m)
          BY <1>2, <1>5, <3>2, <3>4, <3>5
      <4> QED
          BY <1>2, <3>1, <3>3, <3>5, <4>2, <4>3
    <3>6. CASE session \notin clients
      <4>1. toClient'[session'] = toClient[session]
          BY <1>2, <1>5, <3>2, <3>6
      <4> QED
          BY <1>2, <2>2, <3>1, <3>6, <4>1 DEF Ordered, SignalsInTurn
    <3> QED
        BY <3>5, <3>6
  <2> QED
      BY <1>2, <1>3, <1>4, <2>1, <2>2 DEF SignalsInTurn
<1>9. InitDoneOnce'
  <2>1. ASSUME session # 0, NEW i \in Nat
        PROVE  DoneIn(toClient[session], i)' <=> DoneIn(toClient[session], i)
    <3>1. CASE session \notin clients
        BY <1>2, <1>5, <2>1, <3>1 DEF DoneIn
    <3>2. CASE session \in clients
      <4>1. m \in Posted /\ m.kind # "initDone"
          BY <1>1, UpDownFacts DEF Posted
      <4>2. PICK q \in Seq(Posted) : q = toClient[session]
          BY <1>5, <2>1
      <4>3. toClient'[session'] = Append(q, m)
          BY <1>2, <1>5, <2>1, <3>2, <4>2
      <4>4. DoneIn(Append(q, m), i) <=> DoneIn(q, i)
          BY <4>1 DEF DoneIn
      <4> QED
          BY <4>2, <4>3, <4>4 DEF DoneIn
    <3> QED
        BY <3>1, <3>2
  <2>2. \A i \in Nat : DoneIn(tasks, i)' <=> DoneIn(tasks, i)
      BY <1>2 DEF DoneIn
  <2> QED
      BY <1>2, <1>3, <1>4, <2>1, <2>2 DEF Ordered, InitDoneOnce
<1> QED
    BY <1>2, <1>6, <1>7, <1>8, <1>9 DEF Ordered

(* A session is closed, by an error or because the client is back in       *)
(* another one.                                                            *)
LEMMA ClosingOrder ==
    ASSUME TypesInv, StatusInv, Ordered, NEW n \in SessionIds,
           OnServerSessionError(n) \/ HandleTransportLayerProps(n)
    PROVE  Ordered'
<1>0. /\ RequestsServed /\ \A s \in Signals : subscribers[s] \subseteq clients
      /\ sessions \subseteq SessionIds /\ 0 \notin SessionIds
      /\ toServer \in [SessionIds -> Seq(FromClient)]
      /\ named \in sessions \cup {0}
    BY DEF Ordered, ClientsServed, TypesInv, DeviceTypes, LinkTypes, SessionIds
<1>1. UNCHANGED <<tasks, attempt, session, toClient, available, signalIds, initReady, failed, threw>>
    BY DEF OnServerSessionError, HandleTransportLayerProps, streaming, link
<1>2. CASE OnServerSessionError(n)
  <2>1. /\ registered' = registered /\ clients' = clients \ {n}
        /\ \A u \in Signals : subscribers'[u] \subseteq clients'
      BY <1>0, <1>2, SubscriberOrder DEF OnServerSessionError
  <2>2. /\ sessions' = sessions \ {n}
        /\ named' \in {named, 0}
        /\ toServer'[n] = << >>
        /\ \A m \in SessionIds : m # n => toServer'[m] = toServer[m]
      BY <1>0, <1>2 DEF OnServerSessionError
  <2>3. /\ ~InitSent(n)'
        /\ \A m \in SessionIds : m # n => (InitSent(m)' <=> InitSent(m))
      BY <2>2 DEF InitSent, HasInit
  <2>4. RequestsServed'
    <3> SUFFICES ASSUME NEW m \in SessionIds PROVE Servable(m, toServer'[m], clients', named')
        BY DEF RequestsServed
    <3>1. CASE m = n
        BY <2>2, <3>1 DEF Servable
    <3>2. CASE m # n
      <4>1. PICK q : q = toServer[m] /\ Servable(m, q, clients, named)
          BY <1>0 DEF RequestsServed
      <4>2. toServer'[m] = q /\ named' \in {named, 0} /\ (m \in clients' <=> m \in clients) /\ m # 0
          BY <1>0, <2>1, <2>2, <3>2, <4>1
      <4> QED
          BY <4>1, <4>2 DEF Servable
    <3> QED
        BY <3>1, <3>2
  <2> QED
      BY <1>0, <1>1, <2>1, <2>2, <2>3, <2>4, RequestsFrame
<1>3. CASE HandleTransportLayerProps(n)
  <2>1. /\ toServer[n] \in Seq(FromClient) /\ toServer[n] # << >>
        /\ Head(toServer[n]).kind = "properties" /\ n \in sessions
      BY <1>0, <1>3 DEF HandleTransportLayerProps, Handle
  <2>2. /\ \A nm : Servable(n, Tail(toServer[n]), clients, nm)
        /\ HasInit(Tail(toServer[n])) <=> HasInit(toServer[n])
        /\ named # n
      BY <1>0, <2>1, ServableTail DEF RequestsServed
  <2>3. /\ registered' = registered /\ clients' = clients \ ({named} \ {0})
        /\ \A u \in Signals : subscribers'[u] \subseteq clients'
    <3>1. CASE named \in SessionIds
        BY <1>0, <1>3, <3>1, SubscriberOrder DEF HandleTransportLayerProps
    <3>2. CASE named \notin SessionIds
        BY <1>0, <1>3, <3>2 DEF HandleTransportLayerProps, managed
    <3> QED
        BY <3>1, <3>2
  <2>4. /\ sessions' = sessions \ {named} /\ named' = n
        /\ toServer'[n] = Tail(toServer[n])
        /\ named \in SessionIds => toServer'[named] = << >>
        /\ \A m \in SessionIds : m # n /\ m # named => toServer'[m] = toServer[m]
      BY <1>0, <1>3, <2>2 DEF HandleTransportLayerProps
  <2>5. /\ \A m \in SessionIds : m = named => ~InitSent(m)'
        /\ \A m \in SessionIds : m # named => (InitSent(m)' <=> InitSent(m))
    <3>1. HasInit(toServer'[n]) <=> HasInit(toServer[n])
        BY <2>2, <2>4
    <3>2. named \in SessionIds => ~HasInit(toServer'[named])
        BY <2>4 DEF HasInit
    <3>3. ASSUME NEW m \in SessionIds, m # named PROVE HasInit(toServer'[m]) <=> HasInit(toServer[m])
        BY <2>4, <3>1, <3>3
    <3> QED
        BY <3>2, <3>3 DEF InitSent
  <2>6. RequestsServed'
    <3> SUFFICES ASSUME NEW m \in SessionIds PROVE Servable(m, toServer'[m], clients', named')
        BY DEF RequestsServed
    <3>1. CASE m = named
        BY <2>4, <3>1 DEF Servable
    <3>2. CASE m = n
      <4>1. PICK q : q = Tail(toServer[n]) /\ Servable(n, q, clients, named')
          BY <2>2
      <4>2. toServer'[m] = q /\ (m \in clients' <=> m \in clients)
          BY <2>2, <2>3, <2>4, <3>2, <4>1
      <4> QED
          BY <3>2, <4>1, <4>2 DEF Servable
    <3>3. CASE m # n /\ m # named
      <4>1. PICK q : q = toServer[m] /\ Servable(m, q, clients, named)
          BY <1>0 DEF RequestsServed
      <4>2. toServer'[m] = q /\ named' # m /\ (m \in clients' <=> m \in clients)
          BY <1>0, <2>3, <2>4, <3>3, <4>1
      <4> QED
          BY <4>1, <4>2 DEF Servable
    <3> QED
        BY <3>1, <3>2, <3>3
  <2> QED
      BY <1>0, <1>1, <2>3, <2>4, <2>5, <2>6, RequestsFrame
<1> QED
    BY <1>2, <1>3

(* The server answers requests and keeps the order.                        *)
LEMMA SubscriptionOrder ==
    ASSUME TypesInv, StatusInv, Ordered, NEW n \in SessionIds,
           HandleSubscribe(n) \/ HandleUnsubscribe(n)
    PROVE  Ordered'
<1>0. /\ RequestsServed /\ \A s \in Signals : subscribers[s] \subseteq clients
      /\ sessions \subseteq SessionIds
      /\ toServer \in [SessionIds -> Seq(FromClient)]
    BY DEF Ordered, ClientsServed, TypesInv, DeviceTypes, LinkTypes
<1>1. UNCHANGED <<tasks, attempt, session, toClient, available, signalIds, initReady, failed, threw,
                  sessions, named, clients>>
    BY DEF HandleSubscribe, HandleUnsubscribe, streaming, link
<1>2. /\ toServer[n] \in Seq(FromClient) /\ toServer[n] # << >>
      /\ Head(toServer[n]).kind \in {"subscribe", "unsubscribe"}
      /\ toServer'[n] = Tail(toServer[n])
      /\ \A m \in SessionIds : m # n => toServer'[m] = toServer[m]
    BY <1>0 DEF HandleSubscribe, HandleUnsubscribe, Handle, Handled
<1>3. /\ \A nm : Servable(n, Tail(toServer[n]), clients, nm)
      /\ HasInit(Tail(toServer[n])) <=> HasInit(toServer[n])
      /\ Head(toServer[n]).kind = "subscribe" => n \in clients
    BY <1>0, <1>2, ServableTail DEF RequestsServed
<1>4. RequestsServed' /\ \A m \in SessionIds : InitSent(m)' <=> InitSent(m)
    BY <1>0, <1>1, <1>2, <1>3 DEF RequestsServed, InitSent
<1>5. registered' = registered /\ \A u \in Signals : subscribers'[u] \subseteq clients
  <2>1. CASE HandleSubscribe(n)
      BY <1>0, <1>3, <2>1, SubscriberOrder DEF HandleSubscribe, Handle
  <2>2. CASE HandleUnsubscribe(n)
      BY <1>0, <2>2, SubscriberOrder DEF HandleUnsubscribe
  <2> QED
      BY <2>1, <2>2
<1> QED
    BY <1>0, <1>1, <1>4, <1>5, RequestsFrame

(* The announcement of a device ends with its one "init done".             *)
LEMMA AnnouncementDone ==
    ASSUME registered \subseteq Signals
    PROVE  \A i, j \in Nat : DoneIn(Announcement, i) /\ DoneIn(Announcement, j) => i = j
<1>1. /\ Len(Announcement) \in Nat \ {0}
      /\ \A i \in 1 .. Len(Announcement) - 1 : \E s \in registered : Announcement[i] = Up(s)
    BY AnnouncementProperties DEF Up
<1>2. \A s : Up(s).kind # "initDone"
    BY DEF Up, Message
<1>3. \A i \in Nat : DoneIn(Announcement, i) => i = Len(Announcement)
    BY <1>1, <1>2 DEF DoneIn
<1> QED
    BY <1>3

(* The device answers a request for streaming with all its signals.        *)
LEMMA StreamingInitOrder ==
    ASSUME TypesInv, StatusInv, Ordered, NEW n \in SessionIds, HandleStreamingInit(n)
    PROVE  Ordered'
<1>0. /\ RequestsServed /\ \A s \in Signals : subscribers[s] \subseteq clients
      /\ sessions \subseteq SessionIds /\ 0 \notin SessionIds
      /\ toServer \in [SessionIds -> Seq(FromClient)]
      /\ toClient \in [SessionIds -> Seq(FromDevice)]
      /\ registered \subseteq Signals
    BY DEF Ordered, ClientsServed, TypesInv, DeviceTypes, LinkTypes, SessionIds
<1>1. /\ toServer[n] \in Seq(FromClient) /\ toServer[n] # << >>
      /\ Head(toServer[n]).kind = "init" /\ n \in sessions
      /\ toServer'[n] = Tail(toServer[n])
      /\ \A m \in SessionIds : m # n => toServer'[m] = toServer[m]
    BY <1>0 DEF HandleStreamingInit, Handle, Handled
<1>2. /\ n \notin clients /\ HasInit(toServer[n]) /\ ~HasInit(toServer'[n])
      /\ \A nm : Servable(n, toServer'[n], clients \cup {n}, nm)
  <2>1. /\ n \notin clients /\ HasInit(toServer[n]) /\ ~HasInit(Tail(toServer[n]))
        /\ \A nm : Servable(n, Tail(toServer[n]), clients \cup {n}, nm)
      BY <1>0, <1>1, ServableTail DEF RequestsServed
  <2> QED
      BY <1>1, <2>1
<1>3. /\ UNCHANGED <<tasks, attempt, session, available, signalIds, initReady, failed, threw,
                     sessions, named, registered, subscribers>>
      /\ clients' = clients \cup {n}
      /\ toClient' = Send(n, Announcement)
    BY <1>2 DEF HandleStreamingInit, streaming, link, managed, Announcement
<1>4. /\ Fresh' <=> Fresh
      /\ Live' <=> Live
      /\ Unheard' <=> Unheard
      /\ \A i \in Nat : FromDeviceAt(i)' <=> FromDeviceAt(i)
      /\ \A i \in Nat : \A k : TaskAt(i, k)' <=> TaskAt(i, k)
      /\ \A i \in Nat : DoneIn(tasks, i)' <=> DoneIn(tasks, i)
    BY <1>3 DEF Fresh, Live, Unheard, FromDeviceAt, TaskAt, DoneIn
<1>5. ~InitSent(n)' /\ InitSent(n) /\ \A m \in SessionIds : m # n => (InitSent(m)' <=> InitSent(m))
    BY <1>1, <1>2 DEF InitSent
<1>6. RequestsServed'
  <2> SUFFICES ASSUME NEW m \in SessionIds PROVE Servable(m, toServer'[m], clients', named')
      BY DEF RequestsServed
  <2>1. CASE m = n
      BY <1>2, <1>3, <2>1
  <2>2. CASE m # n
    <3>1. PICK q : q = toServer[m] /\ Servable(m, q, clients, named)
        BY <1>0 DEF RequestsServed
    <3>2. toServer'[m] = q /\ named' = named /\ (m \in clients' <=> m \in clients)
        BY <1>1, <1>3, <2>2, <3>1
    <3> QED
        BY <3>1, <3>2 DEF Servable
  <2> QED
      BY <2>1, <2>2
<1>7. CASE n # session
  <2>1. toClient' = toClient
      BY <1>0, <1>3, <1>7 DEF Send
  <2>2. session \in clients' <=> session \in clients
      BY <1>3, <1>7
  <2>3. Fresh \/ Live => (InitSent(session)' <=> InitSent(session))
    <3>1. Fresh \/ Live => session \in SessionIds
        BY FreshHasSession, LiveFacts DEF Ordered
    <3>2. session' = session
        BY <1>3
    <3> QED
        BY <1>5, <1>7, <3>1, <3>2
  <2>4. InOrder'
      BY <1>3, <1>4, <2>1, <2>2, <2>3 DEF Ordered, InOrder
  <2>5. ClientsServed'
      BY <1>0, <1>3, <1>4, <1>6, <2>2, <2>3 DEF Ordered, ClientsServed
  <2>6. SignalsInTurn'
      BY <1>3, <1>4, <2>1, <2>2, <2>3 DEF Ordered, SignalsInTurn
  <2>7. InitDoneOnce'
      BY <1>3, <1>4, <2>1, <2>3 DEF Ordered, InitDoneOnce, DoneIn
  <2> QED
      BY <1>3, <2>4, <2>5, <2>6, <2>7 DEF Ordered
<1>8. CASE n = session
  <2>1. Live /\ session # 0 /\ ~Fresh
      BY <1>0, <1>5, <1>8 DEF Ordered, InOrder, Live
  <2>2. toClient[session] = << >> /\ signalIds = {} /\ ~initReady /\ \A i \in Nat : ~DoneIn(tasks, i)
      BY <1>5, <1>8, <2>1 DEF Ordered, SignalsInTurn, InitDoneOnce
  <2>3. toClient'[session] = Announcement
    <3>1. << >> \o Announcement = Announcement
        BY <1>0, AnnouncementProperties
    <3> QED
        BY <1>0, <1>3, <1>8, <2>2, <3>1 DEF Send
  <2>4. InOrder'
      BY <1>3, <1>4, <2>1 DEF Ordered, InOrder
  <2>5. ClientsServed'
      BY <1>0, <1>3, <1>6, <1>8 DEF ClientsServed
  <2>6. ~InitSent(session)'
      BY <1>3, <1>5, <1>8
  <2>7. SignalsInTurn'
      BY <1>0, <1>3, <1>4, <2>1, <2>2, <2>3, <2>6, AnnouncementSaid DEF Ordered, SignalsInTurn
  <2>8. InitDoneOnce'
    <3>1. \A i, j \in Nat : DoneIn(toClient'[session'], i) /\ DoneIn(toClient'[session'], j) => i = j
        BY <1>0, <1>3, <2>3, AnnouncementDone
    <3> QED
        BY <1>3, <1>4, <2>2, <2>6, <3>1 DEF InitDoneOnce
  <2> QED
      BY <1>3, <2>4, <2>5, <2>7, <2>8 DEF Ordered
<1> QED
    BY <1>7, <1>8

(* What the tasks say when one is posted.                                  *)
LEMMA PostedOrder ==
    ASSUME tasks \in Seq(Posted), NEW m \in Posted, tasks' = Append(tasks, m)
    PROVE  /\ Len(tasks) + 1 \in Nat
           /\ \A k : \A i \in Nat : TaskAt(i, k) => TaskAt(i, k)' /\ i <= Len(tasks)
           /\ \A k : \A i \in Nat : TaskAt(i, k)' => TaskAt(i, k) \/ (i = Len(tasks) + 1 /\ k = m.kind)
           /\ \A i \in Nat : i = Len(tasks) + 1 => TaskAt(i, m.kind)'
           /\ \A i \in Nat : FromDeviceAt(i)' <=>
                  \/ FromDeviceAt(i)
                  \/ i = Len(tasks) + 1 /\ m.kind \in {"available", "unavailable", "initDone"}
           /\ \A i \in Nat : FromDeviceAt(i) => i <= Len(tasks)
           /\ \A i \in Nat : DoneIn(tasks, i)' <=>
                  DoneIn(tasks, i) \/ (i = Len(tasks) + 1 /\ m.kind = "initDone")
<1>1. /\ Len(tasks) \in Nat /\ Len(tasks') = Len(tasks) + 1
      /\ \A i \in 1 .. Len(tasks) : tasks'[i] = tasks[i]
      /\ tasks'[Len(tasks) + 1] = m
    OBVIOUS
<1> QED
    BY <1>1 DEF TaskAt, FromDeviceAt, DoneIn

(* What the tasks say when the first one is taken.                         *)
LEMMA TakenOrder ==
    ASSUME tasks \in Seq(Posted), tasks # << >>, tasks' = Tail(tasks)
    PROVE  /\ \A k : TaskAt(1, k) <=> Head(tasks).kind = k
           /\ \A k : \A i \in Nat : TaskAt(i, k) => i >= 1
           /\ \A k : \A i \in Nat : TaskAt(i, k)' => i >= 1 /\ i + 1 \in Nat /\ TaskAt(i + 1, k)
           /\ \A k : \A i \in Nat : TaskAt(i, k) /\ i # 1 => i - 1 \in Nat /\ TaskAt(i - 1, k)'
           /\ FromDeviceAt(1) <=> Head(tasks).kind \in {"available", "unavailable", "initDone"}
           /\ \A i \in Nat : FromDeviceAt(i) => i >= 1
           /\ \A i \in Nat : FromDeviceAt(i)' => i >= 1 /\ i + 1 \in Nat /\ FromDeviceAt(i + 1)
           /\ DoneIn(tasks, 1) <=> Head(tasks).kind = "initDone"
           /\ \A i \in Nat : DoneIn(tasks, i)' => i >= 1 /\ i + 1 \in Nat /\ DoneIn(tasks, i + 1)
           /\ \A i \in Nat : DoneIn(tasks, i) => FromDeviceAt(i)
<1>1. /\ Len(tasks) \in Nat \ {0} /\ Len(tasks') = Len(tasks) - 1
      /\ \A i \in 1 .. Len(tasks) - 1 : tasks'[i] = tasks[i + 1]
      /\ Head(tasks) = tasks[1]
    OBVIOUS
<1>2. /\ \A k : TaskAt(1, k) <=> Head(tasks).kind = k
      /\ \A k : \A i \in Nat : TaskAt(i, k) => i >= 1
      /\ \A k : \A i \in Nat : TaskAt(i, k)' => i >= 1 /\ i + 1 \in Nat /\ TaskAt(i + 1, k)
      /\ \A k : \A i \in Nat : TaskAt(i, k) /\ i # 1 => i - 1 \in Nat /\ TaskAt(i - 1, k)'
    BY TaskTaken
<1>3. ASSUME NEW i \in Nat
      PROVE  /\ FromDeviceAt(i)' => i >= 1 /\ i + 1 \in Nat /\ FromDeviceAt(i + 1)
             /\ DoneIn(tasks, i)' => i >= 1 /\ i + 1 \in Nat /\ DoneIn(tasks, i + 1)
    BY <1>1 DEF FromDeviceAt, DoneIn
<1>4. /\ FromDeviceAt(1) <=> Head(tasks).kind \in {"available", "unavailable", "initDone"}
      /\ DoneIn(tasks, 1) <=> Head(tasks).kind = "initDone"
      /\ \A i \in Nat : FromDeviceAt(i) => i >= 1
      /\ \A i \in Nat : DoneIn(tasks, i) => FromDeviceAt(i)
    BY <1>1 DEF FromDeviceAt, DoneIn
<1> QED
    BY <1>2, <1>3, <1>4

(* A step that leaves the device and what is on its way alone.             *)
LEMMA ServedFrame ==
    ASSUME Ordered, UNCHANGED <<toServer, clients, named, subscribers>>
    PROVE  /\ RequestsServed' /\ (\A s \in Signals : subscribers'[s] \subseteq clients')
           /\ \A n : InitSent(n)' <=> InitSent(n)
BY DEF Ordered, ClientsServed, RequestsServed, InitSent

(* The loss of a session keeps the order.                                  *)
LEMMA LossOrder ==
    ASSUME TypesInv, StatusInv, Ordered, OnSessionError
    PROVE  Ordered'
<1>1. tasks \in Seq(Posted)
    BY DEF TypesInv, ClientTypes
<1>2. PICK m : /\ m \in Posted /\ m.kind = "Reconnecting" /\ tasks' = Append(tasks, m)
               /\ session' = 0 /\ attempt' = "pending"
               /\ UNCHANGED <<available, initReady, signalIds, toServer, clients, named, subscribers,
                              registered, sessions, failed, threw>>
    BY DEF OnSessionError, Posted, Plain, Message, streaming, device, managed
<1>3. PICK last \in Nat :
        /\ last = Len(tasks) + 1
        /\ \A k : \A i \in Nat : TaskAt(i, k) => TaskAt(i, k)' /\ i < last
        /\ \A k : \A i \in Nat : TaskAt(i, k)' => TaskAt(i, k) \/ (i = last /\ k = "Reconnecting")
        /\ TaskAt(last, "Reconnecting")'
        /\ \A i \in Nat : FromDeviceAt(i)' <=> FromDeviceAt(i)
        /\ \A i \in Nat : FromDeviceAt(i) => i < last
        /\ \A i \in Nat : DoneIn(tasks, i)' <=> DoneIn(tasks, i)
    BY <1>1, <1>2, PostedOrder
<1>4. tasks' \in Seq(Posted)
    BY <1>1, <1>2
<1>5. Unheard'
    BY <1>3, <1>4, UnheardTaskNext
<1>6. ~Fresh' /\ ~Live'
    BY <1>2, <1>3 DEF Fresh, Live
<1>7. InOrder'
    BY <1>2, <1>3, <1>5, <1>6 DEF Ordered, InOrder
<1>8. ClientsServed'
    BY <1>2, <1>6, ServedFrame DEF ClientsServed
<1>9. SignalsInTurn'
    BY <1>1, <1>2, <1>6, OtherSaid DEF Ordered, SignalsInTurn
<1>10. InitDoneOnce'
    BY <1>2, <1>3, <1>6 DEF Ordered, InitDoneOnce
<1> QED
    BY <1>2, <1>7, <1>8, <1>9, <1>10 DEF Ordered

(* A new session begins in order.                                          *)
LEMMA ConnectOrder ==
    ASSUME TypesInv, StatusInv, SessionsKnown, Ordered, InitClientSessionHandler
    PROVE  Ordered'
<1>1. PICK n : n = lastSession + 1
    OBVIOUS
<1>2. /\ session' = n /\ attempt' = "connected" /\ attempt = "pending" /\ session = 0
      /\ n \in SessionIds /\ n # 0 /\ sessions' = sessions \cup {n}
      /\ toServer' = [toServer EXCEPT ![n] = << Plain("properties") >>]
      /\ UNCHANGED <<tasks, available, initReady, signalIds, toClient, clients, named, subscribers,
                     registered, failed, threw>>
    BY <1>1, SessionAssumption DEF InitClientSessionHandler, streaming, managed, TypesInv,
       LinkTypes, SessionIds
<1>3. n \notin clients /\ named # n /\ toClient[n] = << >>
    BY <1>1, <1>2, SessionAssumption DEF SessionsKnown, TypesInv, DeviceTypes, LinkTypes, Other, SessionIds
<1>4. /\ toServer'[n] = << Plain("properties") >> 
      /\ \A m \in SessionIds : m # n => toServer'[m] = toServer[m]
    BY <1>2 DEF TypesInv, LinkTypes
<1>5. PICK q : q = << Plain("properties") >>
    OBVIOUS
<1>6. DOMAIN q = {1} /\ q[1].kind = "properties"
    BY <1>5 DEF Plain, Message
<1>7. ~InitSent(n)'
    BY <1>4, <1>5, <1>6 DEF InitSent, HasInit
<1>8. RequestsServed'
  <2>1. Servable(n, q, clients, named)
      BY <1>3, <1>6 DEF Servable
  <2> QED
      BY <1>2, <1>4, <1>5, <2>1 DEF Ordered, ClientsServed, RequestsServed
<1>9. Fresh' /\ ~Live' /\ ~Live /\ (Unheard' <=> Unheard)
    BY <1>2 DEF Fresh, Live, Unheard
<1>10. /\ \A i \in Nat : \A k : TaskAt(i, k)' <=> TaskAt(i, k)
       /\ \A i \in Nat : FromDeviceAt(i)' <=> FromDeviceAt(i)
    BY <1>2 DEF TaskAt, FromDeviceAt
<1>11. ~InitSent(session)'
    BY <1>2, <1>7
<1>12. InOrder'
    BY <1>2, <1>3, <1>9, <1>10, <1>11 DEF Ordered, InOrder
<1>13. ClientsServed'
    BY <1>2, <1>8, <1>9 DEF Ordered, ClientsServed
<1>14. SignalsInTurn'
    BY <1>2, <1>9 DEF Ordered, SignalsInTurn
<1>15. InitDoneOnce'
  <2>1. \A i \in Nat : ~DoneIn(toClient'[session'], i)
      BY <1>2, <1>3 DEF DoneIn
  <2>2. \A i \in Nat : DoneIn(tasks, i)' <=> DoneIn(tasks, i)
      BY <1>2 DEF DoneIn
  <2> QED
      BY <1>2, <1>9, <2>1, <2>2 DEF Ordered, InitDoneOnce
<1> QED
    BY <1>2, <1>12, <1>13, <1>14, <1>15 DEF Ordered

(* The end of a connection attempt keeps the order.                        *)
LEMMA AttemptOrder ==
    ASSUME TypesInv, StatusInv, Ordered, OnConnectionFailed \/ CheckReconnectionResult
    PROVE  Ordered'
<1>1. tasks \in Seq(Posted)
    BY DEF TypesInv, ClientTypes
<1>2. UNCHANGED <<session, available, initReady, signalIds, toServer, toClient, clients, named,
                  subscribers, registered, sessions, failed, threw>>
    BY DEF OnConnectionFailed, CheckReconnectionResult, streaming, device, managed
<1>3. CASE attempt # "connected"
  <2>1. /\ attempt \in {"pending", "failed"} /\ attempt' \in {"pending", "failed"} /\ tasks' = tasks
        /\ session = 0
      BY <1>3 DEF OnConnectionFailed, CheckReconnectionResult, TypesInv, LinkTypes
  <2>2. (Fresh' <=> Fresh) /\ ~Live' /\ ~Live /\ (Unheard' <=> Unheard)
      BY <1>2, <2>1 DEF Fresh, Live, Unheard, TaskAt
  <2>3. /\ \A i \in Nat : \A k : TaskAt(i, k)' <=> TaskAt(i, k)
        /\ \A i \in Nat : FromDeviceAt(i)' <=> FromDeviceAt(i)
        /\ \A i \in Nat : DoneIn(tasks, i)' <=> DoneIn(tasks, i)
      BY <2>1 DEF TaskAt, FromDeviceAt, DoneIn
  <2>4. InitSent(session)' <=> InitSent(session)
      BY <1>2 DEF InitSent
  <2>5. InOrder'
      BY <1>2, <2>1, <2>2, <2>3, <2>4 DEF Ordered, InOrder
  <2>6. ClientsServed'
      BY <1>2, <2>2, ServedFrame DEF ClientsServed
  <2>7. SignalsInTurn'
      BY <1>2, <2>1, <2>2 DEF Ordered, SignalsInTurn
  <2>8. InitDoneOnce'
      BY <1>2, <2>1, <2>2, <2>3 DEF Ordered, InitDoneOnce
  <2> QED
      BY <1>2, <2>5, <2>6, <2>7, <2>8 DEF Ordered
<1>4. CASE attempt = "connected"
  <2>1. PICK m : /\ m \in Posted /\ m.kind = "Connected" /\ tasks' = Append(tasks, m)
                 /\ attempt' = "none"
      BY <1>4 DEF OnConnectionFailed, CheckReconnectionResult, Posted, Plain, Message
  <2>2. PICK last \in Nat :
          /\ last = Len(tasks) + 1
          /\ \A k : \A i \in Nat : TaskAt(i, k) => TaskAt(i, k)' /\ i < last
          /\ \A k : \A i \in Nat : TaskAt(i, k)' => TaskAt(i, k) \/ (i = last /\ k = "Connected")
          /\ TaskAt(last, "Connected")'
          /\ \A i \in Nat : FromDeviceAt(i)' <=> FromDeviceAt(i)
          /\ \A i \in Nat : FromDeviceAt(i) => i < last
          /\ \A i \in Nat : DoneIn(tasks, i)' <=> DoneIn(tasks, i)
      BY <1>1, <2>1, PostedOrder
  <2>3. tasks' \in Seq(Posted)
      BY <1>1, <2>1
  <2>4. Unheard' <=> Unheard
      BY <1>1, <2>2, <2>3, UnheardTask, UnheardTaskNext
  <2>5. Fresh' /\ Fresh /\ ~Live' /\ ~Live
      BY <1>4, <2>2 DEF Fresh, Live
  <2>6. InitSent(session)' <=> InitSent(session)
      BY <1>2 DEF InitSent
  <2>7. InOrder'
      BY <1>2, <2>2, <2>4, <2>5, <2>6 DEF Ordered, InOrder
  <2>8. ClientsServed'
      BY <1>2, <2>5, ServedFrame DEF ClientsServed
  <2>9. SignalsInTurn'
      BY <1>1, <1>2, <2>1, <2>5, OtherSaid DEF Ordered, SignalsInTurn
  <2>10. InitDoneOnce'
    <3>1. \A i : DoneIn(toClient[session], i)' <=> DoneIn(toClient[session], i)
        BY <1>2 DEF DoneIn
    <3> QED
        BY <1>2, <2>2, <2>5, <3>1 DEF Ordered, InitDoneOnce
  <2> QED
      BY <1>2, <2>7, <2>8, <2>9, <2>10 DEF Ordered
<1> QED
    BY <1>3, <1>4

(* The init timer keeps the order.                                         *)
LEMMA TimerOrder ==
    ASSUME TypesInv, StatusInv, Ordered, InitTimerExpires
    PROVE  Ordered'
<1>1. tasks \in Seq(Posted)
    BY DEF TypesInv, ClientTypes
<1>2. PICK m : /\ m \in Posted /\ m.kind = "initTimer" /\ tasks' = Append(tasks, m)
               /\ UNCHANGED <<session, attempt, available, initReady, signalIds, toServer, toClient,
                              clients, named, subscribers, registered, sessions, failed, threw>>
    BY DEF InitTimerExpires, Posted, Plain, Message, streaming, link, device, managed
<1>3. /\ \A k \in {"Reconnecting", "Connected"} : \A i \in Nat : TaskAt(i, k)' <=> TaskAt(i, k)
      /\ \A i \in Nat : FromDeviceAt(i)' <=> FromDeviceAt(i)
      /\ \A i \in Nat : DoneIn(tasks, i)' <=> DoneIn(tasks, i)
    BY <1>1, <1>2, PostedOrder
<1>4. tasks' \in Seq(Posted)
    BY <1>1, <1>2
<1>5. Unheard' <=> Unheard
    BY <1>1, <1>3, <1>4, UnheardTask, UnheardTaskNext
<1>6. (Fresh' <=> Fresh) /\ (Live' <=> Live)
    BY <1>2, <1>3 DEF Fresh, Live
<1>7. /\ InitSent(session)' <=> InitSent(session)
      /\ \A i : DoneIn(toClient[session], i)' <=> DoneIn(toClient[session], i)
    BY <1>2 DEF InitSent, DoneIn
<1>8. InOrder'
    BY <1>2, <1>3, <1>5, <1>6, <1>7 DEF Ordered, InOrder
<1>9. ClientsServed'
    BY <1>2, <1>6, <1>7, ServedFrame DEF Ordered, ClientsServed
<1>10. SignalsInTurn'
    BY <1>1, <1>2, <1>6, <1>7, OtherSaid DEF Ordered, SignalsInTurn
<1>11. InitDoneOnce'
    BY <1>2, <1>3, <1>6, <1>7 DEF Ordered, InitDoneOnce
<1> QED
    BY <1>2, <1>8, <1>9, <1>10, <1>11 DEF Ordered

(* The transport thread hands on the first message of the session.         *)
LEMMA ReceiveOrder ==
    ASSUME TypesInv, StatusInv, Ordered, Receive
    PROVE  Ordered'
<1>1. tasks \in Seq(Posted) /\ toClient \in [SessionIds -> Seq(FromDevice)]
    BY DEF TypesInv, ClientTypes, LinkTypes
<1>2. Live /\ session \in SessionIds /\ ~Fresh /\ session # 0
    BY LiveFacts DEF Receive, Ordered, InOrder, Live
<1>3. PICK q, m : /\ q = toClient[session] /\ m = Head(q) /\ q # << >>
                  /\ q \in Seq(FromDevice) /\ q \in Seq(Posted) /\ m \in FromDevice /\ m \in Posted
    BY <1>1, <1>2 DEF Receive, Posted
<1>4. /\ tasks' = Append(tasks, m) /\ toClient'[session'] = Tail(q)
      /\ signalIds' = CASE m.kind = "available" -> signalIds \cup {m.signal}
                        [] m.kind = "unavailable" -> signalIds \ {m.signal}
                        [] OTHER -> signalIds
      /\ UNCHANGED <<session, attempt, available, initReady, toServer, clients, named, subscribers,
                     registered, sessions, failed, threw>>
    BY <1>1, <1>2, <1>3 DEF Receive, streaming, link, device, managed
<1>5. m.kind \in {"available", "unavailable", "initDone"}
    BY <1>3, MessageFacts
<1>6. PICK last \in Nat :
        /\ last = Len(tasks) + 1
        /\ \A k \in {"Connected", "Reconnecting"} : \A i \in Nat : TaskAt(i, k)' <=> TaskAt(i, k)
        /\ \A i \in Nat : DoneIn(tasks, i)' <=> DoneIn(tasks, i) \/ (i = last /\ m.kind = "initDone")
    BY <1>1, <1>3, <1>4, <1>5, PostedOrder
<1>7. \A i \in Nat : ~TaskAt(i, "Connected")' /\ ~TaskAt(i, "Reconnecting")'
    BY <1>2, <1>6, LiveFacts DEF Ordered
<1>8. Live' /\ ~Fresh' /\ ~Unheard'
  <2>1. tasks' \in Seq(Posted)
      BY <1>1, <1>3, <1>4
  <2> QED
      BY <1>2, <1>4, <1>7, <2>1, UnheardTaskNext DEF Live, Fresh
<1>9. InOrder'
    BY <1>7, <1>8 DEF InOrder
<1>10. ClientsServed'
    BY <1>2, <1>4, ServedFrame DEF Ordered, ClientsServed
<1>11. ~InitSent(session) /\ ~InitSent(session)'
  <2>1. ~InitSent(session)
      BY <1>2, <1>3 DEF Ordered, SignalsInTurn
  <2> QED
      BY <1>4, <2>1 DEF InitSent
<1>12. SignalsInTurn'
  <2>1. PICK ids : ids = signalIds
      OBVIOUS
  <2>2. PICK to : to = signalIds'
      OBVIOUS
  <2>3. /\ Alternates(tasks, available) /\ EndsAt(tasks, available, ids)
        /\ Alternates(q, ids) /\ (session \in clients => EndsAt(q, ids, registered))
      BY <1>2, <1>3, <2>1 DEF Ordered, SignalsInTurn
  <2>4. /\ Alternates(Tail(q), to) /\ (session \in clients => EndsAt(Tail(q), to, registered))
        /\ m.kind = "available" => m.signal \notin ids
        /\ m.kind = "unavailable" => m.signal \in ids
    <3>1. \/ m.kind \notin {"available", "unavailable"} /\ to = ids
          \/ m.kind = "available" /\ to = ids \cup {m.signal}
          \/ m.kind = "unavailable" /\ to = ids \ {m.signal}
        BY <1>4, <1>5, <2>1, <2>2
    <3> QED
        BY <1>3, <2>3, <3>1, HeadTaken
  <2>5. Alternates(Append(tasks, m), available) /\ EndsAt(Append(tasks, m), available, to)
    <3>1. CASE m.kind = "available"
      <4>1. m = Up(m.signal) /\ m.signal \in Signals /\ to = ids \cup {m.signal}
          BY <1>3, <1>4, <2>1, <2>2, <3>1, UpDownFacts
      <4>2. PICK s \in Signals : s = m.signal /\ m = Up(s) /\ s \notin ids /\ to = ids \cup {s}
          BY <2>4, <3>1, <4>1
      <4> QED
          BY <1>1, <2>3, <4>2, UpSaid
    <3>2. CASE m.kind = "unavailable"
      <4>1. m = Down(m.signal) /\ m.signal \in Signals /\ to = ids \ {m.signal}
          BY <1>3, <1>4, <2>1, <2>2, <3>2, UpDownFacts
      <4>2. PICK s \in Signals : s = m.signal /\ m = Down(s) /\ s \in ids /\ to = ids \ {s}
          BY <2>4, <3>2, <4>1
      <4> QED
          BY <1>1, <2>3, <4>2, DownSaid
    <3>3. CASE m.kind = "initDone"
      <4>1. to = ids
          BY <1>4, <2>1, <2>2, <3>3
      <4> QED
          BY <1>1, <1>3, <2>3, <3>3, <4>1, OtherSaid
    <3> QED
        BY <1>5, <3>1, <3>2, <3>3
  <2> QED
      BY <1>4, <1>11, <2>2, <2>4, <2>5 DEF SignalsInTurn
<1>13. InitDoneOnce'
  <2>1. PICK t : t = Tail(q)
      OBVIOUS
  <2>2. /\ DoneIn(q, 1) <=> m.kind = "initDone"
        /\ \A i \in Nat : DoneIn(t, i) => i >= 1 /\ i + 1 \in Nat /\ DoneIn(q, i + 1)
    <3>1. /\ Len(q) \in Nat \ {0} /\ Len(t) = Len(q) - 1 /\ Head(q) = q[1]
          /\ \A i \in 1 .. Len(q) - 1 : t[i] = q[i + 1]
        BY <1>3, <2>1
    <3> QED
        BY <1>3, <3>1 DEF DoneIn
  <2>3. /\ \A i \in Nat : DoneIn(tasks, i) =>
             ~initReady /\ (\A j \in Nat : DoneIn(tasks, j) => i = j) /\ \A j \in Nat : ~DoneIn(q, j)
        /\ \A i \in Nat : DoneIn(q, i) =>
             ~initReady /\ \A j \in Nat : DoneIn(q, j) => i = j
      BY <1>2, <1>3 DEF Ordered, InitDoneOnce
  <2>4. PICK x : x = tasks' /\ \A i \in Nat : DoneIn(x, i) <=> DoneIn(tasks, i) \/ (i = last /\ m.kind = "initDone")
    <3>1. \A i \in Nat : DoneIn(tasks', i) <=> DoneIn(tasks, i) \/ (i = last /\ m.kind = "initDone")
        BY <1>6 DEF DoneIn
    <3> QED
        BY <3>1
  <2>5. /\ \A i \in Nat : DoneIn(x, i) =>
             ~initReady /\ (\A j \in Nat : DoneIn(x, j) => i = j) /\ \A j \in Nat : ~DoneIn(t, j)
        /\ \A i \in Nat : DoneIn(t, i) =>
             ~initReady /\ \A j \in Nat : DoneIn(t, j) => i = j
    <3>1. CASE m.kind = "initDone"
      <4>1. \A i \in Nat : ~DoneIn(t, i)
          BY <2>2, <2>3, <3>1
      <4>2. \A i \in Nat : ~DoneIn(tasks, i)
          BY <2>2, <2>3, <3>1
      <4> QED
          BY <2>2, <2>3, <2>4, <3>1, <4>1, <4>2
    <3>2. CASE m.kind # "initDone"
        BY <2>2, <2>3, <2>4, <3>2
    <3> QED
        BY <3>1, <3>2
  <2> QED
      BY <1>4, <1>11, <2>1, <2>4, <2>5 DEF InitDoneOnce
<1> QED
    BY <1>4, <1>9, <1>10, <1>12, <1>13 DEF Ordered

(* A task that says nothing of the sessions is taken.                      *)
LEMMA TakenFrame ==
    ASSUME TypesInv, StatusInv, Ordered, tasks # << >>, tasks' = Tail(tasks),
           Head(tasks).kind \notin {"Reconnecting", "Connected"},
           UNCHANGED <<session, attempt, signalIds, toClient, clients, named, subscribers, registered,
                       sessions, threw>>,
           RequestsServed', \A n \in SessionIds : InitSent(n)' <=> InitSent(n),
           \/ Head(tasks).kind \notin {"available", "unavailable"} /\ available' = available
           \/ Head(tasks).kind = "available" /\ available' = available \cup {Head(tasks).signal}
           \/ Head(tasks).kind = "unavailable" /\ available' = available \ {Head(tasks).signal}
    PROVE  /\ InOrder' /\ ClientsServed' /\ SignalsInTurn'
           /\ initReady' = initReady => InitDoneOnce'
           /\ Head(tasks).kind = "initDone" => ~initReady /\ InitDoneOnce'
<1>1. tasks \in Seq(Posted) /\ tasks' \in Seq(Posted)
    BY DEF TypesInv, ClientTypes
<1>2. /\ \A k \in {"Reconnecting", "Connected"} : \A i \in Nat :
           /\ TaskAt(i, k) => i - 1 \in Nat /\ TaskAt(i - 1, k)'
           /\ TaskAt(i, k)' => i + 1 \in Nat /\ TaskAt(i + 1, k)
      /\ FromDeviceAt(1) <=> Head(tasks).kind \in {"available", "unavailable", "initDone"}
      /\ \A i \in Nat : FromDeviceAt(i)' => i >= 1 /\ i + 1 \in Nat /\ FromDeviceAt(i + 1)
      /\ DoneIn(tasks, 1) <=> Head(tasks).kind = "initDone"
      /\ \A i \in Nat : DoneIn(tasks, i)' => i >= 1 /\ i + 1 \in Nat /\ DoneIn(tasks, i + 1)
    BY <1>1, TakenOrder
<1>3. /\ Unheard <=> \E i \in Nat : TaskAt(i, "Reconnecting")
      /\ Unheard' <=> \E i \in Nat : TaskAt(i, "Reconnecting")'
    BY <1>1, UnheardTask, UnheardTaskNext
<1>4. Unheard' <=> Unheard
    BY <1>2, <1>3
<1>5. (Fresh' <=> Fresh) /\ (Live' <=> Live)
  <2>1. Fresh => Fresh'
      BY <1>2 DEF Fresh
  <2>2. Fresh' => Fresh
    <3> SUFFICES ASSUME NEW i \in Nat, TaskAt(i, "Connected")',
                        \A j \in Nat : j > i => ~TaskAt(j, "Reconnecting")'
                 PROVE  Fresh
        BY DEF Fresh
    <3>1. TaskAt(i + 1, "Connected") /\ i + 1 \in Nat
        BY <1>2
    <3>2. \A j \in Nat : j > i + 1 => ~TaskAt(j, "Reconnecting")
        BY <1>2
    <3> QED
        BY <3>1, <3>2 DEF Fresh
  <2> QED
      BY <2>1, <2>2 DEF Live
<1>6. Fresh \/ Live => (InitSent(session)' <=> InitSent(session))
    BY FreshHasSession, LiveFacts DEF Ordered
<1>7. InOrder'
  <2>1. ~Live' /\ ~Unheard' => available' = {} /\ \A i \in Nat : ~FromDeviceAt(i)'
      BY <1>2, <1>4, <1>5 DEF Ordered, InOrder
  <2>2. ASSUME NEW i \in Nat, NEW j \in Nat,
               TaskAt(i, "Reconnecting")' \/ TaskAt(i, "Connected")', i < j
        PROVE  ~FromDeviceAt(j)'
    <3>1. /\ i + 1 \in Nat /\ j + 1 \in Nat /\ i + 1 < j + 1
          /\ TaskAt(i + 1, "Reconnecting") \/ TaskAt(i + 1, "Connected")
        BY <1>2, <2>2
    <3>2. ~FromDeviceAt(j + 1)
        BY <3>1 DEF Ordered, InOrder
    <3> QED
        BY <1>2, <3>2
  <2>3. /\ Fresh' => /\ toClient'[session'] = << >>
                     /\ session' \notin clients' /\ ~InitSent(session)'
        /\ attempt' = "none" /\ Unheard' => Fresh'
      BY <1>4, <1>5, <1>6 DEF Ordered, InOrder
  <2> QED
      BY <2>1, <2>2, <2>3 DEF InOrder
<1>8. ClientsServed'
    BY <1>5, <1>6 DEF Ordered, ClientsServed
<1>9. SignalsInTurn'
  <2>1. PICK to, on, ids : to = available' /\ on = available /\ ids = signalIds
      OBVIOUS
  <2>2. /\ Alternates(tasks, on) => Alternates(Tail(tasks), to)
        /\ EndsAt(tasks, on, ids) => EndsAt(Tail(tasks), to, ids)
      BY <1>1, <2>1, HeadTaken
  <2>3. Alternates(tasks', available') /\ (Live => EndsAt(tasks', available', signalIds))
      BY <2>1, <2>2 DEF Ordered, SignalsInTurn
  <2> QED
      BY <1>5, <1>6, <2>3 DEF Ordered, SignalsInTurn
<1>10. \A i : DoneIn(toClient[session], i)' <=> DoneIn(toClient[session], i)
    BY DEF DoneIn
<1>11. initReady' = initReady => InitDoneOnce'
    BY <1>2, <1>5, <1>6, <1>10 DEF Ordered, InitDoneOnce
<1>12. ASSUME Head(tasks).kind = "initDone" PROVE ~initReady /\ InitDoneOnce'
  <2>1. ~initReady /\ \A i \in Nat : DoneIn(tasks, i) => i = 1
      BY <1>2, <1>12 DEF Ordered, InitDoneOnce
  <2>2. \A i \in Nat : ~DoneIn(tasks, i)'
      BY <1>2, <2>1
  <2>3. /\ session # 0 => \A i \in Nat : ~DoneIn(toClient[session], i)
        /\ ~(Live /\ InitSent(session))
      BY <1>2, <1>12 DEF Ordered, InitDoneOnce
  <2> QED
      BY <1>5, <1>6, <1>10, <2>1, <2>2, <2>3 DEF InitDoneOnce
<1> QED
    BY <1>7, <1>8, <1>9, <1>11, <1>12

(* The tasks the client processes keep the order.                          *)
LEMMA ProcessedOrder ==
    ASSUME TypesInv, StatusInv, Ordered, ~late',
           SignalAvailable \/ SignalUnavailable \/ StreamingInitDone \/ CompleteReconnection
    PROVE  Ordered'
<1>1. tasks \in Seq(Posted) /\ tasks # << >> /\ tasks' = Tail(tasks) /\ failed = "no"
    BY DEF TypesInv, ClientTypes, SignalAvailable, SignalUnavailable, StreamingInitDone,
       CompleteReconnection, Task
<1>2. UNCHANGED <<session, attempt, signalIds, toClient, clients, named, subscribers, registered,
                  sessions, threw>>
    BY DEF SignalAvailable, SignalUnavailable, StreamingInitDone, CompleteReconnection, link, device,
       managed
<1>3. PICK m : m = Head(tasks) /\ m \in Posted
    BY <1>1
<1>4. CASE SignalAvailable
  <2>1. m.kind = "available" /\ m.signal \in Signals
      BY <1>3, <1>4, UpDownFacts DEF SignalAvailable, Task
  <2>2. m.signal \notin available
    <3>1. PICK to, on : on = available /\ to = on \cup {m.signal}
        OBVIOUS
    <3>2. Alternates(tasks, on)
        BY <3>1 DEF Ordered, SignalsInTurn
    <3> QED
        BY <1>1, <1>3, <2>1, <3>1, <3>2, HeadTaken
  <2>3. /\ available' = available \cup {m.signal} /\ UNCHANGED <<failed, initReady>>
        /\ Ask("subscribe", m.signal) \/ AskNothing
      BY <1>3, <1>4, <2>2 DEF SignalAvailable
  <2>4. \E i \in Nat : FromDeviceAt(i)
      BY <1>1, <1>3, <2>1, TakenOrder
  <2>5. RequestsServed' /\ \A n \in SessionIds : InitSent(n)' <=> InitSent(n)
      BY <1>2, <2>1, <2>3, <2>4, Asked
  <2>6. InOrder' /\ ClientsServed' /\ SignalsInTurn' /\ InitDoneOnce'
      BY <1>1, <1>2, <1>3, <2>1, <2>3, <2>5, TakenFrame
  <2> QED
      BY <1>2, <2>3, <2>6 DEF Ordered
<1>5. CASE SignalUnavailable
  <2>1. m.kind = "unavailable" /\ m.signal \in Signals
      BY <1>3, <1>5, UpDownFacts DEF SignalUnavailable, Task
  <2>2. m.signal \in available
    <3>1. PICK to, on : on = available /\ to = on \ {m.signal}
        OBVIOUS
    <3>2. Alternates(tasks, on)
        BY <3>1 DEF Ordered, SignalsInTurn
    <3> QED
        BY <1>1, <1>3, <2>1, <3>1, <3>2, HeadTaken
  <2>3. available' = available \ {m.signal} /\ UNCHANGED <<failed, initReady, toServer>>
      BY <1>3, <1>5, <2>2 DEF SignalUnavailable
  <2>4. RequestsServed' /\ \A n \in SessionIds : InitSent(n)' <=> InitSent(n)
      BY <1>2, <2>3, ServedFrame
  <2>5. InOrder' /\ ClientsServed' /\ SignalsInTurn' /\ InitDoneOnce'
      BY <1>1, <1>2, <1>3, <2>1, <2>3, <2>4, TakenFrame
  <2> QED
      BY <1>2, <2>3, <2>5 DEF Ordered
<1>6. CASE StreamingInitDone
  <2>1. m.kind = "initDone" /\ UNCHANGED <<available, toServer>>
      BY <1>3, <1>6 DEF StreamingInitDone, Task
  <2>2. RequestsServed' /\ \A n \in SessionIds : InitSent(n)' <=> InitSent(n)
      BY <1>2, <2>1, ServedFrame
  <2>3. InOrder' /\ ClientsServed' /\ SignalsInTurn' /\ InitDoneOnce' /\ ~initReady
      BY <1>1, <1>2, <1>3, <2>1, <2>2, TakenFrame
  <2>4. failed' = failed
      BY <1>6, <2>3 DEF StreamingInitDone
  <2> QED
      BY <1>2, <2>3, <2>4 DEF Ordered
<1>7. CASE CompleteReconnection
  <2>1. m.kind = "initTimer" /\ UNCHANGED <<available, toServer, initReady>>
      BY <1>3, <1>7 DEF CompleteReconnection, Task
  <2>2. RequestsServed' /\ \A n \in SessionIds : InitSent(n)' <=> InitSent(n)
      BY <1>2, <2>1, ServedFrame
  <2>3. InOrder' /\ ClientsServed' /\ SignalsInTurn' /\ InitDoneOnce'
      BY <1>1, <1>2, <1>3, <2>1, <2>2, TakenFrame
  <2>4. failed' \in {"no", "InvalidState"}
      BY <1>1, <1>7 DEF CompleteReconnection
  <2> QED
      BY <1>2, <2>3, <2>4 DEF Ordered
<1> QED
    BY <1>4, <1>5, <1>6, <1>7

(* Nothing of the device is left when the loss of its session is processed.*)
LEMMA StartReconnectionOrder ==
    ASSUME TypesInv, StatusInv, Ordered, StartReconnection
    PROVE  Ordered'
<1>1. /\ tasks \in Seq(Posted) /\ tasks' \in Seq(Posted) /\ tasks # << >> /\ tasks' = Tail(tasks)
      /\ Head(tasks).kind = "Reconnecting" /\ available' = {}
      /\ UNCHANGED <<session, attempt, initReady, signalIds, toServer, toClient, clients, named,
                     subscribers, registered, sessions, failed, threw>>
    BY DEF TypesInv, ClientTypes, StartReconnection, Task, link, device, managed
<1>2. /\ \A k : TaskAt(1, k) <=> Head(tasks).kind = k
      /\ \A k : \A i \in Nat : TaskAt(i, k) => i >= 1
      /\ \A k : \A i \in Nat : TaskAt(i, k)' => i >= 1 /\ i + 1 \in Nat /\ TaskAt(i + 1, k)
      /\ \A k : \A i \in Nat : TaskAt(i, k) /\ i # 1 => i - 1 \in Nat /\ TaskAt(i - 1, k)'
      /\ \A i \in Nat : FromDeviceAt(i)' => i >= 1 /\ i + 1 \in Nat /\ FromDeviceAt(i + 1)
    BY <1>1, TakenOrder
<1>3. \A i \in Nat : ~FromDeviceAt(i)'
  <2>1. ASSUME NEW i \in Nat, i > 1 PROVE ~FromDeviceAt(i)
      BY <1>1, <1>2, <2>1 DEF Ordered, InOrder
  <2> QED
      BY <1>2, <2>1
<1>4. Unheard /\ ~Live
    BY <1>1, <1>2, UnheardTask, LiveFacts DEF Ordered
<1>5. (Fresh' <=> Fresh) /\ ~Live'
  <2>1. Fresh => Fresh'
    <3> SUFFICES ASSUME NEW i \in Nat, TaskAt(i, "Connected"),
                        \A j \in Nat : j > i => ~TaskAt(j, "Reconnecting")
                 PROVE  Fresh'
        BY <1>1 DEF Fresh
    <3>1. TaskAt(i - 1, "Connected")' /\ i - 1 \in Nat
        BY <1>1, <1>2
    <3>2. \A j \in Nat : j > i - 1 => ~TaskAt(j, "Reconnecting")'
        BY <1>2
    <3> QED
        BY <3>1, <3>2 DEF Fresh
  <2>2. Fresh' => Fresh
    <3> SUFFICES ASSUME NEW i \in Nat, TaskAt(i, "Connected")',
                        \A j \in Nat : j > i => ~TaskAt(j, "Reconnecting")'
                 PROVE  Fresh
        BY <1>1 DEF Fresh
    <3>1. TaskAt(i + 1, "Connected") /\ i + 1 \in Nat
        BY <1>2
    <3>2. \A j \in Nat : j > i + 1 => ~TaskAt(j, "Reconnecting")
        BY <1>2
    <3> QED
        BY <3>1, <3>2 DEF Fresh
  <2> QED
      BY <1>1, <1>4, <2>1, <2>2 DEF Live
<1>6. InitSent(session)' <=> InitSent(session)
    BY <1>1 DEF InitSent
<1>7. InOrder'
    BY <1>1, <1>3, <1>4, <1>5, <1>6 DEF Ordered, InOrder
<1>8. ClientsServed'
    BY <1>1, <1>5, ServedFrame DEF ClientsServed
<1>9. SignalsInTurn'
  <2>1. PICK q : q = tasks' /\ \A i \in Nat : \A s \in Signals : ~Says(q, i, Up(s)) /\ ~Says(q, i, Down(s))
      BY <1>3, UpDownFacts DEF Says, FromDeviceAt
  <2>2. Alternates(q, {})
      BY <2>1, NothingSaid
  <2> QED
      BY <1>1, <1>5, <2>1, <2>2 DEF SignalsInTurn
<1>10. InitDoneOnce'
  <2>1. /\ \A i \in Nat : ~DoneIn(tasks, i)'
        /\ \A i : DoneIn(toClient[session], i)' <=> DoneIn(toClient[session], i)
      BY <1>1, <1>3 DEF DoneIn, FromDeviceAt
  <2> QED
      BY <1>1, <1>5, <2>1 DEF Ordered, InitDoneOnce
<1> QED
    BY <1>1, <1>7, <1>8, <1>9, <1>10 DEF Ordered

(* The start of a session is processed: streaming is asked for once.       *)
LEMMA RequestStreamingOrder ==
    ASSUME TypesInv, StatusInv, Ordered, ~late', RequestStreamingOnReconnection
    PROVE  Ordered'
<1>1. /\ tasks \in Seq(Posted) /\ tasks' \in Seq(Posted) /\ tasks # << >> /\ tasks' = Tail(tasks)
      /\ Head(tasks).kind = "Connected" /\ signalIds' = {} /\ initReady' = FALSE
      /\ toServer' = Sent(Plain("init")) /\ late' = LateAfter(TRUE)
      /\ UNCHANGED <<session, attempt, available, toClient, clients, named, subscribers, registered,
                     sessions, failed, threw>>
    BY DEF TypesInv, ClientTypes, RequestStreamingOnReconnection, Task, link, device, managed
<1>2. /\ \A k : TaskAt(1, k) <=> Head(tasks).kind = k
      /\ \A k : \A i \in Nat : TaskAt(i, k) => i >= 1
      /\ \A k : \A i \in Nat : TaskAt(i, k)' => i >= 1 /\ i + 1 \in Nat /\ TaskAt(i + 1, k)
      /\ \A k : \A i \in Nat : TaskAt(i, k) /\ i # 1 => i - 1 \in Nat /\ TaskAt(i - 1, k)'
      /\ \A i \in Nat : FromDeviceAt(i)' => i >= 1 /\ i + 1 \in Nat /\ FromDeviceAt(i + 1)
    BY <1>1, TakenOrder
<1>3. \A i \in Nat : ~FromDeviceAt(i)'
  <2>1. ASSUME NEW i \in Nat, i > 1 PROVE ~FromDeviceAt(i)
      BY <1>1, <1>2, <2>1 DEF Ordered, InOrder
  <2> QED
      BY <1>2, <2>1
<1>4. /\ Unheard <=> \E i \in Nat : TaskAt(i, "Reconnecting")
      /\ Unheard' <=> \E i \in Nat : TaskAt(i, "Reconnecting")'
    BY <1>1, UnheardTask, UnheardTaskNext
<1>5. TaskAt(1, "Connected")
    BY <1>1, <1>2
<1>6. /\ 0 \notin SessionIds /\ session \in SessionIds \cup {0}
      /\ session = 0 => attempt \in {"pending", "failed"}
      /\ sessions \subseteq SessionIds
      /\ toServer \in [SessionIds -> Seq(FromClient)]
    BY SMTT(40), SessionAssumption DEF TypesInv, LinkTypes, DeviceTypes, SessionIds
<1>7. \A i \in Nat : ~DoneIn(tasks, i)'
    BY <1>3 DEF DoneIn, FromDeviceAt
<1>8. \A i \in Nat : \A s \in Signals : ~Says(tasks', i, Up(s)) /\ ~Says(tasks', i, Down(s))
    BY <1>3, UpDownFacts DEF Says, FromDeviceAt
<1>9. PICK q : q = tasks' /\ \A on : Alternates(q, on) /\ EndsAt(q, on, on)
  <2>1. \A on : Alternates(tasks', on) /\ EndsAt(tasks', on, on)
      BY <1>8, NothingSaid
  <2> QED
      BY <2>1
<1>10. CASE session = 0
  <2>1. toServer' = toServer
      BY <1>1, <1>6, <1>10 DEF Sent
  <2>2. Unheard
      BY <1>4, <1>5, <1>6, <1>10 DEF StatusInv, LossesReported
  <2>3. Unheard'
      BY <1>1, <1>2, <1>4, <2>2
  <2>4. ~Fresh' /\ ~Live'
    <3>1. ~Fresh
        BY <1>6, <1>10, FreshHasSession
    <3>2. Fresh' => Fresh
      <4> SUFFICES ASSUME NEW i \in Nat, TaskAt(i, "Connected")',
                          \A j \in Nat : j > i => ~TaskAt(j, "Reconnecting")'
                   PROVE  Fresh
          BY <1>1 DEF Fresh
      <4>1. TaskAt(i + 1, "Connected") /\ i + 1 \in Nat
          BY <1>2
      <4>2. \A j \in Nat : j > i + 1 => ~TaskAt(j, "Reconnecting")
          BY <1>2
      <4> QED
          BY <4>1, <4>2 DEF Fresh
    <3> QED
        BY <1>1, <1>10, <3>1, <3>2 DEF Live
  <2>5. InOrder'
      BY <1>1, <1>3, <1>6, <1>10, <2>3, <2>4 DEF InOrder
  <2>6. ClientsServed'
      BY <1>1, <2>1, <2>4, ServedFrame DEF ClientsServed
  <2>7. SignalsInTurn'
      BY <1>9, <2>4 DEF SignalsInTurn
  <2>8. InitDoneOnce'
      BY <1>1, <1>7, <1>10, <2>4 DEF InitDoneOnce
  <2> QED
      BY <1>1, <2>5, <2>6, <2>7, <2>8 DEF Ordered
<1>11. CASE session # 0
  <2>1. ~Unheard
      BY <1>1, <1>11 DEF LateAfter
  <2>2. Fresh /\ ~Live
      BY <1>4, <1>5, <2>1 DEF Fresh, Live
  <2>3. /\ toClient[session] = << >> /\ session \notin clients /\ ~InitSent(session)
        /\ available = {}
      BY <2>1, <2>2 DEF Ordered, InOrder
  <2>4. session \in SessionIds /\ attempt = "none"
      BY <1>4, <1>5, <1>6, <1>11, <2>1 DEF StatusInv, LossesReported
  <2>5. \A i \in Nat : ~TaskAt(i, "Connected")' /\ ~TaskAt(i, "Reconnecting")'
    <3>1. \A i \in Nat : TaskAt(i, "Connected") => i = 1
        BY <1>2, <1>4, <1>5, <2>1 DEF StatusInv, LossesReported
    <3> QED
        BY <1>2, <1>4, <2>1, <3>1
  <2>6. Live' /\ ~Fresh' /\ ~Unheard'
      BY <1>1, <1>4, <1>11, <2>4, <2>5 DEF Live, Fresh
  <2>7. RequestsServed' /\ (session \in sessions => InitSent(session)')
    <3>1. CASE session \notin sessions
        BY <1>1, <3>1, ServedFrame DEF Sent
    <3>2. CASE session \in sessions
      <4>1. toServer' = [toServer EXCEPT ![session] = Append(@, Plain("init"))]
          BY <1>1, <3>2 DEF Sent
      <4>2. PICK t, x, m : /\ t = toServer[session] /\ t \in Seq(FromClient)
                           /\ m = Plain("init") /\ x = Append(t, m)
          BY <1>6, <2>4
      <4>3. /\ Len(t) \in Nat /\ DOMAIN t = 1 .. Len(t) /\ DOMAIN x = 1 .. Len(t) + 1
            /\ \A i \in 1 .. Len(t) : x[i] = t[i]
            /\ x[Len(t) + 1] = m /\ m.kind = "init"
          BY <4>2 DEF Plain, Message
      <4>4. /\ toServer'[session] = x /\ session' = session
            /\ \A n \in SessionIds : n # session => toServer'[n] = toServer[n]
          BY <1>1, <1>6, <2>4, <4>1, <4>2
      <4>5. ~HasInit(t) /\ Servable(session, t, clients, named)
          BY <2>3, <2>4, <4>2 DEF InitSent, Ordered, ClientsServed, RequestsServed
      <4>6. HasInit(x) /\ Servable(session, x, clients, named)
          BY <2>3, <4>3, <4>5 DEF HasInit, Servable
      <4>7. RequestsServed'
        <5> SUFFICES ASSUME NEW n \in SessionIds PROVE Servable(n, toServer'[n], clients', named')
            BY DEF RequestsServed
        <5>1. CASE n = session
            BY <1>1, <4>4, <4>6, <5>1
        <5>2. CASE n # session
            BY <1>1, <4>4, <5>2 DEF Ordered, ClientsServed, RequestsServed
        <5> QED
            BY <5>1, <5>2
      <4>8. InitSent(session)'
          BY <4>4, <4>6 DEF InitSent
      <4> QED
          BY <4>7, <4>8
    <3> QED
        BY <3>1, <3>2
  <2>8. InOrder'
      BY <2>5, <2>6 DEF InOrder
  <2>9. ClientsServed'
      BY <1>1, <2>7 DEF Ordered, ClientsServed
  <2>10. SignalsInTurn'
    <3>1. Alternates(toClient[session], {})
      <4>1. \A i \in Nat : \A s \in Signals : ~Says(<< >>, i, Up(s)) /\ ~Says(<< >>, i, Down(s))
          BY DEF Says
      <4>2. Alternates(<< >>, {})
          BY <4>1, NothingSaid
      <4> QED
          BY <2>3, <4>2
    <3>2. available' = {} /\ signalIds' = {} /\ toClient'[session'] = << >> /\ session' \notin clients'
        BY <1>1, <2>3
    <3>3. Alternates(tasks', available') /\ EndsAt(tasks', available', signalIds')
        BY <1>9, <3>2
    <3>4. Alternates(toClient'[session'], signalIds')
        BY <1>1, <3>1, <3>2
    <3> QED
        BY <3>2, <3>3, <3>4 DEF SignalsInTurn
  <2>11. InitDoneOnce'
    <3>1. \A i \in Nat : ~DoneIn(toClient[session], i)'
        BY <1>1, <2>3 DEF DoneIn
    <3> QED
        BY <1>1, <1>7, <3>1 DEF InitDoneOnce
  <2> QED
      BY <1>1, <2>8, <2>9, <2>10, <2>11 DEF Ordered
<1> QED
    BY <1>10, <1>11

(* Every step keeps the order.                                             *)
LEMMA NextOrder == TypesInv /\ StatusInv /\ OrderInv /\ [SessionNext]_vars => OrderInv'
<1> SUFFICES ASSUME TypesInv, StatusInv, OrderInv, [SessionNext]_vars PROVE OrderInv'
    OBVIOUS
<1>1. SessionsKnown /\ SessionsKnown'
    BY NextKnown DEF OrderInv
<1>2. ASSUME ~late' PROVE Ordered'
  <2>1. Ordered
      BY <1>2, LateStays DEF OrderInv
  <2>2. CASE \E s \in Signals : OnListenedStatusChanged(s) \/ SetStreamed(s)
               \/ SetActiveStreamingSource(s) \/ DeactivateStreaming(s) \/ RequestStep(s)
      BY <1>2, <2>1, <2>2, UserOrder
  <2>3. CASE \E s \in Signals : ProcessPackets(s) \/ OtherSubscribes(s)
      BY <2>1, <2>3, ReaderOrder
  <2>4. CASE \E s \in Signals : AddSignal(s) \/ RemoveComponentSignals(s)
      BY <2>1, <2>4, SignalOrder
  <2>5. CASE \E n \in SessionIds : OnServerSessionError(n) \/ Handler(n)
      BY <2>1, <2>5, ClosingOrder, SubscriptionOrder, StreamingInitOrder DEF Handler
  <2>6. CASE OnSessionError \/ InitClientSessionHandler \/ OnConnectionFailed
             \/ CheckReconnectionResult \/ Receive \/ InitTimerExpires
      BY <1>1, <2>1, <2>6, LossOrder, ConnectOrder, AttemptOrder, ReceiveOrder, TimerOrder
  <2>7. CASE Processing
      BY <1>2, <2>1, <2>7, ProcessedOrder, StartReconnectionOrder, RequestStreamingOrder
         DEF Processing
  <2>8. CASE UNCHANGED vars
    <3>1. UNCHANGED <<streaming, tasks, failed, link, signalIds, toServer, toClient, device>>
        BY <2>8 DEF vars
    <3>2. RequestsServed /\ \A s \in Signals : subscribers[s] \subseteq clients
        BY <2>1 DEF Ordered, ClientsServed
    <3>3. RequestsServed' /\ \A n \in SessionIds : InitSent(n)' <=> InitSent(n)
        BY <3>1, <3>2 DEF RequestsServed, InitSent, device
    <3>4. sessions \subseteq SessionIds
        BY DEF TypesInv, DeviceTypes
    <3> QED
        BY <2>1, <3>1, <3>2, <3>3, <3>4, RequestsFrame DEF streaming, link, device, managed
  <2> QED
      BY <2>2, <2>3, <2>4, <2>5, <2>6, <2>7, <2>8, SessionAssumption, Zenon DEF SessionNext
<1> QED
    BY <1>1, <1>2 DEF OrderInv

(* Everything is in order at first.                                        *)
LEMMA InitOrder == SessionInit => OrderInv
<1> SUFFICES ASSUME SessionInit PROVE OrderInv
    OBVIOUS
<1>1. 1 \in SessionIds /\ 0 \notin SessionIds
    BY SessionAssumption DEF SessionIds
<1>2. /\ \A i \in Nat : \A k : ~TaskAt(i, k)
      /\ \A i \in Nat : ~FromDeviceAt(i) /\ ~DoneIn(tasks, i)
      /\ \A i \in Nat : \A m : ~Says(tasks, i, m)
    BY DEF SessionInit, TaskAt, FromDeviceAt, DoneIn, Says
<1>3. ~Unheard /\ ~Fresh /\ Live
    BY <1>2 DEF SessionInit, Unheard, Fresh, Live
<1>4. \A n \in SessionIds : toServer[n] = << >> /\ toClient[n] = << >>
    BY DEF SessionInit
<1>5. \A n \in SessionIds : ~InitSent(n) /\ Servable(n, toServer[n], clients, named)
    BY <1>4 DEF InitSent, HasInit, Servable
<1>6. SessionsKnown
    BY <1>1 DEF SessionInit, SessionsKnown
<1>7. InOrder
    BY <1>2, <1>3 DEF InOrder
<1>8. ClientsServed
    BY <1>1, <1>5 DEF SessionInit, ClientsServed, RequestsServed
<1>9. SignalsInTurn
  <2>1. /\ \A on : Alternates(tasks, on) /\ EndsAt(tasks, on, on)
      BY <1>2, NothingSaid
  <2>2. \A i \in Nat : \A m : ~Says(toClient[session], i, m)
      BY <1>1, <1>4 DEF SessionInit, Says
  <2>3. \A on : Alternates(toClient[session], on) /\ EndsAt(toClient[session], on, on)
      BY <2>2, NothingSaid
  <2> QED
      BY <1>1, <1>5, <2>1, <2>3 DEF SessionInit, SignalsInTurn
<1>10. InitDoneOnce
  <2>1. \A i \in Nat : ~DoneIn(toClient[session], i)
      BY <1>1, <1>4 DEF SessionInit, DoneIn
  <2> QED
      BY <1>1, <1>2, <1>5, <2>1 DEF SessionInit, InitDoneOnce
<1> QED
    BY <1>6, <1>7, <1>8, <1>9, <1>10 DEF SessionInit, OrderInv, Ordered

(* The order holds in every reachable state.                               *)
LEMMA OrderInvariant == SessionSpec => [](TypesInv /\ StatusInv /\ OrderInv)
BY InitTypes, NextTypes, InitStatus, NextStatus, InitOrder, NextOrder, PTL DEF SessionSpec

(* A signal the streaming takes for available has a numeric id in the      *)
(* transport layer, unless news of its withdrawal or of a lost session is  *)
(* on the way to the processing thread, as long as nothing was sent in a   *)
(* session whose start was not yet processed (subscribeSignal of the       *)
(* client handler).                                                        *)
THEOREM AvailableIsAskable == SessionSpec => []AvailableAskable
<1>1. TypesInv /\ OrderInv => AvailableAskable
  <2> SUFFICES ASSUME TypesInv, OrderInv, ~late, ~Unheard,
                      NEW s \in available, s \notin signalIds
               PROVE  Message("unavailable", s) \in ToSet(tasks)
      BY DEF AvailableAskable
  <2>1. Ordered /\ s \in Signals /\ tasks \in Seq(Posted)
      BY DEF OrderInv, TypesInv, ClientTypes
  <2>2. Live
      BY <2>1 DEF Ordered, InOrder
  <2>3. EndsAt(tasks, available, signalIds)
      BY <2>1, <2>2 DEF Ordered, SignalsInTurn
  <2>4. PICK m \in Nat : Says(tasks, m, Down(s))
      BY <2>1, <2>3 DEF EndsAt
  <2> QED
      BY <2>1, <2>4 DEF Says, Down, ToSet
<1> QED
    BY <1>1, OrderInvariant, PTL

(* No task ends the processing thread of the client, no handler or reader  *)
(* a thread of the device, except after an init timer that outlived its    *)
(* session or a request sent in a session whose start was not yet          *)
(* processed (addToAvailableSignals, removeFromAvailableSignals,           *)
(* completeReconnection; registerClient, processPackets).                  *)
THEOREM ThreadsFailOnlyWhenOvertaken == SessionSpec => []FailsOnlyWhenOvertaken
<1>1. StatusInv /\ OrderInv => FailsOnlyWhenOvertaken
    BY DEF StatusInv, OrderInv, Ordered, FailsOnlyWhenOvertaken
<1> QED
    BY <1>1, OrderInvariant, PTL
=============================================================================
