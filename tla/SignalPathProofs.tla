---------------------------- MODULE SignalPathProofs ----------------------------
(***************************************************************************)
(* Proofs about SignalPath for any number of signals, ports, threads,      *)
(* calls and connections, and any choice of the methods a thread calls     *)
(* (the theorem on descriptors: with one thread that acquires).            *)
(***************************************************************************)
EXTENDS SignalPath, FiniteSetTheorems, SequenceTheorems, TLAPS

---------------------------------------------------------------------------------
(***************************************************************************)
(* Types.  What a call holds at each of its stages.                        *)
(***************************************************************************)
Made == [signal : Signals, port : Ports, log : Seq(Packet)]
Fates == {"made", "failed", "dropped", "connected"}

CallOK(k, n) ==
    /\ k \in Call
    /\ k.c \in 0 .. n
    /\ \A i \in DOMAIN k.todo : k.todo[i] \in 1 .. n
    /\ k.at = "idle" => k = Idle
    /\ k.at \in {"push", "old", "tell"} => k.todo # << >>
    /\ k.at \in {"port", "listener", "register", "describe"} => k.method = "connect"
    /\ k.at \in {"enqueue", "push"} => k.method \in {"sendPacket", "setDescriptor", "connect"}
    /\ k.at \in {"read", "announce"} => k.method = "setDescriptor"
    /\ k.at \in {"clear", "forget"} => k.method = "removeSignal"
    /\ k.at \in {"unref", "ref"} => k.method = "setDomainSignal"
    /\ k.at = "old" => k.method \in {"connect", "removePort"}
    /\ k.at = "tell" => k.method = "disconnect"
    /\ k.method = "connect" => k.c # 0 /\ k.s \in Signals /\ k.p \in Ports
    /\ k.method \in {"disconnect", "removePort"} => k.p \in Ports
    /\ k.method \in {"sendPacket", "setDescriptor", "removeSignal"} => k.s \in Signals
    /\ k.method = "setDomainSignal" =>
           k.s \in ValueSignals /\ \A i \in DOMAIN k.rest : k.rest[i] \in DomainSignals
    /\ k.method \in {"setDescriptor", "removeSignal"} =>
           \A i \in DOMAIN k.rest : k.rest[i] \in ValueSignals

TreeTypes ==
    /\ owner \in [Components -> Threads \cup {None}]
    /\ active \in [Components -> BOOLEAN]
    /\ isComponentRemoved \in [Components -> BOOLEAN]
    /\ dataDescriptor \in [Signals -> Descriptors]
    /\ domainSignal \in [Signals -> DomainSignals \cup {None}]
    /\ \A d \in DomainSignals : domainSignal[d] = None
    /\ domainSignalReferences \in [Signals -> SUBSET ValueSignals]

ConnectionTypes ==
    /\ made \in Seq(Made)
    /\ fate \in Seq(Fates) /\ Len(fate) = Len(made)
    /\ connections \in [Signals -> Seq(Nat)]
    /\ \A s \in Signals : \A i \in DOMAIN connections[s] : connections[s][i] \in 1 .. Len(made)
    /\ connectionRef \in [Ports -> 0 .. Len(made)]
    /\ raced \subseteq 1 .. Len(made) /\ misled \subseteq 1 .. Len(made)
    /\ unheard \subseteq Ports /\ listener \in [Ports -> BOOLEAN]

ThreadTypes ==
    /\ thread \in [Threads -> Call]
    /\ \A t \in Threads : CallOK(thread[t], Len(made))
    /\ calls \in [Threads -> Nat]

PathTypes == TreeTypes /\ ConnectionTypes /\ ThreadTypes

(* A set in some order is a sequence of its elements.                      *)
LEMMA InSequenceType ==
    ASSUME NEW S, IsFiniteSet(S)
    PROVE  InSequence(S) \in Seq(S) /\ \A x \in S : ListedIn(x, InSequence(S))
<1>1. /\ Cardinality(S) \in Nat
      /\ \E f : f \in [1 .. Cardinality(S) -> S] /\ \A x \in S : \E i \in 1 .. Cardinality(S) : f[i] = x
  <2>1. Cardinality(S) \in Nat
      BY FS_CardinalityType
  <2>2. \E f : f \in Bijection(1 .. Cardinality(S), S)
      BY FS_CardinalityType, Zenon DEF ExistsBijection
  <2>3. PICK f : f \in Bijection(1 .. Cardinality(S), S)
      BY <2>2
  <2>4. f \in [1 .. Cardinality(S) -> S] /\ \A x \in S : \E i \in 1 .. Cardinality(S) : f[i] = x
      BY <2>3 DEF Bijection, Injection, Surjection
  <2> QED
      BY <2>1, <2>4
<1>2. \E q \in [1 .. Cardinality(S) -> S] : \A x \in S : \E i \in DOMAIN q : q[i] = x
    BY <1>1
<1>3. /\ InSequence(S) \in [1 .. Cardinality(S) -> S]
      /\ \A x \in S : \E i \in DOMAIN InSequence(S) : InSequence(S)[i] = x
    BY <1>2 DEF InSequence
<1>4. InSequence(S) \in Seq(S)
    BY <1>1, <1>3
<1> QED
    BY <1>3, <1>4 DEF ListedIn

(* The references of a domain signal, in the order they are visited.       *)
LEMMA ReferencesInSequence ==
    ASSUME TreeTypes, NEW s \in Signals
    PROVE  /\ InSequence(domainSignalReferences[s]) \in Seq(Signals)
           /\ \A i \in DOMAIN InSequence(domainSignalReferences[s]) :
                  InSequence(domainSignalReferences[s])[i] \in ValueSignals
<1>1. domainSignalReferences[s] \subseteq ValueSignals
    BY DEF TreeTypes
<1>2. IsFiniteSet(domainSignalReferences[s])
    BY <1>1, SignalPathAssumption, FS_Subset
<1>3. InSequence(domainSignalReferences[s]) \in Seq(domainSignalReferences[s])
    BY <1>2, InSequenceType
<1>4. PICK q, S : q = InSequence(domainSignalReferences[s]) /\ q \in Seq(S) /\ S \subseteq ValueSignals
    BY <1>1, <1>3
<1>5. q \in Seq(Signals) /\ \A i \in DOMAIN q : q[i] \in ValueSignals
    BY <1>4 DEF Signals
<1> QED
    BY <1>4, <1>5

(* A connection that was found is taken out of the list, all others stay.  *)
LEMMA ErasedType ==
    ASSUME NEW q \in Seq(Nat), NEW c
    PROVE  /\ Erased(q, c) \in Seq(Nat)
           /\ \A i \in DOMAIN Erased(q, c) : \E j \in DOMAIN q : Erased(q, c)[i] = q[j]
<1>1. CASE ~ListedIn(c, q)
    BY <1>1 DEF Erased
<1>2. CASE ListedIn(c, q)
  <2>1. PICK found : Erased(q, c) = [i \in 1 .. Len(q) - 1 |-> IF i < found THEN q[i] ELSE q[i + 1]]
      BY <1>2 DEF Erased
  <2>2. Len(q) \in Nat \ {0} /\ DOMAIN q = 1 .. Len(q) /\ Len(q) - 1 \in Nat
      BY <1>2 DEF ListedIn
  <2>3. \A i \in 1 .. Len(q) - 1 : /\ i \in DOMAIN q /\ i + 1 \in DOMAIN q
                                   /\ q[i] \in Nat /\ q[i + 1] \in Nat
      BY <2>2
  <2>4. \A i \in 1 .. Len(q) - 1 : /\ Erased(q, c)[i] = IF i < found THEN q[i] ELSE q[i + 1]
                                   /\ Erased(q, c)[i] \in Nat
      BY <2>1, <2>3
  <2>5. DOMAIN Erased(q, c) = 1 .. Len(q) - 1
      BY <2>1
  <2>6. Erased(q, c) \in [1 .. Len(q) - 1 -> Nat]
      BY <2>1, <2>3
  <2>7. Erased(q, c) \in Seq(Nat)
      BY <2>2, <2>6
  <2> QED
      BY <2>3, <2>4, <2>5, <2>7
<1> QED
    BY <1>1, <1>2

---------------------------------------------------------------------------------
(***************************************************************************)
(* Each step keeps the types: first the call of the thread that takes it.  *)
(***************************************************************************)
Moves(t) == \E k : thread' = [thread EXCEPT ![t] = k] /\ CallOK(k, Len(made'))

(* The step of one thread.                                                 *)
LEMMA ThreadStep ==
    ASSUME ThreadTypes, NEW t \in Threads, Moves(t),
           Len(made) \in Nat, Len(made') \in Nat, Len(made') >= Len(made),
           calls' \in [Threads -> Nat]
    PROVE  ThreadTypes'
<1>1. PICK k : thread' = [thread EXCEPT ![t] = k] /\ CallOK(k, Len(made'))
    BY DEF Moves
<1>2. \A u \in Threads : CallOK(thread[u], Len(made'))
    BY DEF ThreadTypes, CallOK
<1>3. thread' \in [Threads -> Call]
    BY <1>1 DEF ThreadTypes, CallOK
<1>4. \A u \in Threads : CallOK(thread'[u], Len(made'))
    BY <1>1, <1>2 DEF ThreadTypes
<1> QED
    BY <1>3, <1>4 DEF ThreadTypes

(* What a call that has not begun holds.                                   *)
LEMMA IdleFields ==
    /\ Idle \in Call /\ Idle.method = "none" /\ Idle.at = "idle" /\ Idle.s = None /\ Idle.p = None
    /\ Idle.c = 0 /\ Idle.todo = << >> /\ Idle.rest = << >>
BY DEF Idle, Call, Stages, Packet, NoPacket, DescriptorChanged, Params

(* A thread without a call is in order.                                    *)
LEMMA IdleOK == \A n \in Nat : CallOK(Idle, n)
BY IdleFields DEF CallOK

(* A call that begins is counted.                                          *)
LEMMA BeginType ==
    ASSUME ThreadTypes, NEW t \in Threads, NEW m, Begin(t, m)
    PROVE  calls' \in [Threads -> Nat] /\ thread[t] = Idle
BY DEF ThreadTypes, Begin

(* A call that lists its connections for enqueueing.                       *)
LEMMA EnqueuingOK ==
    ASSUME NEW n \in Nat, NEW k, CallOK(k, n), NEW q \in Seq(Nat), NEW x \in Packet,
           \A i \in DOMAIN q : q[i] \in 1 .. n,
           k.method \in {"sendPacket", "setDescriptor", "connect"}
    PROVE  CallOK(Enqueuing(k, q, x), n)
BY DEF CallOK, Enqueuing, Call, Stages

(* Packets made from the descriptors of signals are packets.               *)
LEMMA PacketTypes ==
    ASSUME PathTypes
    PROVE  /\ \A s \in Signals \cup {None} : DescriptorOf(s) \in Params
           /\ \A s \in Signals : dataDescriptor[s] \in Params /\ domainSignal[s] \in Signals \cup {None}
           /\ {"same", "null"} \subseteq Params
           /\ \A v, d \in Params : Data(v, d) \in Packet /\ DescriptorChanged(v, d) \in Packet
           /\ \A x \in Descriptors : x \in Params
BY DEF PathTypes, TreeTypes, DescriptorOf, Params, Data, DescriptorChanged, Packet, Signals

(* What is known of the call of a thread.                                  *)
LEMMA CallFields ==
    ASSUME PathTypes, NEW t \in Threads
    PROVE  /\ thread[t] \in Call /\ CallOK(thread[t], Len(made)) /\ Len(made) \in Nat
           /\ thread[t].todo \in Seq(Nat) /\ thread[t].rest \in Seq(Signals)
           /\ thread[t].packet \in Packet
           /\ thread[t].todo # << >> =>
                /\ Tail(thread[t].todo) \in Seq(Nat) /\ Head(thread[t].todo) \in 1 .. Len(made)
                /\ \A i \in DOMAIN Tail(thread[t].todo) : Tail(thread[t].todo)[i] \in 1 .. Len(made)
           /\ thread[t].rest # << >> =>
                /\ Tail(thread[t].rest) \in Seq(Signals) /\ Head(thread[t].rest) \in Signals
                /\ \A S : (\A i \in DOMAIN thread[t].rest : thread[t].rest[i] \in S)
                       => /\ Head(thread[t].rest) \in S
                          /\ \A i \in DOMAIN Tail(thread[t].rest) : Tail(thread[t].rest)[i] \in S
<1>1. thread[t] \in Call /\ CallOK(thread[t], Len(made)) /\ Len(made) \in Nat
    BY DEF PathTypes, ThreadTypes, ConnectionTypes
<1>2. PICK q, r : q = thread[t].todo /\ r = thread[t].rest /\ q \in Seq(Nat) /\ r \in Seq(Signals)
                  /\ thread[t].packet \in Packet
    BY <1>1 DEF Call
<1>3. \A i \in DOMAIN q : q[i] \in 1 .. Len(made)
    BY <1>1, <1>2 DEF CallOK
<1>4. q # << >> => /\ Tail(q) \in Seq(Nat) /\ Head(q) \in 1 .. Len(made)
                   /\ \A i \in DOMAIN Tail(q) : Tail(q)[i] \in 1 .. Len(made)
    BY <1>2, <1>3
<1>5. r # << >> => /\ Tail(r) \in Seq(Signals) /\ Head(r) \in Signals
                   /\ \A S : (\A i \in DOMAIN r : r[i] \in S)
                       => /\ Head(r) \in S
                          /\ \A i \in DOMAIN Tail(r) : Tail(r)[i] \in S
    BY <1>2
<1> QED
    BY <1>1, <1>2, <1>4, <1>5

(* The connections made: one is added, or the log of one grows.            *)
LEMMA MadeStep ==
    ASSUME PathTypes, NEW t \in Threads, NewCall(t) \/ Continue(t)
    PROVE  made' \in Seq(Made) /\ Len(made') \in Nat /\ Len(made') >= Len(made)
<1>0. made \in Seq(Made) /\ Len(made) \in Nat
    BY DEF PathTypes, ConnectionTypes
<1>1. CASE \E p \in Ports, s \in Signals : Connect(t, p, s)
  <2>1. PICK p \in Ports, s \in Signals :
            made' = Append(made, [signal |-> s, port |-> p, log |-> << >>])
      BY <1>1 DEF Connect
  <2>2. [signal |-> s, port |-> p, log |-> << >>] \in Made
      BY DEF Made
  <2> QED
      BY <1>0, <2>1, <2>2
<1>2. CASE EnqueuePush(t)
  <2>1. PICK c, x : /\ c \in 1 .. Len(made) /\ x \in Packet
                    /\ made' = [made EXCEPT ![c].log = Append(@, x)]
    <3>1. thread[t].todo # << >>
        BY <1>2, CallFields DEF EnqueuePush, CallOK
    <3> QED
        BY <1>2, <3>1, CallFields DEF EnqueuePush
  <2>2. PICK m : m = made[c] /\ m \in Made
      BY <1>0, <2>1
  <2>3. PICK log : log = Append(m.log, x) /\ log \in Seq(Packet)
      BY SMTT(40), <2>1, <2>2 DEF Made
  <2>4a. [m EXCEPT !.log = log] \in Made
      BY <2>2, <2>3 DEF Made
  <2>4. PICK z : z = [m EXCEPT !.log = log] /\ z \in Made
      BY <2>4a
  <2>5. made' = [made EXCEPT ![c] = z]
      BY <2>1, <2>2, <2>3, <2>4
  <2>6. [made EXCEPT ![c] = z] \in Seq(Made) /\ Len([made EXCEPT ![c] = z]) = Len(made)
      BY <1>0, <2>1, <2>4, ExceptSeq
  <2> QED
      BY <1>0, <2>5, <2>6
<1>3. CASE made' = made
    BY <1>0, <1>3
<1>4. \/ \E p \in Ports, s \in Signals : Connect(t, p, s)
      \/ EnqueuePush(t)
      \/ made' = made
    BY DEF NewCall, Continue, SendPacket, SetDescriptor, Disconnect, RemovePort, RemoveSignal,
           SetActive, SetDomainSignal, EnqueueCheckActive, SendPacketEnd, SetDescriptorUnlock,
           SetDescriptorRead, SetDescriptorAnnounce, SetDescriptorNext, SetDescriptorEnd,
           ConnectPort, ConnectOld, ConnectListener, ConnectRegister, ConnectDescribe, ConnectEnd,
           DisconnectTell, RemovePortOld, RemoveSignalDisconnect, RemoveSignalClear,
           RemoveSignalForget, RemoveSignalEnd, SetDomainSignalUnref, SetDomainSignalRef
<1> QED
    BY <1>1, <1>2, <1>3, <1>4

(* The weak reference of a port gives a connection that was made, or none. *)
LEMMA RefType ==
    ASSUME PathTypes, NEW p \in Ports
    PROVE  GetConnectionNoLock(p) \in 0 .. Len(made) /\ connectionRef[p] \in 0 .. Len(made)
BY CallFields DEF PathTypes, ConnectionTypes, GetConnectionNoLock

(* A call as the record of its fields.                                     *)
LEMMA CallRecord ==
    ASSUME NEW j, NEW m \in Methods, NEW a \in Stages, NEW s \in Signals \cup {None},
           NEW p \in Ports \cup {None}, NEW c \in Nat, NEW q \in Seq(Nat), NEW r \in Seq(Signals),
           NEW x \in Packet,
           j = [method |-> m, at |-> a, s |-> s, p |-> p, c |-> c, todo |-> q, rest |-> r, packet |-> x]
    PROVE  /\ j \in Call /\ j.method = m /\ j.at = a /\ j.s = s /\ j.p = p /\ j.c = c
           /\ j.todo = q /\ j.rest = r /\ j.packet = x
BY DEF Call

(* A call that has begun is one the thread may be in.                      *)
LEMMA NewCallMoves ==
    ASSUME PathTypes, NEW t \in Threads, NewCall(t)
    PROVE  Moves(t) /\ calls' \in [Threads -> Nat]
<1>0. /\ Len(made) \in Nat /\ thread \in [Threads -> Call] /\ Len(made') \in Nat /\ Len(made') >= Len(made)
      /\ None \notin Ports /\ NoPacket \in Packet
      /\ ThreadTypes
    BY MadeStep, SignalPathAssumption DEF PathTypes, ThreadTypes, ConnectionTypes, Components,
           NoPacket, Packet, Params, DescriptorChanged
<1>1. calls' \in [Threads -> Nat] /\ thread[t] = Idle
    BY <1>0, BeginType DEF NewCall, SendPacket, SetDescriptor, Connect, Disconnect, RemovePort,
           RemoveSignal, SetActive, SetDomainSignal
<1>2. \A n \in Nat : CallOK(Idle, n)
    BY IdleOK
<1>3. \A s \in Signals : /\ connections[s] \in Seq(Nat)
                         /\ \A i \in DOMAIN connections[s] : connections[s][i] \in 1 .. Len(made)
    BY DEF PathTypes, ConnectionTypes
<1>4. ASSUME NEW s \in Signals, SendPacket(t, s) PROVE Moves(t)
  <2>0. PICK x \in Packet : x = Data(dataDescriptor[s], DescriptorOf(domainSignal[s]))
      BY PacketTypes
  <2>1. PICK j : j = [[Idle EXCEPT !.method = "sendPacket", !.s = s] EXCEPT !.at = "enqueue", !.todo = connections[s], !.packet = x]
      OBVIOUS
  <2>2. thread' = [thread EXCEPT ![t] = j] /\ Len(made') = Len(made)
      BY <1>0, <1>4, <2>0, <2>1 DEF SendPacket, Enqueuing, Goto
  <2>3. /\ j \in Call /\ j.method = "sendPacket" /\ j.at = "enqueue" /\ j.s = s /\ j.p = None
        /\ j.c = 0 /\ j.todo = connections[s] /\ j.rest = << >>
      BY <1>0, <1>3, <2>0, <2>1, IdleFields DEF Call, Stages, Methods, Signals
  <2>4. CallOK(j, Len(made))
      BY <1>0, <1>3, <2>0, <2>3 DEF CallOK, Signals
  <2> QED
      BY <2>2, <2>4 DEF Moves
<1>5. ASSUME NEW s \in Signals, NEW y \in Descriptors, SetDescriptor(t, s, y) PROVE Moves(t)
  <2>0. PICK x \in Packet : x = DescriptorChanged(y, "same")
      BY PacketTypes
  <2>1. PICK j : j = [[Idle EXCEPT !.method = "setDescriptor", !.s = s] EXCEPT !.at = "enqueue", !.todo = connections[s], !.packet = x]
      OBVIOUS
  <2>2. thread' = [thread EXCEPT ![t] = j] /\ Len(made') = Len(made)
      BY <1>0, <1>5, <2>0, <2>1 DEF SetDescriptor, Enqueuing, Goto
  <2>3. /\ j \in Call /\ j.method = "setDescriptor" /\ j.at = "enqueue" /\ j.s = s /\ j.p = None
        /\ j.c = 0 /\ j.todo = connections[s] /\ j.rest = << >>
      BY <1>0, <1>3, <2>0, <2>1, IdleFields DEF Call, Stages, Methods, Signals
  <2>4. CallOK(j, Len(made))
      BY <1>0, <1>3, <2>0, <2>3 DEF CallOK, Signals
  <2> QED
      BY <2>2, <2>4 DEF Moves
<1>6. ASSUME NEW p \in Ports, NEW s \in Signals, Connect(t, p, s) PROVE Moves(t)
  <2>0. PICK c \in Nat : c = Len(made) + 1
      BY <1>0
  <2>1. PICK j : j = [Idle EXCEPT !.method = "connect", !.at = "port", !.s = s, !.p = p, !.c = c]
      OBVIOUS
  <2>2. thread' = [thread EXCEPT ![t] = j] /\ Len(made') = c
      BY <1>0, <1>6, <2>0, <2>1 DEF Connect, Goto, PathTypes, ConnectionTypes
  <2>3. /\ j.method = "connect" /\ j.at = "port" /\ j.s = s /\ j.p = p
        /\ j.c = c /\ j.todo = << >> /\ j.rest = << >>
      BY <2>1, IdleFields DEF Call
  <2>4. j \in Call
      BY <2>1, IdleFields DEF Call, Stages, Methods
  <2>5. CallOK(j, c)
      BY <1>0, <2>0, <2>3, <2>4 DEF CallOK
  <2> QED
      BY <2>2, <2>5 DEF Moves
<1>7. ASSUME NEW p \in Ports, Disconnect(t, p) PROVE Moves(t)
  <2>0. PICK c \in 1 .. Len(made) : c = GetConnectionNoLock(p)
      BY <1>0, <1>7, RefType DEF Disconnect
  <2>1. PICK j : j = [Idle EXCEPT !.method = "disconnect", !.at = "tell", !.p = p, !.todo = <<c>>]
      OBVIOUS
  <2>2. thread' = [thread EXCEPT ![t] = j] /\ Len(made') = Len(made)
      BY <1>0, <1>7, <2>0, <2>1 DEF Disconnect, Goto
  <2>3. /\ j.method = "disconnect" /\ j.at = "tell" /\ j.s = None /\ j.p = p
        /\ j.c = 0 /\ j.todo = <<c>> /\ j.rest = << >>
      BY <2>1, IdleFields DEF Call
  <2>4. <<c>> \in Seq(Nat)
      BY <1>0, <2>0
  <2>5. j \in Call
      BY <2>1, <2>4, IdleFields DEF Call, Stages, Methods
  <2>6. CallOK(j, Len(made))
      BY <1>0, <2>0, <2>3, <2>5 DEF CallOK
  <2> QED
      BY <2>2, <2>6 DEF Moves
<1>8. ASSUME NEW p \in Ports, RemovePort(t, p) PROVE Moves(t)
  <2>1. CASE GetConnectionNoLock(p) = 0
    <3>1. thread' = thread /\ made' = made
        BY <1>8, <2>1 DEF RemovePort
    <3>2. thread' = [thread EXCEPT ![t] = Idle]
        BY <1>0, <1>1, <3>1
    <3> QED
        BY <1>0, <1>2, <3>1, <3>2 DEF Moves
  <2>2. CASE GetConnectionNoLock(p) # 0
    <3>0. PICK c \in 1 .. Len(made) : c = GetConnectionNoLock(p)
        BY <1>0, <2>2, RefType
    <3>1. PICK j : j = [method |-> "removePort", at |-> "old", s |-> None, p |-> p, c |-> 0,
                       todo |-> <<c>>, rest |-> << >>, packet |-> NoPacket]
        OBVIOUS
    <3>2. thread' = [thread EXCEPT ![t] = j] /\ Len(made') = Len(made)
        BY <1>0, <1>8, <2>2, <3>0, <3>1 DEF RemovePort, Goto, Idle
    <3>3. /\ j \in Call /\ j.method = "removePort" /\ j.at = "old" /\ j.s = None /\ j.p = p
          /\ j.c = 0 /\ j.todo = <<c>> /\ j.rest = << >>
        BY <1>0, <1>3, <2>2, <3>0, <3>1 DEF Call, Stages, Methods, Signals
    <3>4. CallOK(j, Len(made))
        BY <1>0, <1>3, <2>2, <3>0, <3>3 DEF CallOK, Signals
    <3> QED
        BY <3>2, <3>4 DEF Moves
  <2> QED
      BY <2>1, <2>2
<1>9. ASSUME NEW s \in Signals, RemoveSignal(t, s) PROVE Moves(t)
  <2>1. PICK j : j = [Idle EXCEPT !.method = "removeSignal", !.at = "clear", !.s = s, !.todo = connections[s]]
      OBVIOUS
  <2>2. thread' = [thread EXCEPT ![t] = j] /\ Len(made') = Len(made)
      BY <1>0, <1>9, <2>1 DEF RemoveSignal, Goto
  <2>3. /\ j \in Call /\ j.method = "removeSignal" /\ j.at = "clear" /\ j.s = s /\ j.p = None
        /\ j.c = 0 /\ j.todo = connections[s] /\ j.rest = << >>
      BY <1>0, <1>3, <2>1, IdleFields DEF Call, Stages, Methods, Signals
  <2>4. CallOK(j, Len(made))
      BY <1>0, <1>3, <2>3 DEF CallOK, Signals
  <2> QED
      BY <2>2, <2>4 DEF Moves
<1>10. ASSUME NEW x \in Components, SetActive(t, x) PROVE Moves(t)
  <2>1. thread' = thread /\ made' = made
      BY <1>10 DEF SetActive
  <2>2. thread' = [thread EXCEPT ![t] = Idle]
      BY <1>0, <1>1, <2>1
  <2> QED
      BY <1>0, <1>2, <2>1, <2>2 DEF Moves
<1>11. ASSUME NEW s \in ValueSignals, NEW d \in DomainSignals \cup {None}, SetDomainSignal(t, s, d) PROVE Moves(t)
  <2>0. PICK r \in Seq(Signals) : /\ r = IF d = None THEN << >> ELSE <<d>>
                                  /\ \A i \in DOMAIN r : r[i] \in DomainSignals
    <3>1. CASE d = None
      <4>1. << >> \in Seq(Signals) /\ \A i \in DOMAIN << >> : << >>[i] \in DomainSignals
          OBVIOUS
      <4> QED
          BY <3>1, <4>1, Zenon
    <3>2. CASE d # None
      <4>1. d \in DomainSignals /\ d \in Signals
          BY <3>2 DEF Signals
      <4>2. <<d>> \in Seq(Signals) /\ \A i \in DOMAIN <<d>> : <<d>>[i] \in DomainSignals
          BY <4>1
      <4> QED
          BY <3>2, <4>2
    <3> QED
        BY <3>1, <3>2
  <2>1. PICK j : j = [Idle EXCEPT !.method = "setDomainSignal", !.at = "unref", !.s = s, !.rest = r]
      OBVIOUS
  <2>2. thread' = [thread EXCEPT ![t] = j] /\ Len(made') = Len(made)
      BY <1>0, <1>11, <2>0, <2>1 DEF SetDomainSignal, Goto
  <2>3. /\ j \in Call /\ j.method = "setDomainSignal" /\ j.at = "unref" /\ j.s = s /\ j.p = None
        /\ j.c = 0 /\ j.todo = << >> /\ j.rest = r
      BY <1>0, <1>3, <2>0, <2>1, IdleFields DEF Call, Stages, Methods, Signals
  <2>4. CallOK(j, Len(made))
      BY <1>0, <1>3, <2>0, <2>3 DEF CallOK, Signals
  <2> QED
      BY <2>2, <2>4 DEF Moves
<1> QED
    BY <1>1, <1>4, <1>5, <1>6, <1>7, <1>8, <1>9, <1>10, <1>11, Zenon DEF NewCall

(* A call goes on to a stage it may be in.                                 *)
LEMMA ContinueMoves ==
    ASSUME PathTypes, NEW t \in Threads, Continue(t)
    PROVE  Moves(t) /\ calls' \in [Threads -> Nat]
<1>0. /\ Len(made) \in Nat /\ thread \in [Threads -> Call] /\ calls \in [Threads -> Nat]
      /\ \A n \in Nat : CallOK(Idle, n)
    BY IdleOK DEF PathTypes, ThreadTypes, ConnectionTypes
<1>1. calls' = calls /\ (made' = made \/ EnqueuePush(t))
    BY DEF Continue, EnqueueCheckActive, EnqueuePush, SendPacketEnd, SetDescriptorUnlock,
           SetDescriptorRead, SetDescriptorAnnounce, SetDescriptorNext, SetDescriptorEnd,
           ConnectPort, ConnectOld, ConnectListener, ConnectRegister, ConnectDescribe, ConnectEnd,
           DisconnectTell, RemovePortOld, RemoveSignalDisconnect, RemoveSignalClear,
           RemoveSignalForget, RemoveSignalEnd, SetDomainSignalUnref, SetDomainSignalRef
<1>2. PICK n \in Nat : n = Len(made) /\ n = Len(made')
  <2>1. ASSUME EnqueuePush(t) PROVE Len(made') = Len(made)
    <3>1. PICK c, x : made' = [made EXCEPT ![c].log = Append(@, x)]
        BY <2>1 DEF EnqueuePush
    <3>2. DOMAIN made' = DOMAIN made /\ made' \in Seq(Made) /\ made \in Seq(Made)
        BY <3>1, MadeStep DEF PathTypes, ConnectionTypes
    <3>3. DOMAIN made = 1 .. Len(made) /\ DOMAIN made' = 1 .. Len(made') /\ Len(made') \in Nat
        BY <3>2
    <3> QED
        BY <1>0, <3>2, <3>3
  <2> QED
      BY <1>0, <1>1, <2>1
<1>3. PICK k \in Call : k = thread[t] /\ CallOK(k, n)
    BY <1>2, CallFields
<1>4. /\ k.todo \in Seq(Nat) /\ k.rest \in Seq(Signals) /\ k.packet \in Packet
      /\ k.todo # << >> => /\ Tail(k.todo) \in Seq(Nat) /\ Head(k.todo) \in 1 .. n
                           /\ \A i \in DOMAIN Tail(k.todo) : Tail(k.todo)[i] \in 1 .. n
      /\ k.rest # << >> =>
            /\ Tail(k.rest) \in Seq(Signals) /\ Head(k.rest) \in Signals
            /\ \A S : (\A i \in DOMAIN k.rest : k.rest[i] \in S)
                       => /\ Head(k.rest) \in S
                          /\ \A i \in DOMAIN Tail(k.rest) : Tail(k.rest)[i] \in S
    BY <1>2, <1>3, CallFields
<1>5. ASSUME NEW j, thread' = [thread EXCEPT ![t] = j], CallOK(j, n)
      PROVE  Moves(t)
    BY <1>2, <1>5 DEF Moves
<1>6. ASSUME Return(t) PROVE Moves(t)
    BY <1>0, <1>5, <1>6 DEF Return, Goto
<1>7. \A s \in Signals : /\ connections[s] \in Seq(Nat)
                         /\ \A i \in DOMAIN connections[s] : connections[s][i] \in 1 .. n
    BY <1>2 DEF PathTypes, ConnectionTypes
<1>8. ASSUME EnqueueCheckActive(t) PROVE Moves(t)
  <2>1. /\ k.at = "enqueue" /\ k.todo # << >>
        /\ \/ thread' = [thread EXCEPT ![t] = [k EXCEPT !.at = "push"]]
           \/ thread' = [thread EXCEPT ![t] = [k EXCEPT !.todo = Tail(k.todo)]]
      BY <1>3, <1>8 DEF EnqueueCheckActive, Goto
  <2>2. CallOK([k EXCEPT !.at = "push"], n)
      BY <1>3, <2>1 DEF CallOK, Call, Stages
  <2>3. CallOK([k EXCEPT !.todo = Tail(k.todo)], n)
      BY <1>3, <1>4, <2>1 DEF CallOK, Call
  <2> QED
      BY <1>5, <2>1, <2>2, <2>3
<1>9. ASSUME EnqueuePush(t) PROVE Moves(t)
  <2>1. PICK j : j = [k EXCEPT !.at = "enqueue", !.todo = Tail(k.todo)]
      OBVIOUS
  <2>2. thread' = [thread EXCEPT ![t] = j] /\ k.at = "push"
      BY <1>3, <1>9, <2>1 DEF EnqueuePush, Goto
  <2>3. CallOK(j, n)
      BY <1>2, <1>3, <1>4, <2>1, <2>2 DEF CallOK, Call, Stages
  <2> QED
      BY <1>5, <2>2, <2>3
<1>10. ASSUME SendPacketEnd(t) PROVE Moves(t)
    BY <1>6, <1>10 DEF SendPacketEnd
<1>11. ASSUME SetDescriptorUnlock(t) PROVE Moves(t)
  <2>0. /\ k.s \in Signals /\ k.method = "setDescriptor"
        /\ InSequence(domainSignalReferences[k.s]) \in Seq(Signals)
        /\ \A i \in DOMAIN InSequence(domainSignalReferences[k.s]) :
               InSequence(domainSignalReferences[k.s])[i] \in ValueSignals
    <3>1. k.s \in Signals /\ k.method = "setDescriptor"
        BY <1>3, <1>11 DEF SetDescriptorUnlock, CallOK
    <3> QED
        BY <3>1, ReferencesInSequence DEF PathTypes
  <2>1. PICK j : j = [k EXCEPT !.at = "read", !.rest = InSequence(domainSignalReferences[k.s])]
      OBVIOUS
  <2>2. thread' = [thread EXCEPT ![t] = j]
      BY <1>3, <1>11, <2>0, <2>1 DEF SetDescriptorUnlock, Goto
  <2>3. CallOK(j, n)
      BY <1>2, <1>3, <1>4, <2>0, <2>1, <2>2 DEF CallOK, Call, Stages
  <2> QED
      BY <1>5, <2>2, <2>3
<1>12. ASSUME SetDescriptorRead(t) PROVE Moves(t)
  <2>0. PICK x \in Packet : x = DescriptorChanged("same", dataDescriptor[k.s])
    <3>1. k.s \in Signals
        BY <1>3, <1>12 DEF SetDescriptorRead, CallOK
    <3> QED
        BY <3>1, PacketTypes
  <2>1. PICK j : j = [k EXCEPT !.at = "announce", !.packet = x]
      OBVIOUS
  <2>2. thread' = [thread EXCEPT ![t] = j] /\ k.at = "read"
      BY <1>3, <1>12, <2>0, <2>1 DEF SetDescriptorRead, Goto
  <2>3. CallOK(j, n)
      BY <1>2, <1>3, <1>4, <2>0, <2>1, <2>2 DEF CallOK, Call, Stages
  <2> QED
      BY <1>5, <2>2, <2>3
<1>13. ASSUME SetDescriptorAnnounce(t) PROVE Moves(t)
  <2>0. PICK q \in Seq(Nat) : /\ \A i \in DOMAIN q : q[i] \in 1 .. n
                              /\ q = IF active[Head(k.rest)] THEN connections[Head(k.rest)] ELSE << >>
    <3>1. Head(k.rest) \in Signals
        BY <1>3, <1>4, <1>13 DEF SetDescriptorAnnounce
    <3>2. << >> \in Seq(Nat) /\ \A i \in DOMAIN << >> : << >>[i] \in 1 .. n
        OBVIOUS
    <3> QED
        BY <1>7, <3>1, <3>2
  <2>1. PICK j : j = [[k EXCEPT !.at = "enqueue", !.todo = q, !.packet = k.packet] EXCEPT !.rest = Tail(k.rest)]
      OBVIOUS
  <2>2. thread' = [thread EXCEPT ![t] = j] /\ k.at = "announce" /\ k.rest # << >>
      BY <1>3, <1>13, <2>0, <2>1 DEF SetDescriptorAnnounce, Goto, Enqueuing
  <2>3. CallOK(j, n)
      BY ZenonT(40), <1>2, <1>3, <1>4, <2>0, <2>1, <2>2 DEF CallOK, Call, Stages
  <2> QED
      BY <1>5, <2>2, <2>3
<1>14. ASSUME SetDescriptorNext(t) PROVE Moves(t)
  <2>1. PICK j : j = [k EXCEPT !.at = "announce"]
      OBVIOUS
  <2>2. thread' = [thread EXCEPT ![t] = j] /\ k.method = "setDescriptor"
      BY <1>3, <1>14, <2>1 DEF SetDescriptorNext, Goto
  <2>3. CallOK(j, n)
      BY <1>2, <1>3, <1>4, <2>1, <2>2 DEF CallOK, Call, Stages
  <2> QED
      BY <1>5, <2>2, <2>3
<1>15. ASSUME SetDescriptorEnd(t) PROVE Moves(t)
    BY <1>6, <1>15 DEF SetDescriptorEnd
<1>16. ASSUME ConnectPort(t) PROVE Moves(t)
  <2>0. k.at = "port" /\ k.p \in Ports
      BY <1>3, <1>16 DEF ConnectPort, CallOK
  <2>1. PICK c : c = GetConnectionNoLock(k.p) /\ c \in 0 .. n
      BY <1>2, <2>0, RefType
  <2>2. \/ Return(t)
        \/ thread' = [thread EXCEPT ![t] = [k EXCEPT !.at = "listener"]]
        \/ thread' = [thread EXCEPT ![t] = [k EXCEPT !.at = "old", !.todo = <<c>>]] /\ c # 0
      BY <1>3, <1>16, <2>1 DEF ConnectPort, Goto
  <2>3. CallOK([k EXCEPT !.at = "listener"], n)
      BY <1>3, <2>0 DEF CallOK, Call, Stages
  <2>4. c # 0 => <<c>> \in Seq(Nat) /\ \A i \in DOMAIN <<c>> : <<c>>[i] \in 1 .. n
      BY <2>1
  <2>5. c # 0 => CallOK([k EXCEPT !.at = "old", !.todo = <<c>>], n)
      BY <1>3, <2>0, <2>4 DEF CallOK, Call, Stages
  <2> QED
      BY <1>5, <1>6, <2>2, <2>3, <2>5
<1>17. ASSUME ConnectOld(t) PROVE Moves(t)
  <2>0. PICK none : none = << >> /\ none \in Seq(Nat)
    <3>1. << >> \in Seq(Nat)
        OBVIOUS
    <3> QED
        BY <3>1, Zenon
  <2>1. PICK j : j = [k EXCEPT !.at = "listener", !.todo = none]
      OBVIOUS
  <2>2. k.method = "connect" /\ (Return(t) \/ thread' = [thread EXCEPT ![t] = j])
      BY <1>3, <1>17, <2>0, <2>1 DEF ConnectOld, Goto
  <2>3a. j \in Call
      BY <1>3, <2>0, <2>1 DEF Call, Stages
  <2>3b. /\ j.method = "connect" /\ j.at = "listener" /\ j.s = k.s /\ j.p = k.p /\ j.c = k.c
         /\ j.todo = << >> /\ j.rest = k.rest
      BY <1>3, <2>0, <2>1, <2>2 DEF Call
  <2>3. CallOK(j, n)
      BY <1>3, <2>2, <2>3a, <2>3b DEF CallOK
  <2> QED
      BY <1>5, <1>6, <2>2, <2>3
<1>18. ASSUME ConnectListener(t) PROVE Moves(t)
  <2>1. PICK j : j = [k EXCEPT !.at = "register"]
      OBVIOUS
  <2>2. k.at = "listener" /\ (Return(t) \/ thread' = [thread EXCEPT ![t] = j])
      BY <1>3, <1>18, <2>1 DEF ConnectListener, Goto
  <2>3. CallOK(j, n)
      BY <1>3, <2>1, <2>2 DEF CallOK, Call, Stages
  <2> QED
      BY <1>5, <1>6, <2>2, <2>3
<1>19. ASSUME ConnectRegister(t) PROVE Moves(t)
  <2>1. PICK j : j = [k EXCEPT !.at = "describe"]
      OBVIOUS
  <2>2. thread' = [thread EXCEPT ![t] = j] /\ k.at = "register"
      BY <1>3, <1>19, <2>1 DEF ConnectRegister, Goto
  <2>3. CallOK(j, n)
      BY <1>2, <1>3, <1>4, <2>1, <2>2 DEF CallOK, Call, Stages
  <2> QED
      BY <1>5, <2>2, <2>3
<1>20. ASSUME ConnectDescribe(t) PROVE Moves(t)
  <2>0a. k.at = "describe" /\ k.s \in Signals /\ k.c \in 1 .. n
      BY <1>3, <1>20 DEF ConnectDescribe, CallOK
  <2>0b. PICK x \in Packet : x = DescriptorChanged(dataDescriptor[k.s], DescriptorOf(domainSignal[k.s]))
      BY <2>0a, PacketTypes
  <2>0c. <<k.c>> \in Seq(Nat) /\ \A i \in DOMAIN <<k.c>> : <<k.c>>[i] \in 1 .. n
      BY <2>0a
  <2>1. PICK j : j = [k EXCEPT !.at = "enqueue", !.todo = <<k.c>>, !.packet = x]
      OBVIOUS
  <2>2. thread' = [thread EXCEPT ![t] = j] /\ k.at = "describe"
      BY <1>3, <1>20, <2>0b, <2>0c, <2>1 DEF ConnectDescribe, Goto, Enqueuing
  <2>3. CallOK(j, n)
      BY <1>2, <1>3, <1>4, <2>0b, <2>0c, <2>1, <2>2 DEF CallOK, Call, Stages
  <2> QED
      BY <1>5, <2>2, <2>3
<1>21. ASSUME ConnectEnd(t) PROVE Moves(t)
    BY <1>6, <1>21 DEF ConnectEnd
<1>22. ASSUME DisconnectTell(t) PROVE Moves(t)
    BY <1>6, <1>22 DEF DisconnectTell
<1>23. ASSUME RemovePortOld(t) PROVE Moves(t)
    BY <1>6, <1>23 DEF RemovePortOld
<1>24. ASSUME RemoveSignalDisconnect(t) PROVE Moves(t)
  <2>1. PICK j : j = [k EXCEPT !.todo = Tail(k.todo)]
      OBVIOUS
  <2>2. thread' = [thread EXCEPT ![t] = j] /\ k.at = "clear" /\ k.todo # << >>
      BY <1>3, <1>24, <2>1 DEF RemoveSignalDisconnect, Goto
  <2>3. CallOK(j, n)
      BY <1>2, <1>3, <1>4, <2>1, <2>2 DEF CallOK, Call, Stages
  <2> QED
      BY <1>5, <2>2, <2>3
<1>25. ASSUME RemoveSignalClear(t) PROVE Moves(t)
  <2>0. /\ k.s \in Signals /\ k.method = "removeSignal"
        /\ InSequence(domainSignalReferences[k.s]) \in Seq(Signals)
        /\ \A i \in DOMAIN InSequence(domainSignalReferences[k.s]) :
               InSequence(domainSignalReferences[k.s])[i] \in ValueSignals
    <3>1. k.s \in Signals /\ k.method = "removeSignal"
        BY <1>3, <1>25 DEF RemoveSignalClear, CallOK
    <3> QED
        BY <3>1, ReferencesInSequence DEF PathTypes
  <2>1. PICK j : j = [k EXCEPT !.at = "forget", !.rest = InSequence(domainSignalReferences[k.s])]
      OBVIOUS
  <2>2. thread' = [thread EXCEPT ![t] = j]
      BY <1>3, <1>25, <2>0, <2>1 DEF RemoveSignalClear, Goto
  <2>3. CallOK(j, n)
      BY <1>2, <1>3, <1>4, <2>0, <2>1, <2>2 DEF CallOK, Call, Stages
  <2> QED
      BY <1>5, <2>2, <2>3
<1>26. ASSUME RemoveSignalForget(t) PROVE Moves(t)
  <2>1. PICK j : j = [k EXCEPT !.rest = Tail(k.rest)]
      OBVIOUS
  <2>2. thread' = [thread EXCEPT ![t] = j] /\ k.at = "forget" /\ k.rest # << >>
      BY <1>3, <1>26, <2>1 DEF RemoveSignalForget, Goto
  <2>3. CallOK(j, n)
      BY <1>2, <1>3, <1>4, <2>1, <2>2 DEF CallOK, Call, Stages
  <2> QED
      BY <1>5, <2>2, <2>3
<1>27. ASSUME RemoveSignalEnd(t) PROVE Moves(t)
    BY <1>6, <1>27 DEF RemoveSignalEnd
<1>28. ASSUME SetDomainSignalUnref(t) PROVE Moves(t)
  <2>1. PICK j : j = [k EXCEPT !.at = "ref"]
      OBVIOUS
  <2>2. thread' = [thread EXCEPT ![t] = j] /\ k.at = "unref"
      BY <1>3, <1>28, <2>1 DEF SetDomainSignalUnref, Goto
  <2>3. CallOK(j, n)
      BY <1>2, <1>3, <1>4, <2>1, <2>2 DEF CallOK, Call, Stages
  <2> QED
      BY <1>5, <2>2, <2>3
<1>29. ASSUME SetDomainSignalRef(t) PROVE Moves(t)
    BY <1>6, <1>29 DEF SetDomainSignalRef
<1> QED
    BY <1>0, <1>1, <1>8, <1>9, <1>10, <1>11, <1>12, <1>13, <1>14, <1>15, <1>16, <1>17, <1>18, <1>19, <1>20, <1>21, <1>22, <1>23, <1>24, <1>25, <1>26, <1>27, <1>28, <1>29, Zenon DEF Continue

---------------------------------------------------------------------------------
(***************************************************************************)
(* The component tree, the signals and the connections.                    *)
(***************************************************************************)

(* Mutexes are taken and given back by the thread that takes the step.     *)
LEMMA OwnerStep ==
    ASSUME PathTypes, NEW t \in Threads, NewCall(t) \/ Continue(t)
    PROVE  owner' \in [Components -> Threads \cup {None}]
<1>1. owner \in [Components -> Threads \cup {None}]
    BY DEF PathTypes, TreeTypes
<1>2. \/ owner' = owner
      \/ \E x : owner' = [owner EXCEPT ![x] = t] \/ owner' = [owner EXCEPT ![x] = None]
    BY DEF NewCall, Continue, SendPacket, SetDescriptor, Connect, Disconnect, RemovePort, RemoveSignal,
           SetActive, SetDomainSignal, EnqueueCheckActive, EnqueuePush, SendPacketEnd, SetDescriptorUnlock,
           SetDescriptorRead, SetDescriptorAnnounce, SetDescriptorNext, SetDescriptorEnd,
           ConnectPort, ConnectOld, ConnectListener, ConnectRegister, ConnectDescribe, ConnectEnd,
           DisconnectTell, RemovePortOld, RemoveSignalDisconnect, RemoveSignalClear,
           RemoveSignalForget, RemoveSignalEnd, SetDomainSignalUnref, SetDomainSignalRef, Take, Release
<1> QED
    BY <1>1, <1>2

(* So are the flags of components.                                         *)
LEMMA FlagsStep ==
    ASSUME PathTypes, NEW t \in Threads, NewCall(t) \/ Continue(t)
    PROVE  active' \in [Components -> BOOLEAN] /\ isComponentRemoved' \in [Components -> BOOLEAN]
<1>1. active \in [Components -> BOOLEAN] /\ isComponentRemoved \in [Components -> BOOLEAN]
    BY DEF PathTypes, TreeTypes
<1>2. /\ active' = active \/ \E x \in Components :
             active' = [active EXCEPT ![x] = ~@] \/ active' = [active EXCEPT ![x] = FALSE]
      /\ isComponentRemoved' = isComponentRemoved \/ \E x \in Components :
             isComponentRemoved' = [isComponentRemoved EXCEPT ![x] = TRUE]
    BY Zenon DEF NewCall, Continue, SendPacket, SetDescriptor, Connect, Disconnect, RemovePort, RemoveSignal,
           SetActive, SetDomainSignal, EnqueueCheckActive, EnqueuePush, SendPacketEnd, SetDescriptorUnlock,
           SetDescriptorRead, SetDescriptorAnnounce, SetDescriptorNext, SetDescriptorEnd,
           ConnectPort, ConnectOld, ConnectListener, ConnectRegister, ConnectDescribe, ConnectEnd,
           DisconnectTell, RemovePortOld, RemoveSignalDisconnect, RemoveSignalClear,
           RemoveSignalForget, RemoveSignalEnd, SetDomainSignalUnref, SetDomainSignalRef, Removed,
           Components, tree
<1> QED
    BY <1>1, <1>2

(* The descriptor and the domain signal of a signal change by themselves;  *)
(* a domain signal never has one.                                          *)
LEMMA SignalStep ==
    ASSUME PathTypes, NEW t \in Threads, NewCall(t) \/ Continue(t)
    PROVE  /\ dataDescriptor' \in [Signals -> Descriptors]
           /\ domainSignal' \in [Signals -> DomainSignals \cup {None}]
           /\ \A d \in DomainSignals : domainSignal'[d] = None
           /\ domainSignalReferences' \in [Signals -> SUBSET ValueSignals]
<1>1. /\ dataDescriptor \in [Signals -> Descriptors]
      /\ domainSignal \in [Signals -> DomainSignals \cup {None}]
      /\ \A d \in DomainSignals : domainSignal[d] = None
      /\ domainSignalReferences \in [Signals -> SUBSET ValueSignals]
      /\ DomainSignals \subseteq Signals /\ ValueSignals \subseteq Signals
      /\ ValueSignals \cap DomainSignals = {}
    BY SignalPathAssumption DEF PathTypes, TreeTypes, Signals
<1>2. CASE \E s \in Signals, x \in Descriptors : SetDescriptor(t, s, x)
    BY <1>1, <1>2 DEF SetDescriptor
<1>3. CASE RemoveSignalForget(t)
  <2>1. PICK v : v \in ValueSignals /\ domainSignal' = [domainSignal EXCEPT ![v] = None]
    <3>1. thread[t].rest # << >> /\ \A i \in DOMAIN thread[t].rest : thread[t].rest[i] \in ValueSignals
        BY <1>3, CallFields DEF RemoveSignalForget, CallOK
    <3>2. Head(thread[t].rest) \in ValueSignals
        BY <3>1, CallFields
    <3> QED
        BY <1>3, <3>2 DEF RemoveSignalForget
  <2> QED
      BY <1>1, <1>3, <2>1 DEF RemoveSignalForget
<1>4. CASE RemoveSignalEnd(t)
    BY <1>1, <1>4 DEF RemoveSignalEnd
<1>5. CASE SetDomainSignalUnref(t)
  <2>1. PICK s, d : /\ s \in ValueSignals /\ d \in DomainSignals \cup {None}
                    /\ domainSignal' = [domainSignal EXCEPT ![s] = d]
    <3>1. thread[t].s \in ValueSignals /\ \A i \in DOMAIN thread[t].rest : thread[t].rest[i] \in DomainSignals
        BY <1>5, CallFields DEF SetDomainSignalUnref, CallOK
    <3>2. thread[t].rest # << >> => Head(thread[t].rest) \in DomainSignals
        BY <3>1, CallFields
    <3> QED
        BY <1>5, <3>1, <3>2 DEF SetDomainSignalUnref
  <2>2. PICK o, z : domainSignalReferences' = [d0 \in Signals |->
                IF d0 = o THEN domainSignalReferences[d0] \ {z} ELSE domainSignalReferences[d0]]
      BY <1>5 DEF SetDomainSignalUnref
  <2>3. domainSignal' \in [Signals -> DomainSignals \cup {None}] /\ \A e \in DomainSignals : domainSignal'[e] = None
      BY <1>1, <2>1
  <2>4. domainSignalReferences' \in [Signals -> SUBSET ValueSignals]
      BY <1>1, <2>2
  <2> QED
      BY <1>1, <1>5, <2>3, <2>4 DEF SetDomainSignalUnref
<1>6. CASE SetDomainSignalRef(t)
  <2>1. thread[t].s \in ValueSignals
      BY <1>6, CallFields DEF SetDomainSignalRef, CallOK
  <2>2. \/ domainSignalReferences' = domainSignalReferences
        \/ \E x : domainSignalReferences' = [domainSignalReferences EXCEPT ![x] = @ \cup {thread[t].s}]
      BY <1>6 DEF SetDomainSignalRef
  <2> QED
      BY <1>1, <1>6, <2>1, <2>2 DEF SetDomainSignalRef
<1>7. CASE UNCHANGED signalVars
    BY <1>1, <1>7 DEF signalVars
<1>8. \/ \E s \in Signals, x \in Descriptors : SetDescriptor(t, s, x)
      \/ RemoveSignalForget(t) \/ RemoveSignalEnd(t)
      \/ SetDomainSignalUnref(t) \/ SetDomainSignalRef(t)
      \/ UNCHANGED signalVars
    BY DEF NewCall, Continue, SendPacket, Connect, Disconnect, RemovePort, RemoveSignal,
           SetActive, SetDomainSignal, EnqueueCheckActive, EnqueuePush, SendPacketEnd, SetDescriptorUnlock,
           SetDescriptorRead, SetDescriptorAnnounce, SetDescriptorNext, SetDescriptorEnd,
           ConnectPort, ConnectOld, ConnectListener, ConnectRegister, ConnectDescribe, ConnectEnd,
           DisconnectTell, RemovePortOld, RemoveSignalDisconnect, RemoveSignalClear
<1> QED
    BY <1>2, <1>3, <1>4, <1>5, <1>6, <1>7, <1>8

(* What the steps of a call know of the connections in its hands.          *)
LEMMA HandsFull ==
    ASSUME PathTypes, NEW t \in Threads
    PROVE  /\ thread[t].method = "connect" =>
                  thread[t].c \in 1 .. Len(made) /\ thread[t].s \in Signals /\ thread[t].p \in Ports
           /\ thread[t].todo # << >> =>
                  /\ Head(thread[t].todo) \in 1 .. Len(made)
                  /\ made[Head(thread[t].todo)].signal \in Signals
                  /\ made[Head(thread[t].todo)].port \in Ports
           /\ thread[t].at \in {"push", "old", "tell"} => thread[t].todo # << >>
           /\ thread[t].at \in {"port", "listener", "register", "describe"} => thread[t].method = "connect"
           /\ thread[t].method \in {"disconnect", "removePort"} => thread[t].p \in Ports
           /\ thread[t].at = "old" => thread[t].p \in Ports
           /\ thread[t].at = "tell" => thread[t].p \in Ports
           /\ thread[t].at \in {"clear", "forget"} => thread[t].s \in Signals
<1>1. CallOK(thread[t], Len(made)) /\ Len(made) \in Nat
    BY CallFields
<1>2. \A c \in 1 .. Len(made) : made[c].signal \in Signals /\ made[c].port \in Ports
  <2>1. \A c \in 1 .. Len(made) : made[c] \in Made
      BY DEF PathTypes, ConnectionTypes
  <2> QED
      BY <2>1 DEF Made
<1>3. thread[t].todo # << >> => Head(thread[t].todo) \in 1 .. Len(made)
    BY CallFields
<1> QED
    BY <1>1, <1>2, <1>3 DEF CallOK

(* Giving up a connection keeps the fates what they are.                   *)
LEMMA GivenUpType ==
    ASSUME NEW n \in Nat, NEW f \in Seq(Fates), Len(f) = n, NEW c \in 0 .. n
    PROVE  GivenUp(f, c) \in Seq(Fates) /\ Len(GivenUp(f, c)) = n
<1>1. CASE c = 0
    BY <1>1 DEF GivenUp
<1>2. CASE c # 0
  <2>1. c \in 1 .. Len(f) /\ "dropped" \in Fates
      BY <1>2 DEF Fates
  <2>2. [f EXCEPT ![c] = "dropped"] \in Seq(Fates) /\ Len([f EXCEPT ![c] = "dropped"]) = n
      BY <2>1, ExceptSeq
  <2> QED
      BY <1>2, <2>2 DEF GivenUp
<1> QED
    BY <1>1, <1>2

(* Every connection made has a fate.                                       *)
LEMMA FateStep ==
    ASSUME PathTypes, NEW t \in Threads, NewCall(t) \/ Continue(t)
    PROVE  fate' \in Seq(Fates) /\ Len(fate') = Len(made')
<1>1. /\ fate \in Seq(Fates) /\ Len(fate) = Len(made) /\ Len(made) \in Nat /\ made \in Seq(Made)
    BY DEF PathTypes, ConnectionTypes
<1>2. CASE \E p \in Ports, s \in Signals : Connect(t, p, s)
  <2>1. PICK z : made' = Append(made, z) /\ fate' = Append(fate, "made")
      BY <1>2 DEF Connect
  <2>2. Len(made') = Len(made) + 1
      BY <1>1, <2>1
  <2>3. fate' \in Seq(Fates) /\ Len(fate') = Len(fate) + 1
      BY <1>1, <2>1 DEF Fates
  <2> QED
      BY <1>1, <2>2, <2>3
<1>3. CASE Len(made') = Len(made) /\ fate' = fate
    BY <1>1, <1>3
<1>4. ASSUME Len(made') = Len(made), NEW c \in 0 .. Len(made), fate' = GivenUp(fate, c)
      PROVE  fate' \in Seq(Fates) /\ Len(fate') = Len(made')
    BY <1>1, <1>4, GivenUpType
<1>5. ASSUME Len(made') = Len(made), NEW c \in 1 .. Len(made), NEW b \in 0 .. Len(made), NEW x \in Fates,
             fate' = [GivenUp(fate, b) EXCEPT ![c] = x]
      PROVE  fate' \in Seq(Fates) /\ Len(fate') = Len(made')
  <2>1. PICK f \in Seq(Fates) : f = GivenUp(fate, b) /\ Len(f) = Len(made)
      BY <1>1, GivenUpType
  <2>2. [f EXCEPT ![c] = x] \in Seq(Fates) /\ Len([f EXCEPT ![c] = x]) = Len(f)
      BY <2>1, ExceptSeq
  <2> QED
      BY <1>5, <2>1, <2>2
<1>6. fate = GivenUp(fate, 0)
    BY DEF GivenUp
<1>7. CASE \E p \in Ports : Disconnect(t, p) \/ RemovePort(t, p)
    BY <1>1, <1>4, <1>7, RefType DEF Disconnect, RemovePort
<1>8. CASE ConnectPort(t)
  <2>1. thread[t].p \in Ports /\ thread[t].c \in 1 .. Len(made) /\ made' = made /\ "failed" \in Fates
      BY <1>8, HandsFull DEF ConnectPort, Fates
  <2>2. \/ fate' = [fate EXCEPT ![thread[t].c] = "failed"]
        \/ fate' = fate
        \/ fate' = GivenUp(fate, GetConnectionNoLock(thread[t].p))
      BY <1>8 DEF ConnectPort
  <2>3. CASE fate' = [fate EXCEPT ![thread[t].c] = "failed"]
      BY <1>1, <1>5, <1>6, <2>1, <2>3
  <2> QED
      BY <1>1, <1>3, <1>4, <2>1, <2>2, <2>3, RefType
<1>9. CASE ConnectOld(t)
  <2>1. thread[t].c \in 1 .. Len(made) /\ made' = made /\ "failed" \in Fates
      BY <1>9, HandsFull DEF ConnectOld, Fates
  <2>2. fate' = [fate EXCEPT ![thread[t].c] = "failed"] \/ fate' = fate
      BY <1>9 DEF ConnectOld
  <2>3. CASE fate' = [fate EXCEPT ![thread[t].c] = "failed"]
      BY <1>1, <1>5, <1>6, <2>1, <2>3
  <2> QED
      BY <1>3, <2>1, <2>2, <2>3
<1>10. CASE ConnectListener(t)
  <2>1. thread[t].p \in Ports /\ thread[t].c \in 1 .. Len(made) /\ made' = made /\ "failed" \in Fates
      BY <1>10, HandsFull DEF ConnectListener, Fates
  <2>2. \/ fate' = fate
        \/ fate' = [GivenUp(fate, connectionRef[thread[t].p]) EXCEPT ![thread[t].c] = "failed"]
      BY <1>10 DEF ConnectListener
  <2>3. CASE fate' = [GivenUp(fate, connectionRef[thread[t].p]) EXCEPT ![thread[t].c] = "failed"]
      BY <1>5, <2>1, <2>3, RefType
  <2> QED
      BY <1>3, <2>1, <2>2, <2>3
<1>11. CASE ConnectEnd(t)
  <2>1. thread[t].c \in 1 .. Len(made) /\ made' = made
      BY <1>11, HandsFull DEF ConnectEnd
  <2>2. PICK x : x = (IF fate[thread[t].c] = "made" THEN "connected" ELSE fate[thread[t].c]) /\ x \in Fates
      BY <1>1, <2>1 DEF Fates
  <2>3. fate' = [fate EXCEPT ![thread[t].c] = x]
      BY <1>11, <2>2 DEF ConnectEnd
  <2> QED
      BY <1>1, <1>5, <1>6, <2>1, <2>2, <2>3
<1>12. CASE RemoveSignalDisconnect(t)
  <2>1. PICK p \in Ports : fate' = GivenUp(fate, GetConnectionNoLock(p)) /\ made' = made
      BY <1>12, HandsFull DEF RemoveSignalDisconnect
  <2> QED
      BY <1>4, <2>1, RefType
<1>13. CASE EnqueuePush(t)
  <2>1. fate' = fate
      BY <1>13 DEF EnqueuePush
  <2>2. PICK c, x : made' = [made EXCEPT ![c].log = Append(@, x)]
      BY <1>13 DEF EnqueuePush
  <2>3. DOMAIN made' = DOMAIN made /\ made' \in Seq(Made)
      BY <1>1, <2>2, MadeStep
  <2>4. Len(made') = Len(made)
      BY <1>1, <2>3
  <2> QED
      BY <1>3, <2>1, <2>4
<1>14. \/ \E p \in Ports, s \in Signals : Connect(t, p, s)
       \/ \E p \in Ports : Disconnect(t, p) \/ RemovePort(t, p)
       \/ ConnectPort(t) \/ ConnectOld(t) \/ ConnectListener(t) \/ ConnectEnd(t)
       \/ RemoveSignalDisconnect(t) \/ EnqueuePush(t)
       \/ fate' = fate /\ made' = made
    BY DEF NewCall, Continue, SendPacket, SetDescriptor, RemoveSignal, SetActive,
           SetDomainSignal, EnqueueCheckActive, SendPacketEnd, SetDescriptorUnlock,
           SetDescriptorRead, SetDescriptorAnnounce, SetDescriptorNext, SetDescriptorEnd,
           ConnectRegister, ConnectDescribe, DisconnectTell, RemovePortOld, RemoveSignalClear,
           RemoveSignalForget, RemoveSignalEnd, SetDomainSignalUnref, SetDomainSignalRef
<1> QED
    BY <1>2, <1>3, <1>7, <1>8, <1>9, <1>10, <1>11, <1>12, <1>13, <1>14

(* The lists of the signals hold connections that were made.               *)
LEMMA ListsStep ==
    ASSUME PathTypes, NEW t \in Threads, NewCall(t) \/ Continue(t)
    PROVE  /\ connections' \in [Signals -> Seq(Nat)]
           /\ \A s \in Signals : \A i \in DOMAIN connections'[s] : connections'[s][i] \in 1 .. Len(made')
<1>1. /\ connections \in [Signals -> Seq(Nat)] /\ Len(made) \in Nat
      /\ Len(made') \in Nat /\ Len(made') >= Len(made)
      /\ \A s \in Signals : \A i \in DOMAIN connections[s] : connections[s][i] \in 1 .. Len(made)
    BY MadeStep DEF PathTypes, ConnectionTypes
<1>2. ASSUME NEW s, NEW q \in Seq(Nat), \A i \in DOMAIN q : q[i] \in 1 .. Len(made),
             connections' = [connections EXCEPT ![s] = q]
      PROVE  /\ connections' \in [Signals -> Seq(Nat)]
             /\ \A x \in Signals : \A i \in DOMAIN connections'[x] : connections'[x][i] \in 1 .. Len(made')
  <2>1. connections' \in [Signals -> Seq(Nat)]
      BY <1>1, <1>2
  <2>2. \A x \in Signals : connections'[x] = q \/ connections'[x] = connections[x]
      BY <1>1, <1>2
  <2>3. \A x \in Signals : \A i \in DOMAIN connections'[x] : connections'[x][i] \in 1 .. Len(made)
      BY <1>1, <1>2, <2>2
  <2>4. 1 .. Len(made) \subseteq 1 .. Len(made')
      BY <1>1
  <2> QED
      BY <2>1, <2>3, <2>4
<1>3. CASE connections' = connections
    BY <1>1, <1>3
<1>4. ASSUME NEW s \in Signals, NEW c, connections' = [connections EXCEPT ![s] = Erased(connections[s], c)]
      PROVE  /\ connections' \in [Signals -> Seq(Nat)]
             /\ \A x \in Signals : \A i \in DOMAIN connections'[x] : connections'[x][i] \in 1 .. Len(made')
  <2>1. PICK q \in Seq(Nat) : q = connections[s] /\ \A i \in DOMAIN q : q[i] \in 1 .. Len(made)
      BY <1>1
  <2>2. Erased(q, c) \in Seq(Nat) /\ \A i \in DOMAIN Erased(q, c) : Erased(q, c)[i] \in 1 .. Len(made)
      BY <2>1, ErasedType
  <2> QED
      BY <1>2, <1>4, <2>1, <2>2
<1>5. ASSUME NEW s \in Signals, NEW c \in 1 .. Len(made),
             connections' = [connections EXCEPT ![s] = Append(connections[s], c)]
      PROVE  /\ connections' \in [Signals -> Seq(Nat)]
             /\ \A x \in Signals : \A i \in DOMAIN connections'[x] : connections'[x][i] \in 1 .. Len(made')
  <2>1. PICK q \in Seq(Nat) : q = connections[s] /\ \A i \in DOMAIN q : q[i] \in 1 .. Len(made)
      BY <1>1
  <2>2. Append(q, c) \in Seq(Nat) /\ \A i \in DOMAIN Append(q, c) : Append(q, c)[i] \in 1 .. Len(made)
      BY <2>1
  <2> QED
      BY <1>2, <1>5, <2>1, <2>2
<1>6. CASE ConnectOld(t) \/ DisconnectTell(t) \/ RemovePortOld(t)
  <2>1. PICK c, s : s = made[c].signal /\ c = Head(thread[t].todo) /\ s \in Signals
      BY <1>6, HandsFull DEF ConnectOld, DisconnectTell, RemovePortOld
  <2>2. connections' = connections \/ connections' = [connections EXCEPT ![s] = Erased(connections[s], c)]
      BY <1>6, <2>1 DEF ConnectOld, DisconnectTell, RemovePortOld
  <2> QED
      BY <1>3, <1>4, <2>1, <2>2
<1>7. CASE ConnectDescribe(t)
  <2>1. thread[t].s \in Signals /\ thread[t].c \in 1 .. Len(made)
      BY <1>7, HandsFull DEF ConnectDescribe
  <2>2. connections' = [connections EXCEPT ![thread[t].s] = Append(connections[thread[t].s], thread[t].c)]
      BY <1>7 DEF ConnectDescribe
  <2> QED
      BY <1>5, <2>1, <2>2
<1>8. CASE RemoveSignalClear(t)
  <2>1. connections' = [connections EXCEPT ![thread[t].s] = << >>]
      BY <1>8 DEF RemoveSignalClear
  <2>2. << >> \in Seq(Nat) /\ \A i \in DOMAIN << >> : << >>[i] \in 1 .. Len(made)
      OBVIOUS
  <2> QED
      BY <1>2, <2>1, <2>2
<1>9. \/ ConnectOld(t) \/ DisconnectTell(t) \/ RemovePortOld(t)
      \/ ConnectDescribe(t) \/ RemoveSignalClear(t)
      \/ connections' = connections
    BY DEF NewCall, Continue, SendPacket, SetDescriptor, Connect, Disconnect, RemovePort,
           RemoveSignal, SetActive, SetDomainSignal, EnqueueCheckActive, EnqueuePush,
           SendPacketEnd, SetDescriptorUnlock, SetDescriptorRead, SetDescriptorAnnounce,
           SetDescriptorNext, SetDescriptorEnd, ConnectPort, ConnectListener, ConnectRegister,
           ConnectEnd, RemoveSignalDisconnect, RemoveSignalForget, RemoveSignalEnd,
           SetDomainSignalUnref, SetDomainSignalRef
<1> QED
    BY <1>3, <1>6, <1>7, <1>8, <1>9

(* A port refers to a connection that was made, or to none.                *)
LEMMA RefStep ==
    ASSUME PathTypes, NEW t \in Threads, NewCall(t) \/ Continue(t)
    PROVE  connectionRef' \in [Ports -> 0 .. Len(made')]
<1>1. /\ connectionRef \in [Ports -> 0 .. Len(made)] /\ Len(made) \in Nat
      /\ Len(made') \in Nat /\ Len(made') >= Len(made)
    BY MadeStep DEF PathTypes, ConnectionTypes
<1>2. \/ connectionRef' = connectionRef
      \/ \E p : connectionRef' = [connectionRef EXCEPT ![p] = 0]
      \/ /\ connectionRef' = [connectionRef EXCEPT ![thread[t].p] = thread[t].c]
         /\ ConnectPort(t) \/ ConnectOld(t)
    BY DEF NewCall, Continue, SendPacket, SetDescriptor, Connect, Disconnect, RemovePort,
           RemoveSignal, SetActive, SetDomainSignal, EnqueueCheckActive, EnqueuePush,
           SendPacketEnd, SetDescriptorUnlock, SetDescriptorRead, SetDescriptorAnnounce,
           SetDescriptorNext, SetDescriptorEnd, ConnectPort, ConnectOld, ConnectListener,
           ConnectRegister, ConnectDescribe, ConnectEnd, DisconnectTell, RemovePortOld,
           RemoveSignalDisconnect, RemoveSignalClear, RemoveSignalForget, RemoveSignalEnd,
           SetDomainSignalUnref, SetDomainSignalRef
<1>3. ConnectPort(t) \/ ConnectOld(t) => thread[t].c \in 0 .. Len(made)
  <2>1. ConnectPort(t) => thread[t].at = "port"
      BY Zenon DEF ConnectPort
  <2>2. ConnectOld(t) => thread[t].method = "connect"
      BY Zenon DEF ConnectOld
  <2>3. ConnectPort(t) \/ ConnectOld(t) => thread[t].c \in 1 .. Len(made)
      BY <2>1, <2>2, HandsFull
  <2> QED
      BY <1>1, <2>3
<1> QED
    BY <1>1, <1>2, <1>3

(* What the history variables name are connections and ports.              *)
LEMMA ToldStep ==
    ASSUME PathTypes, NEW t \in Threads, NewCall(t) \/ Continue(t)
    PROVE  /\ raced' \subseteq 1 .. Len(made') /\ misled' \subseteq 1 .. Len(made')
           /\ unheard' \subseteq Ports /\ listener' \in [Ports -> BOOLEAN]
<1>1. /\ raced \subseteq 1 .. Len(made) /\ misled \subseteq 1 .. Len(made)
      /\ unheard \subseteq Ports /\ listener \in [Ports -> BOOLEAN]
      /\ Len(made) \in Nat /\ DOMAIN made = 1 .. Len(made) /\ Len(made') \in Nat /\ Len(made') >= Len(made)
    BY MadeStep DEF PathTypes, ConnectionTypes
<1>2. raced' \subseteq 1 .. Len(made)
  <2>1. CASE \E p \in Ports : Disconnect(t, p) \/ RemovePort(t, p)
      BY <1>1, <2>1, RefType DEF Disconnect, RemovePort
  <2>2. CASE ConnectPort(t)
    <3>1. thread[t].p \in Ports
        BY <2>2, HandsFull DEF ConnectPort
    <3>2. raced' \subseteq raced \cup ({GetConnectionNoLock(thread[t].p)} \ {0})
        BY <2>2 DEF ConnectPort
    <3> QED
        BY <1>1, <3>1, <3>2, RefType
  <2>3. CASE ConnectListener(t)
    <3>1. thread[t].p \in Ports
        BY <2>3, HandsFull DEF ConnectListener
    <3>2. raced' \subseteq raced \cup ({connectionRef[thread[t].p]} \ {0})
        BY <2>3 DEF ConnectListener
    <3> QED
        BY <1>1, <3>1, <3>2, RefType
  <2>4. CASE RemoveSignalDisconnect(t)
    <3>1. PICK p \in Ports : raced' \subseteq raced \cup ({GetConnectionNoLock(p)} \ {0})
        BY <2>4, HandsFull DEF RemoveSignalDisconnect
    <3> QED
        BY <1>1, <3>1, RefType
  <2>5. CASE \E s \in Signals : RemoveSignal(t, s)
      BY <1>1, <2>5 DEF RemoveSignal
  <2>6. \/ \E p \in Ports : Disconnect(t, p) \/ RemovePort(t, p)
        \/ ConnectPort(t) \/ ConnectListener(t) \/ RemoveSignalDisconnect(t)
        \/ \E s \in Signals : RemoveSignal(t, s)
        \/ raced' = raced
      BY DEF NewCall, Continue, SendPacket, SetDescriptor, Connect, SetActive, SetDomainSignal,
           EnqueueCheckActive, EnqueuePush, SendPacketEnd, SetDescriptorUnlock,
           SetDescriptorRead, SetDescriptorAnnounce, SetDescriptorNext, SetDescriptorEnd,
           ConnectOld, ConnectRegister, ConnectDescribe, ConnectEnd, DisconnectTell,
           RemovePortOld, RemoveSignalClear, RemoveSignalForget, RemoveSignalEnd,
           SetDomainSignalUnref, SetDomainSignalRef, told
  <2> QED
      BY <1>1, <2>1, <2>2, <2>3, <2>4, <2>5, <2>6
<1>3. misled' \subseteq 1 .. Len(made)
  <2>0. \A s \in Signals : {connections[s][i] : i \in DOMAIN connections[s]} \subseteq 1 .. Len(made)
      BY DEF PathTypes, ConnectionTypes
  <2>1. CASE SetDescriptorAnnounce(t) \/ RemoveSignalForget(t)
    <3>1. PICK s \in Signals : misled' \subseteq misled \cup {connections[s][i] : i \in DOMAIN connections[s]}
        BY <2>1, CallFields DEF SetDescriptorAnnounce, RemoveSignalForget
    <3> QED
        BY <1>1, <2>0, <3>1
  <2>2. CASE SetDomainSignalUnref(t)
    <3>1. thread[t].s \in Signals
        BY <2>2, CallFields DEF SetDomainSignalUnref, CallOK, Signals
    <3>2. misled' = misled \cup {connections[thread[t].s][i] : i \in DOMAIN connections[thread[t].s]}
        BY <2>2 DEF SetDomainSignalUnref
    <3> QED
        BY <1>1, <2>0, <3>1, <3>2
  <2>3. SetDescriptorAnnounce(t) \/ RemoveSignalForget(t) \/ SetDomainSignalUnref(t) \/ misled' = misled
      BY DEF NewCall, Continue, SendPacket, SetDescriptor, Connect, Disconnect, RemovePort,
           RemoveSignal, SetActive, SetDomainSignal, EnqueueCheckActive, EnqueuePush,
           SendPacketEnd, SetDescriptorUnlock, SetDescriptorRead, SetDescriptorNext,
           SetDescriptorEnd, ConnectPort, ConnectOld, ConnectListener, ConnectRegister,
           ConnectDescribe, ConnectEnd, DisconnectTell, RemovePortOld, RemoveSignalDisconnect,
           RemoveSignalClear, RemoveSignalEnd, SetDomainSignalRef, told
  <2> QED
      BY <1>1, <2>1, <2>2, <2>3
<1>4. unheard' \subseteq Ports /\ listener' \in [Ports -> BOOLEAN]
  <2>1. CASE ConnectOld(t) \/ ConnectListener(t) \/ DisconnectTell(t) \/ RemoveSignalDisconnect(t)
    <3>1. PICK p \in Ports : /\ unheard' \subseteq unheard \cup {p}
                             /\ \/ listener' = listener
                                \/ listener' = [listener EXCEPT ![p] = TRUE]
                                \/ listener' = [listener EXCEPT ![p] = FALSE]
        BY <2>1, HandsFull DEF ConnectOld, ConnectListener, DisconnectTell, RemoveSignalDisconnect, ListenerTold
    <3> QED
        BY <1>1, <3>1
  <2>2. \/ ConnectOld(t) \/ ConnectListener(t) \/ DisconnectTell(t) \/ RemoveSignalDisconnect(t)
        \/ UNCHANGED <<unheard, listener>>
      BY DEF NewCall, Continue, SendPacket, SetDescriptor, Connect, Disconnect, RemovePort,
           RemoveSignal, SetActive, SetDomainSignal, EnqueueCheckActive, EnqueuePush,
           SendPacketEnd, SetDescriptorUnlock, SetDescriptorRead, SetDescriptorAnnounce,
           SetDescriptorNext, SetDescriptorEnd, ConnectPort, ConnectRegister, ConnectDescribe,
           ConnectEnd, RemovePortOld, RemoveSignalClear, RemoveSignalForget, RemoveSignalEnd,
           SetDomainSignalUnref, SetDomainSignalRef, told
  <2> QED
      BY <1>1, <2>1, <2>2
<1> QED
    BY <1>1, <1>2, <1>3, <1>4

(* The initial state has the types.                                        *)
LEMMA InitPathTypes == PathInit => PathTypes
<1> SUFFICES ASSUME PathInit PROVE PathTypes
    OBVIOUS
<1>1. TreeTypes
    BY SignalPathAssumption DEF PathInit, TreeTypes, Signals
<1>2. ConnectionTypes
    BY DEF PathInit, ConnectionTypes
<1>3. ThreadTypes
    BY IdleOK, IdleFields DEF PathInit, ThreadTypes
<1> QED
    BY <1>1, <1>2, <1>3 DEF PathTypes

(* Every step keeps the types.                                             *)
LEMMA NextPathTypes == PathTypes /\ [PathNext]_pathVars => PathTypes'
<1> SUFFICES ASSUME PathTypes, [PathNext]_pathVars PROVE PathTypes'
    OBVIOUS
<1>1. ASSUME NEW t \in Threads, NewCall(t) \/ Continue(t) PROVE PathTypes'
  <2>1. TreeTypes'
      BY <1>1, OwnerStep, FlagsStep, SignalStep DEF TreeTypes
  <2>2. ConnectionTypes'
      BY <1>1, MadeStep, FateStep, ListsStep, RefStep, ToldStep DEF ConnectionTypes
  <2>3. Moves(t) /\ calls' \in [Threads -> Nat]
      BY <1>1, NewCallMoves, ContinueMoves
  <2>4. Len(made) \in Nat /\ Len(made') \in Nat /\ Len(made') >= Len(made) /\ ThreadTypes
      BY <1>1, MadeStep DEF PathTypes, ConnectionTypes
  <2>5. ThreadTypes'
      BY <2>3, <2>4, ThreadStep
  <2> QED
      BY <2>1, <2>2, <2>5 DEF PathTypes
<1>2. CASE UNCHANGED pathVars
    BY <1>2 DEF pathVars, PathTypes, TreeTypes, ConnectionTypes, ThreadTypes, tree, signalVars, told
<1> QED
    BY <1>1, <1>2 DEF PathNext

(* Whatever methods the threads call, and whenever, the signals, the ports *)
(* and the connections keep their types: every connection a signal lists,  *)
(* a port refers to or a call holds is one that was made.                  *)
THEOREM PathTypeCorrect == PathSpec => []PathTypeOK
<1>1. PathTypes => PathTypeOK
  <2> SUFFICES ASSUME PathTypes PROVE PathTypeOK
      OBVIOUS
  <2>1. DOMAIN made = 1 .. Len(made) /\ DOMAIN fate = 1 .. Len(made)
      BY DEF PathTypes, ConnectionTypes
  <2>2. \A c \in DOMAIN made : made[c].signal \in Signals /\ made[c].port \in Ports
    <3>1. \A c \in DOMAIN made : made[c] \in Made
        BY <2>1 DEF PathTypes, ConnectionTypes
    <3> QED
        BY <3>1 DEF Made
  <2>3. \A t \in Threads : thread[t] = Idle \/ thread[t].at # "idle"
      BY DEF PathTypes, ThreadTypes, CallOK
  <2> QED
      BY <2>1, <2>2, <2>3 DEF PathTypes, TreeTypes, ConnectionTypes, PathTypeOK
<1> QED
    BY <1>1, InitPathTypes, NextPathTypes, PTL DEF PathSpec

---------------------------------------------------------------------------------
(***************************************************************************)
(* Mutexes.  A thread holds the mutex of a port only while it gives up the *)
(* old connection of that port, and of a signal only in the stages of its  *)
(* call that are under the lock of that signal.                            *)
(***************************************************************************)
UnderSignalLock(k) ==
    \/ k.at \in {"describe", "clear", "forget", "unref", "ref"}
    \/ k.at \in {"enqueue", "push"} /\ k.method \in {"setDescriptor", "connect"}

HoldsRightly(t) ==
    /\ \A p \in Ports : owner[p] = t => thread[t].at = "old" /\ thread[t].p = p
    /\ \A s \in Signals : owner[s] = t => UnderSignalLock(thread[t]) /\ thread[t].s = s

LocksHeld == \A t \in Threads : HoldsRightly(t)

(* A step of one thread leaves what the others hold alone.                 *)
LEMMA OthersHold ==
    ASSUME PathTypes, NEW t \in Threads, NewCall(t) \/ Continue(t),
           NEW u \in Threads, u # t, HoldsRightly(u)
    PROVE  HoldsRightly(u)'
<1>1. thread'[u] = thread[u]
    BY NewCallMoves, ContinueMoves DEF Moves, PathTypes, ThreadTypes
<1>2. \/ owner' = owner
      \/ \E x : owner' = [owner EXCEPT ![x] = t] \/ owner' = [owner EXCEPT ![x] = None]
    BY DEF NewCall, Continue, SendPacket, SetDescriptor, Connect, Disconnect, RemovePort,
           RemoveSignal, SetActive, SetDomainSignal, EnqueueCheckActive, EnqueuePush,
           SendPacketEnd, SetDescriptorUnlock, SetDescriptorRead, SetDescriptorAnnounce,
           SetDescriptorNext, SetDescriptorEnd, ConnectPort, ConnectOld, ConnectListener,
           ConnectRegister, ConnectDescribe, ConnectEnd, DisconnectTell, RemovePortOld,
           RemoveSignalDisconnect, RemoveSignalClear, RemoveSignalForget, RemoveSignalEnd,
           SetDomainSignalUnref, SetDomainSignalRef, Take, Release
<1>3. owner \in [Components -> Threads \cup {None}] /\ u # None
    BY SignalPathAssumption DEF PathTypes, TreeTypes
<1>4. \A x \in Components : owner'[x] = u => owner[x] = u
    BY <1>2, <1>3
<1> QED
    BY <1>1, <1>4 DEF HoldsRightly, Components

(* A call that begins holds what it takes.                                 *)
LEMMA NewCallHolds ==
    ASSUME PathTypes, NEW t \in Threads, NewCall(t), HoldsRightly(t)
    PROVE  HoldsRightly(t)'
<1>0. /\ thread \in [Threads -> Call] /\ owner \in [Components -> Threads \cup {None}]
      /\ Signals \cap Ports = {} /\ Components = Signals \cup Ports /\ t # None
    BY SignalPathAssumption DEF PathTypes, ThreadTypes, TreeTypes, Components
<1>1. thread[t] = Idle
    BY BeginType DEF NewCall, SendPacket, SetDescriptor, Connect, Disconnect, RemovePort,
           RemoveSignal, SetActive, SetDomainSignal, PathTypes
<1>2. \A x \in Components : owner[x] # t
    BY <1>0, <1>1, IdleFields DEF HoldsRightly, UnderSignalLock
<1>3. CASE owner' = owner
    BY <1>0, <1>2, <1>3 DEF HoldsRightly
<1>4. ASSUME NEW s \in Signals, owner' = [owner EXCEPT ![s] = t], NEW j, thread' = [thread EXCEPT ![t] = j],
             j.s = s, UnderSignalLock(j)
      PROVE  HoldsRightly(t)'
    BY <1>0, <1>2, <1>4 DEF HoldsRightly
<1>5. ASSUME NEW s \in Signals, NEW x \in Descriptors, SetDescriptor(t, s, x) PROVE HoldsRightly(t)'
  <2>1. PICK q, y, j : /\ j = [[Idle EXCEPT !.method = "setDescriptor", !.s = s]
                                  EXCEPT !.at = "enqueue", !.todo = q, !.packet = y]
                       /\ thread' = [thread EXCEPT ![t] = j]
      BY <1>5 DEF SetDescriptor, Goto, Enqueuing
  <2>2. j.s = s /\ UnderSignalLock(j)
      BY <2>1, IdleFields DEF UnderSignalLock, Call
  <2> QED
      BY <1>4, <1>5, <2>1, <2>2 DEF SetDescriptor, Take
<1>6. ASSUME NEW s \in Signals, RemoveSignal(t, s) PROVE HoldsRightly(t)'
  <2>1. PICK q, j : /\ j = [Idle EXCEPT !.method = "removeSignal", !.at = "clear", !.s = s, !.todo = q]
                    /\ thread' = [thread EXCEPT ![t] = j]
      BY <1>6 DEF RemoveSignal, Goto
  <2>2. j.s = s /\ UnderSignalLock(j)
      BY <2>1, IdleFields DEF UnderSignalLock, Call
  <2> QED
      BY <1>4, <1>6, <2>1, <2>2 DEF RemoveSignal, Take
<1>7. ASSUME NEW s \in ValueSignals, NEW d \in DomainSignals \cup {None}, SetDomainSignal(t, s, d)
      PROVE  HoldsRightly(t)'
  <2>1. PICK q, j : /\ j = [Idle EXCEPT !.method = "setDomainSignal", !.at = "unref", !.s = s, !.rest = q]
                    /\ thread' = [thread EXCEPT ![t] = j]
      BY <1>7 DEF SetDomainSignal, Goto
  <2>2. j.s = s /\ UnderSignalLock(j) /\ s \in Signals
      BY <2>1, IdleFields DEF UnderSignalLock, Call, Signals
  <2> QED
      BY <1>4, <1>7, <2>1, <2>2 DEF SetDomainSignal, Take
<1>8. ASSUME NEW p \in Ports, RemovePort(t, p) PROVE HoldsRightly(t)'
  <2>1. CASE GetConnectionNoLock(p) = 0
      BY <1>3, <1>8, <2>1 DEF RemovePort
  <2>2. CASE GetConnectionNoLock(p) # 0
    <3>1. PICK q, j : /\ j = [Idle EXCEPT !.method = "removePort", !.at = "old", !.p = p, !.todo = q]
                      /\ thread' = [thread EXCEPT ![t] = j]
        BY <1>8, <2>2 DEF RemovePort, Goto
    <3>2. j.at = "old" /\ j.p = p
        BY <3>1, IdleFields DEF Call
    <3>3. owner' = [owner EXCEPT ![p] = t]
        BY <1>8, <2>2 DEF RemovePort, Take
    <3> QED
        BY <1>0, <1>2, <3>1, <3>2, <3>3 DEF HoldsRightly
  <2> QED
      BY <2>1, <2>2
<1>9. \/ \E s \in Signals, x \in Descriptors : SetDescriptor(t, s, x)
      \/ \E s \in Signals : RemoveSignal(t, s)
      \/ \E s \in ValueSignals, d \in DomainSignals \cup {None} : SetDomainSignal(t, s, d)
      \/ \E p \in Ports : RemovePort(t, p)
      \/ owner' = owner
    BY DEF NewCall, SendPacket, Connect, Disconnect, SetActive
<1> QED
    BY <1>3, <1>5, <1>6, <1>7, <1>8, <1>9

(* A call that goes on keeps to the stages of the locks it holds.          *)
LEMMA ContinueHolds ==
    ASSUME PathTypes, NEW t \in Threads, Continue(t), HoldsRightly(t)
    PROVE  HoldsRightly(t)'
<1>0. /\ thread \in [Threads -> Call] /\ owner \in [Components -> Threads \cup {None}]
      /\ Signals \cap Ports = {} /\ Components = Signals \cup Ports /\ t # None
    BY SignalPathAssumption DEF PathTypes, ThreadTypes, TreeTypes, Components
<1>1. PICK k \in Call : k = thread[t] /\ CallOK(k, Len(made))
    BY CallFields
<1>2. ASSUME NEW j, thread' = [thread EXCEPT ![t] = j], owner' = owner,
             k.at # "old" \/ (j.at = "old" /\ j.p = k.p),
             UnderSignalLock(k) /\ owner[k.s] = t => UnderSignalLock(j) /\ j.s = k.s
      PROVE  HoldsRightly(t)'
    BY <1>0, <1>1, <1>2 DEF HoldsRightly
<1>3. ASSUME k.at # "old", owner' = [owner EXCEPT ![k.s] = None] PROVE HoldsRightly(t)'
    BY <1>0, <1>1, <1>3 DEF HoldsRightly
<1>4. ASSUME k.at = "old", owner' = [owner EXCEPT ![k.p] = None] PROVE HoldsRightly(t)'
    BY <1>0, <1>1, <1>4 DEF HoldsRightly, UnderSignalLock
<1>5. ASSUME Return(t), owner' = owner, k.at # "old", ~UnderSignalLock(k) PROVE HoldsRightly(t)'
    BY <1>0, <1>1, <1>5 DEF HoldsRightly
<1>6. ASSUME EnqueueCheckActive(t) PROVE HoldsRightly(t)'
  <2>1. PICK j : /\ j = [k EXCEPT !.at = "push"] \/ j = [k EXCEPT !.todo = Tail(k.todo)]
                 /\ thread' = [thread EXCEPT ![t] = j]
      BY <1>1, <1>6 DEF EnqueueCheckActive, Goto
  <2>2. k.at = "enqueue" /\ owner' = owner
      BY <1>1, <1>6 DEF EnqueueCheckActive
  <2>3. /\ k.at # "old"
        /\ UnderSignalLock(k) /\ owner[k.s] = t => UnderSignalLock(j) /\ j.s = k.s
      BY <1>1, <2>1, <2>2 DEF UnderSignalLock, Call
  <2> QED
      BY <1>2, <2>1, <2>2, <2>3
<1>7. ASSUME EnqueuePush(t) PROVE HoldsRightly(t)'
  <2>1. PICK j : j = [k EXCEPT !.at = "enqueue", !.todo = Tail(k.todo)] /\ thread' = [thread EXCEPT ![t] = j]
      BY <1>1, <1>7 DEF EnqueuePush, Goto
  <2>2. k.at = "push" /\ owner' = owner
      BY <1>1, <1>7 DEF EnqueuePush
  <2>3. /\ k.at # "old"
        /\ UnderSignalLock(k) /\ owner[k.s] = t => UnderSignalLock(j) /\ j.s = k.s
      BY <1>1, <2>1, <2>2 DEF UnderSignalLock, Call
  <2> QED
      BY <1>2, <2>1, <2>2, <2>3
<1>8. ASSUME SendPacketEnd(t) PROVE HoldsRightly(t)'
    BY <1>1, <1>5, <1>8 DEF SendPacketEnd, UnderSignalLock
<1>9. ASSUME SetDescriptorUnlock(t) PROVE HoldsRightly(t)'
    BY <1>1, <1>3, <1>9 DEF SetDescriptorUnlock, Release
<1>10. ASSUME SetDescriptorRead(t) PROVE HoldsRightly(t)'
  <2>1. PICK x, j : j = [k EXCEPT !.at = "announce", !.packet = x] /\ thread' = [thread EXCEPT ![t] = j]
      BY <1>1, <1>10 DEF SetDescriptorRead, Goto
  <2>2. k.at = "read" /\ owner' = owner
      BY <1>1, <1>10 DEF SetDescriptorRead
  <2>3. /\ k.at # "old"
        /\ UnderSignalLock(k) /\ owner[k.s] = t => UnderSignalLock(j) /\ j.s = k.s
      BY <1>1, <2>1, <2>2 DEF UnderSignalLock, Call
  <2> QED
      BY <1>2, <2>1, <2>2, <2>3
<1>11. ASSUME SetDescriptorAnnounce(t) PROVE HoldsRightly(t)'
  <2>0. PICK q : q = IF active[Head(k.rest)] THEN connections[Head(k.rest)] ELSE << >>
      OBVIOUS
  <2>1. PICK j : /\ j = [[k EXCEPT !.at = "enqueue", !.todo = q, !.packet = k.packet]
                             EXCEPT !.rest = Tail(k.rest)]
                 /\ thread' = [thread EXCEPT ![t] = j]
      BY <1>1, <1>11, <2>0 DEF SetDescriptorAnnounce, Goto, Enqueuing
  <2>2. k.at = "announce" /\ owner' = owner
      BY <1>1, <1>11 DEF SetDescriptorAnnounce
  <2>3. /\ k.at # "old"
        /\ UnderSignalLock(k) /\ owner[k.s] = t => UnderSignalLock(j) /\ j.s = k.s
      BY <1>1, <2>1, <2>2 DEF UnderSignalLock, Call
  <2> QED
      BY <1>2, <2>1, <2>2, <2>3
<1>12. ASSUME SetDescriptorNext(t) PROVE HoldsRightly(t)'
  <2>1. PICK j : j = [k EXCEPT !.at = "announce"] /\ thread' = [thread EXCEPT ![t] = j]
      BY <1>1, <1>12 DEF SetDescriptorNext, Goto
  <2>2. k.at = "enqueue" /\ owner[k.s] # t /\ owner' = owner
      BY <1>1, <1>12 DEF SetDescriptorNext
  <2>3. /\ k.at # "old"
        /\ UnderSignalLock(k) /\ owner[k.s] = t => UnderSignalLock(j) /\ j.s = k.s
      BY <1>1, <2>1, <2>2 DEF UnderSignalLock, Call
  <2> QED
      BY <1>2, <2>1, <2>2, <2>3
<1>13. ASSUME SetDescriptorEnd(t) PROVE HoldsRightly(t)'
    BY <1>1, <1>5, <1>13 DEF SetDescriptorEnd, UnderSignalLock
<1>14. ASSUME ConnectPort(t) PROVE HoldsRightly(t)'
  <2>0. k.at = "port" /\ \A x \in Components : owner[x] # t
      BY <1>0, <1>1, <1>14 DEF ConnectPort, HoldsRightly, UnderSignalLock
  <2>1. CASE owner' = owner
      BY <1>0, <2>0, <2>1 DEF HoldsRightly
  <2>2. CASE owner' # owner
    <3>1. PICK q, j : j = [k EXCEPT !.at = "old", !.todo = q] /\ thread' = [thread EXCEPT ![t] = j]
        BY <1>1, <1>14, <2>2 DEF ConnectPort, Goto
    <3>2. owner' = [owner EXCEPT ![k.p] = t] /\ k.p \in Ports
        BY <1>1, <1>14, <2>2 DEF ConnectPort, Take, CallOK
    <3>3. j.at = "old" /\ j.p = k.p
        BY <1>1, <3>1 DEF Call
    <3> QED
        BY <1>0, <2>0, <3>1, <3>2, <3>3 DEF HoldsRightly
  <2> QED
      BY <2>1, <2>2
<1>15. ASSUME ConnectOld(t) PROVE HoldsRightly(t)'
    BY <1>1, <1>4, <1>15 DEF ConnectOld, Release
<1>16. ASSUME ConnectListener(t) PROVE HoldsRightly(t)'
  <2>0. k.at = "listener" /\ \A x \in Components : owner[x] # t
      BY <1>0, <1>1, <1>16 DEF ConnectListener, HoldsRightly, UnderSignalLock
  <2>1. owner' = owner
      BY <1>16 DEF ConnectListener
  <2> QED
      BY <1>0, <2>0, <2>1 DEF HoldsRightly
<1>17. ASSUME ConnectRegister(t) PROVE HoldsRightly(t)'
  <2>0. k.at = "register" /\ \A x \in Components : owner[x] # t
      BY <1>0, <1>1, <1>17 DEF ConnectRegister, HoldsRightly, UnderSignalLock
  <2>1. PICK j : j = [k EXCEPT !.at = "describe"] /\ thread' = [thread EXCEPT ![t] = j]
      BY <1>1, <1>17 DEF ConnectRegister, Goto
  <2>2. owner' = [owner EXCEPT ![k.s] = t] /\ k.s \in Signals
      BY <1>1, <1>17 DEF ConnectRegister, Take, CallOK
  <2>3. j.at = "describe" /\ j.s = k.s
      BY <1>1, <2>1 DEF Call
  <2> QED
      BY <1>0, <2>0, <2>1, <2>2, <2>3 DEF HoldsRightly, UnderSignalLock
<1>18. ASSUME ConnectDescribe(t) PROVE HoldsRightly(t)'
  <2>1. PICK q, x, j : j = [k EXCEPT !.at = "enqueue", !.todo = q, !.packet = x] /\ thread' = [thread EXCEPT ![t] = j]
      BY <1>1, <1>18 DEF ConnectDescribe, Goto, Enqueuing
  <2>2. k.at = "describe" /\ k.method = "connect" /\ owner' = owner
      BY <1>1, <1>18 DEF ConnectDescribe, CallOK
  <2>3. /\ k.at # "old"
        /\ UnderSignalLock(k) /\ owner[k.s] = t => UnderSignalLock(j) /\ j.s = k.s
      BY <1>1, <2>1, <2>2 DEF UnderSignalLock, Call
  <2> QED
      BY <1>2, <2>1, <2>2, <2>3
<1>19. ASSUME ConnectEnd(t) PROVE HoldsRightly(t)'
    BY <1>1, <1>3, <1>19 DEF ConnectEnd, Release
<1>20. ASSUME DisconnectTell(t) PROVE HoldsRightly(t)'
    BY <1>1, <1>5, <1>20 DEF DisconnectTell, UnderSignalLock
<1>21. ASSUME RemovePortOld(t) PROVE HoldsRightly(t)'
    BY <1>1, <1>4, <1>21 DEF RemovePortOld, Release
<1>22. ASSUME RemoveSignalDisconnect(t) PROVE HoldsRightly(t)'
  <2>1. PICK j : j = [k EXCEPT !.todo = Tail(k.todo)] /\ thread' = [thread EXCEPT ![t] = j]
      BY <1>1, <1>22 DEF RemoveSignalDisconnect, Goto
  <2>2. k.at = "clear" /\ owner' = owner
      BY <1>1, <1>22 DEF RemoveSignalDisconnect
  <2>3. /\ k.at # "old"
        /\ UnderSignalLock(k) /\ owner[k.s] = t => UnderSignalLock(j) /\ j.s = k.s
      BY <1>1, <2>1, <2>2 DEF UnderSignalLock, Call
  <2> QED
      BY <1>2, <2>1, <2>2, <2>3
<1>23. ASSUME RemoveSignalClear(t) PROVE HoldsRightly(t)'
  <2>1. PICK r, j : j = [k EXCEPT !.at = "forget", !.rest = r] /\ thread' = [thread EXCEPT ![t] = j]
      BY <1>1, <1>23 DEF RemoveSignalClear, Goto
  <2>2. k.at = "clear" /\ owner' = owner
      BY <1>1, <1>23 DEF RemoveSignalClear
  <2>3. /\ k.at # "old"
        /\ UnderSignalLock(k) /\ owner[k.s] = t => UnderSignalLock(j) /\ j.s = k.s
      BY <1>1, <2>1, <2>2 DEF UnderSignalLock, Call
  <2> QED
      BY <1>2, <2>1, <2>2, <2>3
<1>24. ASSUME RemoveSignalForget(t) PROVE HoldsRightly(t)'
  <2>1. PICK j : j = [k EXCEPT !.rest = Tail(k.rest)] /\ thread' = [thread EXCEPT ![t] = j]
      BY <1>1, <1>24 DEF RemoveSignalForget, Goto
  <2>2. k.at = "forget" /\ owner' = owner
      BY <1>1, <1>24 DEF RemoveSignalForget
  <2>3. /\ k.at # "old"
        /\ UnderSignalLock(k) /\ owner[k.s] = t => UnderSignalLock(j) /\ j.s = k.s
      BY <1>1, <2>1, <2>2 DEF UnderSignalLock, Call
  <2> QED
      BY <1>2, <2>1, <2>2, <2>3
<1>25. ASSUME RemoveSignalEnd(t) PROVE HoldsRightly(t)'
    BY <1>1, <1>3, <1>25 DEF RemoveSignalEnd, Release
<1>26. ASSUME SetDomainSignalUnref(t) PROVE HoldsRightly(t)'
  <2>1. PICK j : j = [k EXCEPT !.at = "ref"] /\ thread' = [thread EXCEPT ![t] = j]
      BY <1>1, <1>26 DEF SetDomainSignalUnref, Goto
  <2>2. k.at = "unref" /\ owner' = owner
      BY <1>1, <1>26 DEF SetDomainSignalUnref
  <2>3. /\ k.at # "old"
        /\ UnderSignalLock(k) /\ owner[k.s] = t => UnderSignalLock(j) /\ j.s = k.s
      BY <1>1, <2>1, <2>2 DEF UnderSignalLock, Call
  <2> QED
      BY <1>2, <2>1, <2>2, <2>3
<1>27. ASSUME SetDomainSignalRef(t) PROVE HoldsRightly(t)'
    BY <1>1, <1>3, <1>27 DEF SetDomainSignalRef, Release
<1> QED
    BY <1>6, <1>7, <1>8, <1>9, <1>10, <1>11, <1>12, <1>13, <1>14, <1>15, <1>16, <1>17, <1>18, <1>19, <1>20, <1>21, <1>22, <1>23, <1>24, <1>25, <1>26, <1>27, Zenon DEF Continue

(* Every step keeps the locks with their holders.                          *)
LEMMA NextLocks == PathTypes /\ LocksHeld /\ [PathNext]_pathVars => LocksHeld'
<1> SUFFICES ASSUME PathTypes, LocksHeld, [PathNext]_pathVars PROVE LocksHeld'
    OBVIOUS
<1>1. ASSUME NEW t \in Threads, NewCall(t) \/ Continue(t) PROVE LocksHeld'
  <2>1. HoldsRightly(t)'
      BY <1>1, NewCallHolds, ContinueHolds DEF LocksHeld
  <2>2. \A u \in Threads : u # t => HoldsRightly(u)'
      BY <1>1, OthersHold DEF LocksHeld
  <2> QED
      BY <2>1, <2>2 DEF LocksHeld
<1>2. CASE UNCHANGED pathVars
    BY <1>2 DEF pathVars, LocksHeld, HoldsRightly
<1> QED
    BY <1>1, <1>2 DEF PathNext

(* At first nobody holds a lock.                                           *)
LEMMA InitLocks == PathInit => LocksHeld
BY SignalPathAssumption DEF PathInit, LocksHeld, HoldsRightly, Components

(* A thread that holds a signal and is not against the order waits for the *)
(* domain signal of a value signal, or for a port.                         *)
LEMMA HoldersNeed ==
    ASSUME PathTypes, LocksHeld, NEW u \in Threads, NEW s \in Signals, owner[s] = u,
           ~AgainstOrder(u), Needs(u) # None
    PROVE  Needs(u) \in Ports \/ (s \in ValueSignals /\ Needs(u) \in DomainSignals)
<1>1. PICK k \in Call : k = thread[u] /\ CallOK(k, Len(made)) /\ k.s = s /\ UnderSignalLock(k)
    BY CallFields DEF LocksHeld, HoldsRightly
<1>2. k.at \in {"enqueue", "push", "describe", "clear", "unref", "ref"}
    BY <1>1 DEF UnderSignalLock, AgainstOrder
<1>3. CASE k.at \in {"enqueue", "clear"}
  <2>1. k.todo # << >>
      BY <1>1, <1>3 DEF Needs
  <2>2. Needs(u) = made[Head(k.todo)].port
      BY <1>1, <1>3, <2>1 DEF Needs
  <2> QED
      BY <1>1, <2>1, <2>2, HandsFull
<1>4. CASE k.at = "push"
    BY <1>1, <1>4 DEF Needs
<1>5. CASE k.at \in {"describe", "unref"}
  <2>1. Needs(u) = domainSignal[s]
      BY <1>1, <1>5 DEF Needs
  <2> QED
      BY <2>1, SignalPathAssumption DEF PathTypes, TreeTypes, Signals
<1>6. CASE k.at = "ref"
  <2>1. k.rest # << >>
      BY <1>1, <1>6 DEF Needs
  <2>2. Needs(u) = Head(k.rest)
      BY <1>1, <1>6, <2>1 DEF Needs
  <2>3. s \in ValueSignals /\ \A i \in DOMAIN k.rest : k.rest[i] \in DomainSignals
      BY <1>1, <1>6 DEF CallOK
  <2> QED
      BY <1>1, <2>1, <2>2, <2>3, CallFields
<1> QED
    BY <1>2, <1>3, <1>4, <1>5, <1>6

(* What a call waits for is a mutex of a component.                        *)
LEMMA NeedsType ==
    ASSUME PathTypes, NEW t \in Threads, Needs(t) # None
    PROVE  Needs(t) \in Components
<1>1. PICK k \in Call : k = thread[t] /\ CallOK(k, Len(made))
    BY CallFields
<1>2. /\ k.todo # << >> => /\ made[Head(k.todo)].signal \in Signals
                           /\ made[Head(k.todo)].port \in Ports
      /\ k.rest # << >> => Head(k.rest) \in Signals
      /\ k.at \in {"old", "tell"} => k.todo # << >>
    BY <1>1, HandsFull, CallFields
<1>3. CASE k.at \in {"enqueue", "clear"} /\ k.todo # << >>
    BY <1>1, <1>2, <1>3 DEF Needs, Components
<1>4. CASE k.at \in {"old", "tell"}
    BY <1>1, <1>2, <1>4 DEF Needs, Components
<1>5. CASE k.at \in {"announce", "forget", "ref"} /\ k.rest # << >>
    BY <1>1, <1>2, <1>5 DEF Needs, Components
<1>6. CASE k.at = "port"
    BY <1>1, <1>6 DEF Needs, Components, CallOK
<1>7. CASE k.at = "register"
    BY <1>1, <1>7 DEF Needs, Components, CallOK
<1>8. CASE k.at \in {"describe", "unref"}
  <2>1. k.s \in Signals /\ Needs(t) = domainSignal[k.s]
      BY <1>1, <1>8 DEF Needs, CallOK, Signals
  <2> QED
      BY <2>1 DEF PathTypes, TreeTypes, Components, Signals
<1> QED
    BY <1>1, <1>3, <1>4, <1>5, <1>6, <1>7, <1>8 DEF Needs

(* Calls can block each other for good only when one of them replaces or   *)
(* removes a connected port, or removes a domain signal: any number of     *)
(* threads that send, change descriptors and domain signals, connect free  *)
(* ports, disconnect and remove value signals never deadlock.  A call that *)
(* holds a value signal waits for a domain signal or a port, and one that  *)
(* holds a domain signal for a port, and ports are held only by calls      *)
(* against the order.                                                      *)
THEOREM NoDeadlockInOrder == PathSpec => []DeadlockOnlyAgainstOrder
<1>1. PathTypes /\ LocksHeld => DeadlockOnlyAgainstOrder
  <2> SUFFICES ASSUME PathTypes, LocksHeld, NEW T \in SUBSET Threads, Stuck(T),
                      \A t \in T : ~AgainstOrder(t)
               PROVE  FALSE
      BY DEF DeadlockOnlyAgainstOrder
  <2>1. ASSUME NEW t \in T
        PROVE  Needs(t) \in Signals /\ owner[Needs(t)] \in T
    <3>1. Needs(t) \in Components /\ owner[Needs(t)] \in T
        BY NeedsType DEF Stuck
    <3>2. CASE Needs(t) \in Ports
      <4>1. PICK u \in T : owner[Needs(t)] = u
          BY <3>1
      <4> QED
          BY <3>2, <4>1 DEF LocksHeld, HoldsRightly, AgainstOrder
    <3> QED
        BY <3>1, <3>2 DEF Components
  <2>2. ASSUME NEW u \in T, NEW s \in Signals, owner[s] = u
        PROVE  s \in ValueSignals /\ Needs(u) \in DomainSignals
    <3>1. Needs(u) \in Ports \/ (s \in ValueSignals /\ Needs(u) \in DomainSignals)
        BY <2>2, HoldersNeed DEF Stuck
    <3> QED
        BY <2>1, <3>1, SignalPathAssumption
  <2>3. PICK t \in T : TRUE
      BY DEF Stuck
  <2>4. PICK u \in T : owner[Needs(t)] = u /\ Needs(t) \in Signals
      BY <2>1
  <2>5. Needs(u) \in DomainSignals
      BY <2>2, <2>4
  <2>6. PICK w \in T : owner[Needs(u)] = w /\ Needs(u) \in Signals
      BY <2>1
  <2>7. Needs(u) \in ValueSignals
      BY <2>2, <2>6
  <2> QED
      BY <2>5, <2>7, SignalPathAssumption
<1> QED
    BY <1>1, InitPathTypes, NextPathTypes, InitLocks, NextLocks, PTL DEF PathSpec

---------------------------------------------------------------------------------
(***************************************************************************)
(* The two ends of a connection.  HoldsFully is the other half of          *)
(* HoldsRightly: the mutexes that are surely held at a stage.              *)
(***************************************************************************)
HoldsFully(t) ==
    /\ \/ thread[t].at \in {"describe", "clear", "forget", "unref", "ref"}
       \/ thread[t].at \in {"enqueue", "push"} /\ thread[t].method = "connect"
       => owner[thread[t].s] = t
    /\ thread[t].at = "old" => owner[thread[t].p] = t

LocksFull == \A t \in Threads : HoldsFully(t)

(* What every step leaves alone: the calls of the other threads, the ends  *)
(* of the connections made, and what is known to have been touched.        *)
LEMMA StepFacts ==
    ASSUME PathTypes, NEW t \in Threads, NewCall(t) \/ Continue(t)
    PROVE  /\ \A u \in Threads : u # t => thread'[u] = thread[u]
           /\ \A c \in 1 .. Len(made) : /\ c \in 1 .. Len(made')
                                        /\ made'[c].signal = made[c].signal
                                        /\ made'[c].port = made[c].port
           /\ raced \subseteq raced'
<1>0. /\ made \in Seq(Made) /\ Len(made) \in Nat /\ Len(made') \in Nat /\ Len(made') >= Len(made)
      /\ made' \in Seq(Made) /\ thread \in [Threads -> Call]
    BY MadeStep DEF PathTypes, ConnectionTypes, ThreadTypes
<1>1. \A u \in Threads : u # t => thread'[u] = thread[u]
    BY <1>0, NewCallMoves, ContinueMoves DEF Moves
<1>2. \A c \in 1 .. Len(made) : c \in 1 .. Len(made')
    BY <1>0
<1>3. raced \subseteq raced'
    BY DEF NewCall, Continue, SendPacket, SetDescriptor, Connect, Disconnect, RemovePort,
           RemoveSignal, SetActive, SetDomainSignal, EnqueueCheckActive, EnqueuePush,
           SendPacketEnd, SetDescriptorUnlock, SetDescriptorRead, SetDescriptorAnnounce,
           SetDescriptorNext, SetDescriptorEnd, ConnectPort, ConnectOld, ConnectListener,
           ConnectRegister, ConnectDescribe, ConnectEnd, DisconnectTell, RemovePortOld,
           RemoveSignalDisconnect, RemoveSignalClear, RemoveSignalForget, RemoveSignalEnd,
           SetDomainSignalUnref, SetDomainSignalRef, told
<1>4. ASSUME NEW c \in 1 .. Len(made)
      PROVE  made'[c].signal = made[c].signal /\ made'[c].port = made[c].port
  <2>1. CASE \E p \in Ports, s \in Signals : Connect(t, p, s)
    <3>1. PICK z : made' = Append(made, z)
        BY <2>1 DEF Connect
    <3> QED
        BY <1>0, <3>1
  <2>2. CASE EnqueuePush(t)
    <3>1. PICK b, x : made' = [made EXCEPT ![b].log = x]
        BY <2>2 DEF EnqueuePush
    <3>2. made[c] \in Made /\ c \in DOMAIN made
        BY <1>0
    <3>3. made'[c] = made[c] \/ made'[c] = [made[c] EXCEPT !.log = x]
        BY <3>1, <3>2
    <3> QED
        BY <3>2, <3>3 DEF Made
  <2>3. \/ \E p \in Ports, s \in Signals : Connect(t, p, s)
        \/ EnqueuePush(t)
        \/ made' = made
      BY DEF NewCall, Continue, SendPacket, SetDescriptor, Disconnect, RemovePort, RemoveSignal,
           SetActive, SetDomainSignal, EnqueueCheckActive, SendPacketEnd, SetDescriptorUnlock,
           SetDescriptorRead, SetDescriptorAnnounce, SetDescriptorNext, SetDescriptorEnd,
           ConnectPort, ConnectOld, ConnectListener, ConnectRegister, ConnectDescribe, ConnectEnd,
           DisconnectTell, RemovePortOld, RemoveSignalDisconnect, RemoveSignalClear,
           RemoveSignalForget, RemoveSignalEnd, SetDomainSignalUnref, SetDomainSignalRef
  <2> QED
      BY <2>1, <2>2, <2>3
<1> QED
    BY <1>1, <1>2, <1>3, <1>4

(* A mutex is taken when it is free and given back by its owner.           *)
LEMMA OwnersKept ==
    ASSUME PathTypes, NEW t \in Threads, HoldsFully(t), NewCall(t) \/ Continue(t)
    PROVE  \A x \in Components : owner[x] \notin {t, None} => owner'[x] = owner[x]
<1>0. owner \in [Components -> Threads \cup {None}]
    BY DEF PathTypes, TreeTypes
<1>1. CASE owner' = owner
    BY <1>1
<1>2. CASE \E x : owner' = [owner EXCEPT ![x] = t] /\ owner[x] = None
    BY <1>0, <1>2
<1>3. CASE \E x : owner' = [owner EXCEPT ![x] = None] /\ owner[x] = t
    BY <1>0, <1>3
<1>4. NewCall(t) => \/ owner' = owner
                    \/ \E x : owner' = [owner EXCEPT ![x] = t] /\ owner[x] = None
    BY DEF NewCall, SendPacket, SetDescriptor, Connect, Disconnect, RemovePort, RemoveSignal,
           SetActive, SetDomainSignal, Take, Free
<1>5. ConnectPort(t) \/ ConnectRegister(t) =>
          \/ owner' = owner
          \/ \E x : owner' = [owner EXCEPT ![x] = t] /\ owner[x] = None
    BY DEF ConnectPort, ConnectRegister, Take, Free
<1>6. ConnectOld(t) \/ RemovePortOld(t) \/ SetDescriptorUnlock(t) \/ ConnectEnd(t)
        \/ RemoveSignalEnd(t) \/ SetDomainSignalRef(t) =>
          \E x : owner' = [owner EXCEPT ![x] = None] /\ owner[x] = t
    BY DEF ConnectOld, RemovePortOld, SetDescriptorUnlock, ConnectEnd, RemoveSignalEnd,
           SetDomainSignalRef, HoldsFully, Release
<1>7. \/ NewCall(t) \/ ConnectPort(t) \/ ConnectRegister(t)
      \/ ConnectOld(t) \/ RemovePortOld(t) \/ SetDescriptorUnlock(t) \/ ConnectEnd(t)
      \/ RemoveSignalEnd(t) \/ SetDomainSignalRef(t)
      \/ owner' = owner
    BY DEF Continue, EnqueueCheckActive, EnqueuePush, SendPacketEnd, SetDescriptorRead,
           SetDescriptorAnnounce, SetDescriptorNext, SetDescriptorEnd, ConnectListener,
           ConnectDescribe, DisconnectTell, RemoveSignalDisconnect, RemoveSignalClear,
           RemoveSignalForget, SetDomainSignalUnref
<1> QED
    BY <1>1, <1>2, <1>3, <1>4, <1>5, <1>6, <1>7

(* Two calls that agree on the connection they make.                       *)
SameConnect(k, j) == j.method = k.method /\ j.c = k.c /\ j.s = k.s /\ j.p = k.p

(* The call a thread is in after a call has begun.                         *)
LEMMA AfterNewCall ==
    ASSUME PathTypes, NEW t \in Threads, NEW j, j = thread'[t]
    PROVE  /\ NewCall(t) => thread[t] = Idle
           /\ \A s \in Signals : SendPacket(t, s) => j.method = "sendPacket" /\ j.at = "enqueue"
           /\ \A s \in Signals, x \in Descriptors :
                  SetDescriptor(t, s, x) => j.method = "setDescriptor" /\ j.at = "enqueue"
           /\ \A p \in Ports, s \in Signals : Connect(t, p, s) =>
                  /\ j.method = "connect" /\ j.at = "port" /\ j.s = s /\ j.p = p
                  /\ j.c = Len(made) + 1
           /\ \A p \in Ports : Disconnect(t, p) =>
                  /\ j.method = "disconnect" /\ j.at = "tell" /\ j.p = p
                  /\ j.todo = <<GetConnectionNoLock(p)>>
           /\ \A p \in Ports : RemovePort(t, p) =>
                  \/ GetConnectionNoLock(p) = 0 /\ j = thread[t]
                  \/ /\ GetConnectionNoLock(p) # 0
                     /\ j.method = "removePort" /\ j.at = "old" /\ j.p = p
                     /\ j.todo = <<GetConnectionNoLock(p)>>
           /\ \A s \in Signals : RemoveSignal(t, s) =>
                  /\ j.method = "removeSignal" /\ j.at = "clear" /\ j.s = s
                  /\ j.todo = connections[s]
           /\ \A x \in Components : SetActive(t, x) => j = thread[t]
           /\ \A s \in ValueSignals, d \in DomainSignals \cup {None} : SetDomainSignal(t, s, d) =>
                  j.method = "setDomainSignal" /\ j.at = "unref" /\ j.s = s
<1>0. thread \in [Threads -> Call] /\ ThreadTypes
    BY DEF PathTypes, ThreadTypes
<1>1. NewCall(t) => thread[t] = Idle
    BY <1>0, BeginType DEF NewCall, SendPacket, SetDescriptor, Connect, Disconnect, RemovePort,
           RemoveSignal, SetActive, SetDomainSignal
<1>2. \A s \in Signals : SendPacket(t, s) => j.method = "sendPacket" /\ j.at = "enqueue"
    BY <1>0 DEF SendPacket, Goto, Enqueuing, Idle
<1>3. \A s \in Signals, x \in Descriptors :
          SetDescriptor(t, s, x) => j.method = "setDescriptor" /\ j.at = "enqueue"
    BY <1>0 DEF SetDescriptor, Goto, Enqueuing, Idle
<1>4. ASSUME NEW p \in Ports, NEW s \in Signals, Connect(t, p, s)
      PROVE  /\ j.method = "connect" /\ j.at = "port" /\ j.s = s /\ j.p = p
             /\ j.c = Len(made) + 1
    BY <1>0, <1>4 DEF Connect, Goto, Idle
<1>5. ASSUME NEW p \in Ports, Disconnect(t, p)
      PROVE  /\ j.method = "disconnect" /\ j.at = "tell" /\ j.p = p
             /\ j.todo = <<GetConnectionNoLock(p)>>
    BY <1>0, <1>5 DEF Disconnect, Goto, Idle
<1>6. ASSUME NEW p \in Ports, RemovePort(t, p)
      PROVE  \/ GetConnectionNoLock(p) = 0 /\ j = thread[t]
             \/ /\ GetConnectionNoLock(p) # 0
                /\ j.method = "removePort" /\ j.at = "old" /\ j.p = p
                /\ j.todo = <<GetConnectionNoLock(p)>>
    BY ZenonT(40), <1>0, <1>6 DEF RemovePort, Goto, Idle
<1>7. ASSUME NEW s \in Signals, RemoveSignal(t, s)
      PROVE  /\ j.method = "removeSignal" /\ j.at = "clear" /\ j.s = s
             /\ j.todo = connections[s]
    BY <1>0, <1>7 DEF RemoveSignal, Goto, Idle
<1>8. \A x \in Components : SetActive(t, x) => j = thread[t]
    BY DEF SetActive
<1>9. \A s \in ValueSignals, d \in DomainSignals \cup {None} : SetDomainSignal(t, s, d) =>
          j.method = "setDomainSignal" /\ j.at = "unref" /\ j.s = s
    BY <1>0 DEF SetDomainSignal, Goto, Idle
<1> QED
    BY <1>1, <1>2, <1>3, <1>4, <1>5, <1>6, <1>7, <1>8, <1>9

(* The call a thread is in after a step that has to do with one end of a   *)
(* connection.                                                             *)
LEMMA AfterEndStep ==
    ASSUME PathTypes, NEW t \in Threads, NEW k \in Call, k = thread[t], NEW j, j = thread'[t]
    PROVE  /\ ConnectPort(t) => /\ k.at = "port" /\ k.method = "connect"
                                /\ \/ j = Idle
                                   \/ j.at = "listener" /\ SameConnect(k, j)
                                   \/ /\ j.at = "old" /\ SameConnect(k, j)
                                      /\ j.todo = <<GetConnectionNoLock(k.p)>>
           /\ ConnectOld(t) => /\ k.at = "old" /\ k.method = "connect"
                               /\ j = Idle \/ (j.at = "listener" /\ SameConnect(k, j))
           /\ ConnectListener(t) => /\ k.at = "listener" /\ k.method = "connect"
                                    /\ j = Idle \/ (j.at = "register" /\ SameConnect(k, j))
           /\ ConnectRegister(t) => /\ k.at = "register" /\ k.method = "connect"
                                    /\ j.at = "describe" /\ SameConnect(k, j)
           /\ ConnectDescribe(t) => /\ k.at = "describe" /\ k.method = "connect"
                                    /\ j.at = "enqueue" /\ SameConnect(k, j)
           /\ ConnectEnd(t) => k.at = "enqueue" /\ k.method = "connect" /\ j = Idle
           /\ DisconnectTell(t) => k.at = "tell" /\ k.method = "disconnect" /\ j = Idle
           /\ RemovePortOld(t) => k.at = "old" /\ k.method = "removePort" /\ j = Idle
           /\ RemoveSignalDisconnect(t) =>
                  /\ k.at = "clear" /\ k.method = "removeSignal"
                  /\ j.at = "clear" /\ SameConnect(k, j)
                  /\ k.todo # << >> /\ j.todo = Tail(k.todo)
           /\ RemoveSignalClear(t) =>
                  /\ k.at = "clear" /\ k.method = "removeSignal" /\ k.todo = << >>
                  /\ j.at = "forget" /\ SameConnect(k, j)
<1>0. /\ thread \in [Threads -> Call] /\ CallOK(k, Len(made))
      /\ k.at \in {"port", "listener", "register", "describe"} => k.method = "connect"
      /\ k.at = "tell" => k.method = "disconnect"
      /\ k.at = "clear" => k.method = "removeSignal"
    BY CallFields DEF PathTypes, ThreadTypes, CallOK
<1>1. ConnectPort(t) => /\ k.at = "port" /\ k.method = "connect"
                        /\ \/ j = Idle
                           \/ j.at = "listener" /\ SameConnect(k, j)
                           \/ /\ j.at = "old" /\ SameConnect(k, j)
                              /\ j.todo = <<GetConnectionNoLock(k.p)>>
  <2>1. ConnectPort(t) => /\ k.at = "port"
                          /\ \/ Goto(t, Idle)
                             \/ Goto(t, [k EXCEPT !.at = "listener"])
                             \/ Goto(t, [k EXCEPT !.at = "old", !.todo = <<GetConnectionNoLock(k.p)>>])
      BY DEF ConnectPort, Return
  <2>2. Goto(t, [k EXCEPT !.at = "listener"]) => j.at = "listener" /\ SameConnect(k, j)
      BY <1>0 DEF Goto, SameConnect, Call
  <2>3. \A q : Goto(t, [k EXCEPT !.at = "old", !.todo = q]) =>
                  j.at = "old" /\ SameConnect(k, j) /\ j.todo = q
      BY <1>0 DEF Goto, SameConnect, Call
  <2>4. Goto(t, Idle) => j = Idle
      BY <1>0 DEF Goto
  <2> QED
      BY <1>0, <2>1, <2>2, <2>3, <2>4
<1>2. ConnectOld(t) => /\ k.at = "old" /\ k.method = "connect"
                       /\ j = Idle \/ (j.at = "listener" /\ SameConnect(k, j))
  <2>1. ConnectOld(t) => /\ k.at = "old" /\ k.method = "connect"
                         /\ \/ Goto(t, Idle)
                            \/ Goto(t, [k EXCEPT !.at = "listener", !.todo = << >>])
      BY DEF ConnectOld, Return
  <2>2. Goto(t, [k EXCEPT !.at = "listener", !.todo = << >>]) =>
            j.at = "listener" /\ SameConnect(k, j)
      BY <1>0 DEF Goto, SameConnect, Call
  <2>3. Goto(t, Idle) => j = Idle
      BY <1>0 DEF Goto
  <2> QED
      BY <2>1, <2>2, <2>3
<1>3. ConnectListener(t) => /\ k.at = "listener" /\ k.method = "connect"
                            /\ j = Idle \/ (j.at = "register" /\ SameConnect(k, j))
    BY <1>0 DEF ConnectListener, Goto, Return, SameConnect, Call
<1>4. ConnectRegister(t) => /\ k.at = "register" /\ k.method = "connect"
                            /\ j.at = "describe" /\ SameConnect(k, j)
    BY <1>0 DEF ConnectRegister, Goto, SameConnect, Call
<1>5. ConnectDescribe(t) => /\ k.at = "describe" /\ k.method = "connect"
                            /\ j.at = "enqueue" /\ SameConnect(k, j)
    BY <1>0 DEF ConnectDescribe, Goto, Enqueuing, SameConnect, Call
<1>6. ConnectEnd(t) => k.at = "enqueue" /\ k.method = "connect" /\ j = Idle
    BY <1>0 DEF ConnectEnd, Goto, Return
<1>7. DisconnectTell(t) => k.at = "tell" /\ k.method = "disconnect" /\ j = Idle
    BY <1>0 DEF DisconnectTell, Goto, Return
<1>8. RemovePortOld(t) => k.at = "old" /\ k.method = "removePort" /\ j = Idle
    BY <1>0 DEF RemovePortOld, Goto, Return
<1>9. RemoveSignalDisconnect(t) =>
          /\ k.at = "clear" /\ k.method = "removeSignal"
          /\ j.at = "clear" /\ SameConnect(k, j)
          /\ k.todo # << >> /\ j.todo = Tail(k.todo)
    BY <1>0 DEF RemoveSignalDisconnect, Goto, SameConnect, Call
<1>10. RemoveSignalClear(t) =>
          /\ k.at = "clear" /\ k.method = "removeSignal" /\ k.todo = << >>
          /\ j.at = "forget" /\ SameConnect(k, j)
    BY <1>0 DEF RemoveSignalClear, Goto, SameConnect, Call
<1> QED
    BY <1>1, <1>2, <1>3, <1>4, <1>5, <1>6, <1>7, <1>8, <1>9, <1>10

(* The call a thread is in after any other step.                           *)
LEMMA AfterOtherStep ==
    ASSUME PathTypes, NEW t \in Threads, NEW k \in Call, k = thread[t], NEW j, j = thread'[t]
    PROVE  /\ EnqueueCheckActive(t) => /\ k.at = "enqueue" /\ j.at \in {"enqueue", "push"}
                                       /\ SameConnect(k, j)
           /\ EnqueuePush(t) => k.at = "push" /\ j.at = "enqueue" /\ SameConnect(k, j)
           /\ SendPacketEnd(t) => k.at = "enqueue" /\ k.method = "sendPacket" /\ j = Idle
           /\ SetDescriptorUnlock(t) \/ SetDescriptorRead(t) \/ SetDescriptorAnnounce(t)
                \/ SetDescriptorNext(t) \/ SetDescriptorEnd(t) =>
                  /\ k.method = "setDescriptor" /\ k.at \in {"enqueue", "read", "announce"}
                  /\ \/ j = Idle
                     \/ j.method = "setDescriptor" /\ j.at \in {"enqueue", "read", "announce"}
           /\ RemoveSignalForget(t) => k.at = "forget" /\ j.at = "forget" /\ SameConnect(k, j)
           /\ RemoveSignalEnd(t) => k.at = "forget" /\ j = Idle
           /\ SetDomainSignalUnref(t) => k.at = "unref" /\ j.at = "ref" /\ SameConnect(k, j)
           /\ SetDomainSignalRef(t) => k.at = "ref" /\ j = Idle
<1>0. /\ thread \in [Threads -> Call] /\ CallOK(k, Len(made))
      /\ k.at \in {"read", "announce"} => k.method = "setDescriptor"
    BY CallFields DEF PathTypes, ThreadTypes, CallOK
<1>1. EnqueueCheckActive(t) => /\ k.at = "enqueue" /\ j.at \in {"enqueue", "push"}
                               /\ SameConnect(k, j)
    BY <1>0 DEF EnqueueCheckActive, Goto, SameConnect, Call
<1>2. EnqueuePush(t) => k.at = "push" /\ j.at = "enqueue" /\ SameConnect(k, j)
    BY <1>0 DEF EnqueuePush, Goto, SameConnect, Call
<1>3. SendPacketEnd(t) => k.at = "enqueue" /\ k.method = "sendPacket" /\ j = Idle
    BY <1>0 DEF SendPacketEnd, Goto, Return
<1>4. SetDescriptorUnlock(t) => /\ k.method = "setDescriptor" /\ k.at = "enqueue"
                                /\ j.method = "setDescriptor" /\ j.at = "read"
    BY <1>0 DEF SetDescriptorUnlock, Goto, Call
<1>5. SetDescriptorRead(t) => /\ k.method = "setDescriptor" /\ k.at = "read"
                              /\ j.method = "setDescriptor" /\ j.at = "announce"
    BY <1>0 DEF SetDescriptorRead, Goto, Call
<1>6. SetDescriptorAnnounce(t) => /\ k.method = "setDescriptor" /\ k.at = "announce"
                                  /\ j.method = "setDescriptor" /\ j.at = "enqueue"
    BY <1>0 DEF SetDescriptorAnnounce, Goto, Enqueuing, Call
<1>7. SetDescriptorNext(t) => /\ k.method = "setDescriptor" /\ k.at = "enqueue"
                              /\ j.method = "setDescriptor" /\ j.at = "announce"
    BY <1>0 DEF SetDescriptorNext, Goto, Call
<1>8. SetDescriptorEnd(t) => k.method = "setDescriptor" /\ k.at = "announce" /\ j = Idle
    BY <1>0 DEF SetDescriptorEnd, Goto, Return
<1>9. RemoveSignalForget(t) => k.at = "forget" /\ j.at = "forget" /\ SameConnect(k, j)
    BY <1>0 DEF RemoveSignalForget, Goto, SameConnect, Call
<1>10. RemoveSignalEnd(t) => k.at = "forget" /\ j = Idle
    BY <1>0 DEF RemoveSignalEnd, Goto, Return
<1>11. SetDomainSignalUnref(t) => k.at = "unref" /\ j.at = "ref" /\ SameConnect(k, j)
    BY <1>0 DEF SetDomainSignalUnref, Goto, SameConnect, Call
<1>12. SetDomainSignalRef(t) => k.at = "ref" /\ j = Idle
    BY <1>0 DEF SetDomainSignalRef, Goto, Return
<1> QED
    BY <1>1, <1>2, <1>3, <1>4, <1>5, <1>6, <1>7, <1>8, <1>9, <1>10, <1>11, <1>12

(* The mutexes of the stages are held: a step of the thread itself.        *)
LEMMA OwnHeldFully ==
    ASSUME PathTypes, NEW t \in Threads, HoldsFully(t), NewCall(t) \/ Continue(t)
    PROVE  HoldsFully(t)'
<1>0. /\ owner \in [Components -> Threads \cup {None}]
      /\ Components = Signals \cup Ports /\ ValueSignals \subseteq Signals
    BY DEF PathTypes, TreeTypes, Components, Signals
<1>1. PICK k \in Call : k = thread[t] /\ CallOK(k, Len(made))
    BY CallFields
<1>2. PICK j : j = thread'[t]
    OBVIOUS
<1>3. CASE j = Idle
    BY <1>2, <1>3, IdleFields DEF HoldsFully
<1>4. CASE owner' = owner /\ k.s = j.s /\ k.p = j.p /\ k.method = j.method
           /\ \/ j.at = k.at
              \/ k.at \in {"enqueue", "push"} /\ j.at \in {"enqueue", "push"}
              \/ k.at = "describe" /\ j.at = "enqueue" /\ k.method = "connect"
              \/ k.at = "clear" /\ j.at = "forget"
              \/ k.at = "unref" /\ j.at = "ref"
    BY <1>1, <1>2, <1>4 DEF HoldsFully
<1>5. ASSUME NEW s \in Signals, owner' = [owner EXCEPT ![s] = t], j.s = s, j.at # "old"
      PROVE  HoldsFully(t)'
    BY <1>0, <1>2, <1>5 DEF HoldsFully
<1>6. ASSUME NEW p \in Ports, owner' = [owner EXCEPT ![p] = t], j.p = p, j.at = "old"
      PROVE  HoldsFully(t)'
    BY <1>0, <1>2, <1>6 DEF HoldsFully
<1>7. CASE \/ j.at \in {"port", "tell", "listener", "read", "announce"}
           \/ j.at = "enqueue" /\ j.method \in {"sendPacket", "setDescriptor"}
    BY <1>2, <1>7 DEF HoldsFully
<1>8. CASE NewCall(t)
  <2>1. ASSUME NEW p \in Ports, RemovePort(t, p) PROVE HoldsFully(t)'
    <3>1. CASE GetConnectionNoLock(p) = 0
        BY <1>1, <1>2, <1>3, <1>8, <2>1, <3>1, AfterNewCall
    <3>2. CASE GetConnectionNoLock(p) # 0
      <4>1. owner' = [owner EXCEPT ![p] = t]
          BY <2>1, <3>2 DEF RemovePort, Take
      <4>2. j.at = "old" /\ j.p = p
          BY <1>2, <2>1, <3>2, AfterNewCall
      <4> QED
          BY <1>6, <4>1, <4>2
    <3> QED
        BY <3>1, <3>2
  <2>2. ASSUME NEW s \in Signals, RemoveSignal(t, s) PROVE HoldsFully(t)'
    <3>1. j.at = "clear" /\ j.s = s
        BY <1>2, <2>2, AfterNewCall
    <3>2. owner' = [owner EXCEPT ![s] = t]
        BY <2>2, Zenon DEF RemoveSignal, Take
    <3> QED
        BY <1>5, <3>1, <3>2
  <2>3. ASSUME NEW s \in ValueSignals, NEW d \in DomainSignals \cup {None}, SetDomainSignal(t, s, d)
        PROVE  HoldsFully(t)'
    <3>1. j.at = "unref" /\ j.s = s /\ s \in Signals
        BY <1>0, <1>2, <2>3, AfterNewCall, Zenon
    <3>2. owner' = [owner EXCEPT ![s] = t]
        BY <2>3, Zenon DEF SetDomainSignal, Take
    <3> QED
        BY <1>5, <3>1, <3>2
  <2> QED
      BY <1>2, <1>3, <1>7, <1>8, <2>1, <2>2, <2>3, AfterNewCall DEF NewCall
<1>9. CASE Continue(t)
  <2>1. CASE ConnectPort(t)
    <3>1. CASE j.at = "old"
      <4>1. k.p \in Ports /\ j.p = k.p /\ k.at = "port"
          BY <1>1, <1>2, <2>1, <3>1, AfterEndStep, HandsFull, IdleFields DEF SameConnect
      <4>2. owner' = [owner EXCEPT ![k.p] = t]
        <5>1. \/ Take(t, k.p)
              \/ Goto(t, Idle) \/ Goto(t, [k EXCEPT !.at = "listener"])
            BY <1>1, <2>1 DEF ConnectPort, Return
        <5>2. ~Goto(t, Idle) /\ ~Goto(t, [k EXCEPT !.at = "listener"])
            BY <1>1, <1>2, <3>1, IdleFields DEF Goto, PathTypes, ThreadTypes, Call
        <5> QED
            BY <5>1, <5>2 DEF Take
      <4> QED
          BY <1>6, <3>1, <4>1, <4>2
    <3> QED
        BY <1>1, <1>2, <1>3, <1>7, <2>1, <3>1, AfterEndStep
  <2>2. CASE ConnectRegister(t)
    <3>1. /\ k.s \in Signals /\ j.s = k.s /\ j.at = "describe"
          /\ owner' = [owner EXCEPT ![k.s] = t]
      <4>1. thread[t].at = "register" /\ owner' = [owner EXCEPT ![thread[t].s] = t]
          BY <2>2, Zenon DEF ConnectRegister, Take
      <4>2. k.s \in Signals
          BY <1>1, <4>1, HandsFull
      <4>3. j.s = k.s /\ j.at = "describe"
          BY <1>1, <1>2, <2>2, AfterEndStep, Zenon DEF SameConnect
      <4> QED
          BY <1>1, <4>1, <4>2, <4>3
    <3> QED
        BY <1>5, <3>1
  <2>3. CASE EnqueueCheckActive(t) \/ EnqueuePush(t) \/ ConnectDescribe(t)
             \/ RemoveSignalDisconnect(t) \/ RemoveSignalClear(t) \/ RemoveSignalForget(t)
             \/ SetDomainSignalUnref(t)
    <3>1. owner' = owner
        BY <2>3 DEF EnqueueCheckActive, EnqueuePush, ConnectDescribe, RemoveSignalDisconnect,
               RemoveSignalClear, RemoveSignalForget, SetDomainSignalUnref
    <3>2. ConnectDescribe(t) \/ RemoveSignalDisconnect(t) \/ RemoveSignalClear(t) =>
              /\ SameConnect(k, j)
              /\ \/ j.at = k.at
                 \/ k.at = "describe" /\ j.at = "enqueue" /\ k.method = "connect"
                 \/ k.at = "clear" /\ j.at = "forget"
        BY <1>1, <1>2, AfterEndStep
    <3>3. EnqueueCheckActive(t) \/ EnqueuePush(t) \/ RemoveSignalForget(t) \/ SetDomainSignalUnref(t) =>
              /\ SameConnect(k, j)
              /\ \/ j.at = k.at
                 \/ k.at \in {"enqueue", "push"} /\ j.at \in {"enqueue", "push"}
                 \/ k.at = "unref" /\ j.at = "ref"
        BY <1>1, <1>2, AfterOtherStep
    <3> QED
        BY <1>4, <2>3, <3>1, <3>2, <3>3, Zenon DEF SameConnect
  <2>4. CASE SendPacketEnd(t) \/ SetDescriptorUnlock(t) \/ SetDescriptorRead(t)
             \/ SetDescriptorAnnounce(t) \/ SetDescriptorNext(t) \/ SetDescriptorEnd(t)
             \/ RemoveSignalEnd(t) \/ SetDomainSignalRef(t)
    <3>1. \/ j = Idle
          \/ j.method = "setDescriptor" /\ j.at \in {"enqueue", "read", "announce"}
        BY <1>1, <1>2, <2>4, AfterOtherStep
    <3> QED
        BY <1>3, <1>7, <3>1
  <2>5. CASE ConnectOld(t) \/ ConnectListener(t) \/ ConnectEnd(t) \/ DisconnectTell(t) \/ RemovePortOld(t)
    <3>1. j = Idle \/ j.at = "listener" \/ j.at = "register"
        BY <1>1, <1>2, <2>5, AfterEndStep
    <3>2. j.at = "register" => HoldsFully(t)'
        BY <1>2 DEF HoldsFully
    <3> QED
        BY <1>3, <1>7, <3>1, <3>2
  <2> QED
      BY <1>9, <2>1, <2>2, <2>3, <2>4, <2>5 DEF Continue
<1> QED
    BY <1>8, <1>9

(* The mutexes of the stages are held: every step, and at first.           *)
LEMMA NextLocksFull == PathTypes /\ LocksFull /\ [PathNext]_pathVars => LocksFull'
<1> SUFFICES ASSUME PathTypes, LocksFull, [PathNext]_pathVars PROVE LocksFull'
    OBVIOUS
<1>1. ASSUME NEW t \in Threads, NewCall(t) \/ Continue(t) PROVE LocksFull'
  <2>1. HoldsFully(t)'
      BY <1>1, OwnHeldFully DEF LocksFull
  <2>2. ASSUME NEW u \in Threads, u # t PROVE HoldsFully(u)'
    <3>1. PICK k \in Call : k = thread[u] /\ k = thread'[u] /\ CallOK(k, Len(made))
        BY <1>1, <2>2, StepFacts, CallFields
    <3>2. HoldsFully(u) /\ u # None
        BY SignalPathAssumption DEF LocksFull
    <3>3. \A x \in Components : owner[x] = u => owner'[x] = u
        BY <1>1, <2>2, <3>2, OwnersKept DEF LocksFull
    <3>4. /\ \/ k.at \in {"describe", "clear", "forget", "unref", "ref"}
             \/ k.at \in {"enqueue", "push"} /\ k.method = "connect"
             => k.s \in Components
          /\ k.at = "old" => k.p \in Components
        BY <3>1 DEF CallOK, Components, Signals
    <3> QED
        BY <3>1, <3>2, <3>3, <3>4 DEF HoldsFully
  <2> QED
      BY <2>1, <2>2 DEF LocksFull
<1>2. CASE UNCHANGED pathVars
    BY <1>2 DEF pathVars, LocksFull, HoldsFully
<1> QED
    BY <1>1, <1>2 DEF PathNext

(* At first no call is in progress.                                        *)
LEMMA InitLocksFull == PathInit => LocksFull
BY IdleFields DEF PathInit, LocksFull, HoldsFully

(* The stages of connect before the port refers to the new connection,     *)
(* and those after its signal has listed it.                               *)
Early == {"port", "old"}
Late == {"enqueue", "push"}

Connects(t, c) == thread[t].method = "connect" /\ thread[t].c = c
Listed(c) == ListedIn(c, connections[made[c].signal])
RefersTo(c) == connectionRef[made[c].port] = c

(* The calls that will take connection c out of the list of its signal.    *)
Erases(t, c) ==
    \/ thread[t].at \in {"old", "tell"} /\ Head(thread[t].todo) = c
    \/ thread[t].at = "clear" /\ thread[t].s = made[c].signal

(* A connection is made by one call, which knows its ends, and is listed   *)
(* by its own signal only, once.                                           *)
CallsApart ==
    /\ \A t \in Threads : thread[t].method = "connect" =>
           /\ made[thread[t].c].signal = thread[t].s /\ made[thread[t].c].port = thread[t].p
           /\ thread[t].at \notin Late => ~Listed(thread[t].c)
    /\ \A t, u \in Threads :
           thread[t].method = "connect" /\ thread[u].method = "connect"
               /\ thread[t].c = thread[u].c => u = t
    /\ \A s \in Signals : \A i, j \in DOMAIN connections[s] :
           /\ made[connections[s][i]].signal = s
           /\ connections[s][i] = connections[s][j] => i = j

(* A port refers to its own connections, and to none when it is removed or *)
(* its mutex is held to give one up.                                       *)
RefsInOrder ==
    /\ \A p \in Ports : connectionRef[p] # 0 => made[connectionRef[p]].port = p
    /\ \A p \in Ports : isComponentRemoved[p] => connectionRef[p] = 0
    /\ \A t \in Threads : thread[t].at = "old" =>
           /\ connectionRef[thread[t].p] = 0
           /\ thread[t].method = "connect" => ~isComponentRemoved[thread[t].p]

(* What is taken out of a list was given up before; a removed signal walks *)
(* the connections it lists.                                               *)
ListsInOrder ==
    /\ \A t \in Threads : thread[t].at \in {"old", "tell"} =>
           Head(thread[t].todo) \in raced \/ fate[Head(thread[t].todo)] = "dropped"
    /\ \A t \in Threads : thread[t].at = "clear" =>
           /\ isComponentRemoved[thread[t].s]
           /\ \A i \in DOMAIN thread[t].todo : ListedIn(thread[t].todo[i], connections[thread[t].s])

(* Where a connection stands that no call touched before it was registered. *)
MadeOK(c) ==
    /\ ~isComponentRemoved[made[c].signal]
    /\ \E t \in Threads : Connects(t, c)
    /\ \A t \in Threads : Connects(t, c) =>
           /\ RefersTo(c) <=> thread[t].at \notin Early
           /\ Listed(c) <=> thread[t].at \in Late
ConnectedOK(c) ==
    /\ \A t \in Threads : ~Connects(t, c)
    /\ RefersTo(c) /\ Listed(c)
    /\ isComponentRemoved[made[c].signal] =>
           \E t \in Threads : /\ thread[t].at = "clear" /\ thread[t].s = made[c].signal
                              /\ ListedIn(c, thread[t].todo)
DroppedOK(c) ==
    /\ \A t \in Threads : Connects(t, c) => thread[t].at \in Late
    /\ ~RefersTo(c)
    /\ Listed(c) => \E t \in Threads : Erases(t, c)
FailedOK(c) ==
    /\ \A t \in Threads : ~Connects(t, c)
    /\ ~RefersTo(c) /\ ~Listed(c)
StandsRight(c) ==
    /\ fate[c] = "made" => MadeOK(c)
    /\ fate[c] = "connected" => ConnectedOK(c)
    /\ fate[c] = "dropped" => DroppedOK(c)
    /\ fate[c] = "failed" => FailedOK(c)

Standing == \A c \in 1 .. Len(made) : c \notin raced => StandsRight(c)

EndsInv == CallsApart /\ RefsInOrder /\ ListsInOrder /\ Standing

(* Steps that have to do with an end of a connection.                      *)
EndStep(t) ==
    \/ \E p \in Ports, s \in Signals : Connect(t, p, s)
    \/ \E p \in Ports : Disconnect(t, p) \/ RemovePort(t, p)
    \/ \E s \in Signals : RemoveSignal(t, s)
    \/ ConnectPort(t) \/ ConnectOld(t) \/ ConnectListener(t) \/ ConnectDescribe(t) \/ ConnectEnd(t)
    \/ DisconnectTell(t) \/ RemovePortOld(t) \/ RemoveSignalDisconnect(t) \/ RemoveSignalClear(t)

SameRole(k, j) ==
    /\ k.method = "connect" <=> j.method = "connect"
    /\ k.method = "connect" => /\ SameConnect(k, j)
                               /\ k.at \in Early <=> j.at \in Early
                               /\ k.at \in Late <=> j.at \in Late
    /\ k.at \notin {"old", "tell", "clear", "listener"}
    /\ j.at \notin {"old", "tell", "clear", "listener"}

(* All other steps leave the ends and the role of the call alone.          *)
LEMMA QuietStep ==
    ASSUME PathTypes, NEW t \in Threads, NewCall(t) \/ Continue(t), ~EndStep(t)
    PROVE  /\ SameRole(thread[t], thread'[t])
           /\ isComponentRemoved' = isComponentRemoved /\ connections' = connections
           /\ connectionRef' = connectionRef /\ fate' = fate /\ raced' = raced
           /\ listener' = listener /\ unheard' = unheard /\ Len(made') = Len(made)
<1>1. PICK k \in Call : k = thread[t] /\ CallOK(k, Len(made))
    BY CallFields
<1>2. PICK j : j = thread'[t]
    OBVIOUS
<1>3. CASE NewCall(t)
  <2>1. k = Idle
      BY <1>1, <1>3, AfterNewCall
  <2>2. \/ j.method = "sendPacket" /\ j.at = "enqueue"
        \/ j.method = "setDescriptor" /\ j.at = "enqueue"
        \/ j.method = "setDomainSignal" /\ j.at = "unref"
        \/ j = Idle
      BY <1>1, <1>2, <1>3, <2>1, AfterNewCall DEF NewCall, EndStep
  <2>3. SameRole(k, j)
      BY <2>1, <2>2, IdleFields DEF SameRole
  <2>4. \/ \E s \in Signals : SendPacket(t, s)
        \/ \E s \in Signals, x \in Descriptors : SetDescriptor(t, s, x)
        \/ \E x \in Components : SetActive(t, x)
        \/ \E s \in ValueSignals, d \in DomainSignals \cup {None} : SetDomainSignal(t, s, d)
      BY <1>3 DEF NewCall, EndStep
  <2>5. /\ isComponentRemoved' = isComponentRemoved /\ connections' = connections
        /\ connectionRef' = connectionRef /\ fate' = fate /\ raced' = raced
        /\ listener' = listener /\ unheard' = unheard /\ made' = made
      BY <2>4 DEF SendPacket, SetDescriptor, SetActive, SetDomainSignal, tree, told
  <2> QED
      BY <1>1, <1>2, <2>3, <2>5
<1>4. CASE Continue(t)
  <2>1. \/ EnqueueCheckActive(t) \/ EnqueuePush(t) \/ SendPacketEnd(t)
        \/ SetDescriptorUnlock(t) \/ SetDescriptorRead(t) \/ SetDescriptorAnnounce(t)
        \/ SetDescriptorNext(t) \/ SetDescriptorEnd(t)
        \/ ConnectRegister(t)
        \/ RemoveSignalForget(t) \/ RemoveSignalEnd(t)
        \/ SetDomainSignalUnref(t) \/ SetDomainSignalRef(t)
      BY <1>4 DEF Continue, EndStep
  <2>2. ASSUME EnqueueCheckActive(t) \/ EnqueuePush(t) \/ RemoveSignalForget(t) \/ SetDomainSignalUnref(t)
        PROVE  SameRole(thread[t], thread'[t])
    <3>1. /\ SameConnect(k, j)
          /\ \/ k.at \in {"enqueue", "push"} /\ j.at \in {"enqueue", "push"}
             \/ k.at = "forget" /\ j.at = "forget"
             \/ k.at = "unref" /\ j.at = "ref"
        BY <1>1, <1>2, <2>2, AfterOtherStep
    <3>2. SameRole(k, j)
        BY <1>1, <3>1 DEF SameRole, SameConnect, Early, Late, CallOK
    <3> QED
        BY <1>1, <1>2, <3>2
  <2>3. ASSUME SendPacketEnd(t) \/ SetDescriptorUnlock(t) \/ SetDescriptorRead(t)
               \/ SetDescriptorAnnounce(t) \/ SetDescriptorNext(t) \/ SetDescriptorEnd(t)
               \/ RemoveSignalEnd(t) \/ SetDomainSignalRef(t)
        PROVE  SameRole(thread[t], thread'[t])
    <3>1. /\ \/ k.method \in {"sendPacket", "setDescriptor"} /\ k.at \in {"enqueue", "read", "announce"}
             \/ k.at \in {"forget", "ref"}
          /\ \/ j = Idle
             \/ j.method = "setDescriptor" /\ j.at \in {"enqueue", "read", "announce"}
        BY <1>1, <1>2, <2>3, AfterOtherStep
    <3>2. k.method # "connect"
        BY <1>1, <3>1 DEF CallOK
    <3>3. SameRole(k, j)
        BY <3>1, <3>2, IdleFields DEF SameRole
    <3> QED
        BY <1>1, <1>2, <3>3
  <2>4. ASSUME ConnectRegister(t) PROVE SameRole(thread[t], thread'[t])
    <3>1. /\ k.at = "register" /\ k.method = "connect" /\ j.at = "describe" /\ SameConnect(k, j)
        BY <1>1, <1>2, <2>4, AfterEndStep
    <3>2. SameRole(k, j)
        BY <3>1 DEF SameRole, SameConnect, Early, Late
    <3> QED
        BY <1>1, <1>2, <3>2
  <2>5. SameRole(thread[t], thread'[t])
      BY <2>1, <2>2, <2>3, <2>4
  <2>6. /\ isComponentRemoved' = isComponentRemoved /\ connections' = connections
        /\ connectionRef' = connectionRef /\ fate' = fate /\ raced' = raced
        /\ listener' = listener /\ unheard' = unheard
      BY <2>1 DEF EnqueueCheckActive, EnqueuePush, SendPacketEnd, SetDescriptorUnlock,
           SetDescriptorRead, SetDescriptorAnnounce, SetDescriptorNext, SetDescriptorEnd,
           ConnectRegister, RemoveSignalForget, RemoveSignalEnd, SetDomainSignalUnref,
           SetDomainSignalRef, tree, told
  <2>7. Len(made') = Len(made)
      BY <1>4, <2>6, FateStep DEF PathTypes, ConnectionTypes
  <2> QED
      BY <2>5, <2>6, <2>7
<1> QED
    BY <1>3, <1>4

(* Taking a connection out of a list without repetition, and putting one   *)
(* at its end.                                                             *)
LEMMA ErasedLists ==
    ASSUME NEW q \in Seq(Nat), NEW c, \A i, j \in DOMAIN q : q[i] = q[j] => i = j
    PROVE  /\ \A x : ListedIn(x, Erased(q, c)) <=> ListedIn(x, q) /\ x # c
           /\ \A i, j \in DOMAIN Erased(q, c) : Erased(q, c)[i] = Erased(q, c)[j] => i = j
<1>1. CASE ~ListedIn(c, q)
  <2>1. Erased(q, c) = q
      BY <1>1 DEF Erased
  <2> QED
      BY <1>1, <2>1
<1>2. CASE ListedIn(c, q)
  <2>1. \E i \in DOMAIN q : q[i] = c /\ \A j \in DOMAIN q : q[j] = c => i <= j
      BY <1>2 DEF ListedIn
  <2>2. PICK f : /\ f = CHOOSE i \in DOMAIN q : q[i] = c /\ \A j \in DOMAIN q : q[j] = c => i <= j
                 /\ f \in DOMAIN q /\ q[f] = c
      BY <2>1
  <2>3. PICK e : e = Erased(q, c) /\ e = [i \in 1 .. Len(q) - 1 |-> IF i < f THEN q[i] ELSE q[i + 1]]
      BY <1>2, <2>2 DEF Erased
  <2>4. /\ DOMAIN q = 1 .. Len(q) /\ Len(q) \in Nat /\ f \in 1 .. Len(q) /\ DOMAIN e = 1 .. Len(q) - 1
        /\ \A i \in 1 .. Len(q) - 1 : e[i] = IF i < f THEN q[i] ELSE q[i + 1]
      BY <2>2, <2>3
  <2>5. ASSUME NEW i \in 1 .. Len(q) - 1, NEW j \in 1 .. Len(q) - 1, e[i] = e[j] PROVE i = j
    <3>1. PICK m \in 1 .. Len(q), n \in 1 .. Len(q) :
              /\ m = (IF i < f THEN i ELSE i + 1) /\ e[i] = q[m]
              /\ n = (IF j < f THEN j ELSE j + 1) /\ e[j] = q[n]
        BY SMTT(40), <2>4
    <3>2. m = n
        BY <2>4, <2>5, <3>1
    <3> QED
        BY SMTT(40), <2>4, <3>1, <3>2
  <2>6. ASSUME NEW x, ListedIn(x, e) PROVE ListedIn(x, q) /\ x # c
    <3>1. PICK i \in 1 .. Len(q) - 1 : e[i] = x
        BY <2>4, <2>6 DEF ListedIn
    <3>2. PICK j \in 1 .. Len(q) : q[j] = x /\ j # f
        BY <2>4, <3>1
    <3> QED
        BY <2>2, <2>4, <3>2 DEF ListedIn
  <2>7. ASSUME NEW x, ListedIn(x, q), x # c PROVE ListedIn(x, e)
    <3>1. PICK j \in 1 .. Len(q) : q[j] = x /\ j # f
        BY <2>2, <2>4, <2>7 DEF ListedIn
    <3>2. CASE j < f
      <4>1. j \in 1 .. Len(q) - 1 /\ e[j] = x
          BY <2>4, <3>1, <3>2
      <4> QED
          BY <2>4, <4>1 DEF ListedIn
    <3>3. CASE j > f
      <4>1. j - 1 \in 1 .. Len(q) - 1 /\ e[j - 1] = x
          BY <2>4, <3>1, <3>3
      <4> QED
          BY <2>4, <4>1 DEF ListedIn
    <3> QED
        BY <2>4, <3>1, <3>2, <3>3
  <2> QED
      BY <2>3, <2>4, <2>5, <2>6, <2>7
<1> QED
    BY <1>1, <1>2

(* A connection put at the end of a list that does not hold it.            *)
LEMMA AppendLists ==
    ASSUME NEW q \in Seq(Nat), NEW c \in Nat, ~ListedIn(c, q), \A i, j \in DOMAIN q : q[i] = q[j] => i = j
    PROVE  /\ \A x : ListedIn(x, Append(q, c)) <=> ListedIn(x, q) \/ x = c
           /\ \A i, j \in DOMAIN Append(q, c) : Append(q, c)[i] = Append(q, c)[j] => i = j
<1> DEFINE a == Append(q, c)
<1>1. /\ Len(q) \in Nat /\ DOMAIN a = 1 .. Len(q) + 1 /\ DOMAIN q = 1 .. Len(q)
      /\ a[Len(q) + 1] = c /\ \A i \in 1 .. Len(q) : a[i] = q[i]
    OBVIOUS
<1> HIDE DEF a
<1>2. \A i \in 1 .. Len(q) : q[i] # c
    BY <1>1 DEF ListedIn
<1>3. \A x : ListedIn(x, a) <=> ListedIn(x, q) \/ x = c
  <2>1. ASSUME NEW x, ListedIn(x, a) PROVE ListedIn(x, q) \/ x = c
    <3>1. PICK i \in 1 .. Len(q) + 1 : a[i] = x
        BY <1>1, <2>1 DEF ListedIn
    <3>2. i = Len(q) + 1 \/ i \in 1 .. Len(q)
        BY <1>1, <3>1
    <3> QED
        BY <1>1, <3>1, <3>2 DEF ListedIn
  <2>2. ASSUME NEW x, ListedIn(x, q) \/ x = c PROVE ListedIn(x, a)
    <3>1. Len(q) + 1 \in DOMAIN a /\ \A i \in DOMAIN q : i \in DOMAIN a
        BY <1>1
    <3> QED
        BY <1>1, <2>2, <3>1 DEF ListedIn
  <2> QED
      BY <2>1, <2>2
<1>4. \A i, j \in DOMAIN a : a[i] = a[j] => i = j
    BY <1>1, <1>2
<1> QED
    BY <1>3, <1>4 DEF a

(* What is listed after the first place.                                   *)
LEMMA TailLists ==
    ASSUME NEW q \in Seq(Nat), q # << >>
    PROVE  /\ \A x : ListedIn(x, q) => x = Head(q) \/ ListedIn(x, Tail(q))
           /\ \A i \in DOMAIN Tail(q) : ListedIn(Tail(q)[i], q)
           /\ ListedIn(Head(q), q)
<1> DEFINE r == Tail(q)
<1>1. /\ Len(q) \in Nat /\ Len(q) >= 1 /\ DOMAIN q = 1 .. Len(q)
      /\ DOMAIN r = 1 .. Len(q) - 1 /\ \A i \in 1 .. Len(q) - 1 : r[i] = q[i + 1]
      /\ Head(q) = q[1]
    OBVIOUS
<1> HIDE DEF r
<1>2. ASSUME NEW x, ListedIn(x, q) PROVE x = Head(q) \/ ListedIn(x, r)
  <2>1. PICK i \in 1 .. Len(q) : q[i] = x
      BY <1>1, <1>2 DEF ListedIn
  <2>2. CASE i > 1
    <3>1. i - 1 \in DOMAIN r /\ r[i - 1] = x
        BY <1>1, <2>1, <2>2
    <3> QED
        BY <3>1 DEF ListedIn
  <2> QED
      BY <1>1, <2>1, <2>2
<1>3. \A i \in DOMAIN r : i + 1 \in DOMAIN q /\ r[i] = q[i + 1]
    BY <1>1
<1>4. 1 \in DOMAIN q
    BY <1>1
<1> QED
    BY <1>1, <1>2, <1>3, <1>4 DEF ListedIn, r

(* The same for the lists of the signals.                                  *)
Distinct(f) == \A s \in Signals : \A i, j \in DOMAIN f[s] : f[s][i] = f[s][j] => i = j

(* A connection is taken out of the list of its signal.                    *)
LEMMA TakeOut ==
    ASSUME PathTypes, CallsApart, NEW r \in Signals, NEW c,
           connections' = [connections EXCEPT ![r] = Erased(@, c)]
    PROVE  /\ \A s \in Signals : \A x :
                  ListedIn(x, connections'[s]) <=> ListedIn(x, connections[s]) /\ (s # r \/ x # c)
           /\ Distinct(connections')
<1>1. connections \in [Signals -> Seq(Nat)] /\ Distinct(connections)
    BY DEF PathTypes, ConnectionTypes, CallsApart, Distinct
<1>2. PICK q \in Seq(Nat) : q = connections[r] /\ \A i, j \in DOMAIN q : q[i] = q[j] => i = j
    BY <1>1 DEF Distinct
<1>3. PICK e : e = Erased(q, c)
    OBVIOUS
<1>4. /\ connections'[r] = e
      /\ \A s \in Signals : s # r => connections'[s] = connections[s]
    BY <1>1, <1>2, <1>3
<1>5. /\ \A x : ListedIn(x, e) <=> ListedIn(x, q) /\ x # c
      /\ \A i, j \in DOMAIN e : e[i] = e[j] => i = j
    BY <1>2, <1>3, ErasedLists
<1>6. ASSUME NEW s \in Signals
      PROVE  /\ \A x : ListedIn(x, connections'[s]) <=> ListedIn(x, connections[s]) /\ (s # r \/ x # c)
             /\ \A i, j \in DOMAIN connections'[s] : connections'[s][i] = connections'[s][j] => i = j
  <2>1. CASE s = r
      BY <1>2, <1>4, <1>5, <2>1
  <2>2. CASE s # r
      BY <1>1, <1>4, <2>2 DEF Distinct
  <2> QED
      BY <2>1, <2>2
<1> QED
    BY <1>6 DEF Distinct

(* A connection is put in the list of its signal.                          *)
LEMMA PutIn ==
    ASSUME PathTypes, CallsApart, NEW r \in Signals, NEW c \in Nat, ~ListedIn(c, connections[r]),
           connections' = [connections EXCEPT ![r] = Append(@, c)]
    PROVE  /\ \A s \in Signals : \A x :
                  ListedIn(x, connections'[s]) <=> ListedIn(x, connections[s]) \/ (s = r /\ x = c)
           /\ Distinct(connections')
<1>1. connections \in [Signals -> Seq(Nat)] /\ Distinct(connections)
    BY DEF PathTypes, ConnectionTypes, CallsApart, Distinct
<1>2. PICK q \in Seq(Nat) : q = connections[r] /\ \A i, j \in DOMAIN q : q[i] = q[j] => i = j
    BY <1>1 DEF Distinct
<1>3. PICK e : e = Append(q, c)
    OBVIOUS
<1>4. /\ connections'[r] = e
      /\ \A s \in Signals : s # r => connections'[s] = connections[s]
    BY <1>1, <1>2, <1>3
<1>5. /\ \A x : ListedIn(x, e) <=> ListedIn(x, q) \/ x = c
      /\ \A i, j \in DOMAIN e : e[i] = e[j] => i = j
    BY <1>2, <1>3, AppendLists
<1>6. ASSUME NEW s \in Signals
      PROVE  /\ \A x : ListedIn(x, connections'[s]) <=> ListedIn(x, connections[s]) \/ (s = r /\ x = c)
             /\ \A i, j \in DOMAIN connections'[s] : connections'[s][i] = connections'[s][j] => i = j
  <2>1. CASE s = r
      BY ZenonT(40), <1>2, <1>4, <1>5, <2>1
  <2>2. CASE s # r
      BY <1>1, <1>4, <2>2 DEF Distinct
  <2> QED
      BY <2>1, <2>2
<1> QED
    BY <1>6 DEF Distinct

(* How a call comes to make a connection, to give one up, to walk a list.  *)
LEMMA RoleStep ==
    ASSUME PathTypes, NEW t \in Threads, NewCall(t) \/ Continue(t),
           NEW k \in Call, k = thread[t], NEW j, j = thread'[t]
    PROVE  /\ j.method = "connect" =>
                  \/ \E p \in Ports, s \in Signals : Connect(t, p, s)
                  \/ /\ k.method = "connect" /\ SameConnect(k, j)
                     /\ k.at \in Late => j.at \in Late
                     /\ j.at \in Late => k.at \in Late \/ ConnectDescribe(t)
           /\ j.at \in {"old", "tell"} =>
                  ConnectPort(t) \/ \E p \in Ports : Disconnect(t, p) \/ RemovePort(t, p)
           /\ j.at = "clear" => RemoveSignalDisconnect(t) \/ \E s \in Signals : RemoveSignal(t, s)
<1>0. CallOK(k, Len(made))
    BY CallFields
<1>1. CASE ~EndStep(t)
    BY <1>1, QuietStep DEF SameRole
<1>2. CASE \E p \in Ports, s \in Signals : Connect(t, p, s)
    BY <1>2, AfterNewCall
<1>3. CASE \E p \in Ports : Disconnect(t, p)
    BY <1>3, AfterNewCall
<1>4. CASE \E p \in Ports : RemovePort(t, p)
  <2>1. PICK p \in Ports : RemovePort(t, p)
      BY <1>4
  <2>2. NewCall(t)
      BY <2>1 DEF NewCall
  <2> QED
      BY <2>1, <2>2, AfterNewCall, IdleFields
<1>5. CASE \E s \in Signals : RemoveSignal(t, s)
    BY <1>5, AfterNewCall
<1>6. CASE ConnectPort(t) \/ ConnectOld(t) \/ ConnectListener(t) \/ ConnectDescribe(t)
    BY <1>6, AfterEndStep, IdleFields DEF Late, SameConnect
<1>7. CASE ConnectEnd(t) \/ DisconnectTell(t) \/ RemovePortOld(t)
    BY <1>7, AfterEndStep, IdleFields
<1>8. CASE RemoveSignalDisconnect(t) \/ RemoveSignalClear(t)
    BY <1>8, AfterEndStep DEF SameConnect
<1> QED
    BY <1>1, <1>2, <1>3, <1>4, <1>5, <1>6, <1>7, <1>8 DEF EndStep

(* How the lists of the signals change.                                    *)
LEMMA ListMoves ==
    ASSUME PathTypes, CallsApart, NEW t \in Threads, NewCall(t) \/ Continue(t)
    PROVE  /\ Distinct(connections')
           /\ \A s \in Signals : \A x : ListedIn(x, connections'[s]) =>
                  \/ ListedIn(x, connections[s])
                  \/ ConnectDescribe(t) /\ x = thread[t].c /\ s = thread[t].s
<1>0. connections \in [Signals -> Seq(Nat)] /\ Distinct(connections)
    BY DEF PathTypes, ConnectionTypes, CallsApart, Distinct
<1>1. CASE connections' = connections
    BY <1>0, <1>1
<1>2. ASSUME NEW r \in Signals, NEW c, connections' = [connections EXCEPT ![r] = Erased(@, c)]
      PROVE  /\ Distinct(connections')
             /\ \A s \in Signals : \A x : ListedIn(x, connections'[s]) => ListedIn(x, connections[s])
    BY <1>2, TakeOut
<1>3. CASE ConnectOld(t) \/ DisconnectTell(t) \/ RemovePortOld(t)
  <2>1. PICK c, r : r = made[c].signal /\ c = Head(thread[t].todo) /\ r \in Signals
      BY <1>3, HandsFull DEF ConnectOld, DisconnectTell, RemovePortOld
  <2>2. connections' = connections \/ connections' = [connections EXCEPT ![r] = Erased(@, c)]
      BY <1>3, <2>1 DEF ConnectOld, DisconnectTell, RemovePortOld
  <2> QED
      BY <1>1, <1>2, <2>1, <2>2
<1>4. CASE ConnectDescribe(t)
  <2>1. PICK k \in Call : k = thread[t]
      BY CallFields
  <2>2. k.at = "describe" /\ k.method = "connect" /\ k.s \in Signals /\ k.c \in 1 .. Len(made)
      BY <1>4, <2>1, AfterEndStep, HandsFull
  <2>3. ~ListedIn(k.c, connections[k.s])
      BY <2>1, <2>2 DEF CallsApart, Listed, Late
  <2>4. connections' = [connections EXCEPT ![k.s] = Append(@, k.c)]
      BY <1>4, <2>1 DEF ConnectDescribe
  <2>5. k.c \in Nat
      BY <2>2
  <2> QED
      BY <1>4, <2>1, <2>2, <2>3, <2>4, <2>5, PutIn
<1>5. CASE RemoveSignalClear(t)
  <2>1. connections' = [connections EXCEPT ![thread[t].s] = << >>]
      BY <1>5 DEF RemoveSignalClear
  <2>2. \A s \in Signals : connections'[s] = << >> \/ connections'[s] = connections[s]
      BY <1>0, <2>1
  <2>3. DOMAIN << >> = {}
      OBVIOUS
  <2>4. ASSUME NEW s \in Signals
        PROVE  /\ \A i, j \in DOMAIN connections'[s] : connections'[s][i] = connections'[s][j] => i = j
               /\ \A x : ListedIn(x, connections'[s]) => ListedIn(x, connections[s])
    <3>1. CASE connections'[s] = << >>
        BY <2>3, <3>1 DEF ListedIn
    <3>2. CASE connections'[s] = connections[s]
        BY <1>0, <3>2 DEF Distinct
    <3> QED
        BY <2>2, <3>1, <3>2
  <2> QED
      BY <2>4 DEF Distinct
<1>6. \/ ConnectOld(t) \/ DisconnectTell(t) \/ RemovePortOld(t)
      \/ ConnectDescribe(t) \/ RemoveSignalClear(t)
      \/ connections' = connections
  <2>1. \/ ConnectPort(t) \/ ConnectListener(t) \/ ConnectEnd(t) \/ RemoveSignalDisconnect(t)
        \/ \E p \in Ports, s \in Signals : Connect(t, p, s)
        \/ \E p \in Ports : Disconnect(t, p) \/ RemovePort(t, p)
        \/ \E s \in Signals : RemoveSignal(t, s)
        => connections' = connections
      BY DEF ConnectPort, ConnectListener, ConnectEnd, RemoveSignalDisconnect, Connect,
             Disconnect, RemovePort, RemoveSignal
  <2> QED
      BY <2>1, QuietStep DEF EndStep
<1> QED
    BY <1>1, <1>3, <1>4, <1>5, <1>6

(* CallsApart is kept.                                                     *)
LEMMA NextApart ==
    ASSUME PathTypes, PathTypes', CallsApart, NEW t \in Threads, NewCall(t) \/ Continue(t)
    PROVE  CallsApart'
<1>0. PICK k \in Call : k = thread[t] /\ CallOK(k, Len(made)) /\ Len(made) \in Nat
    BY CallFields
<1>1. PICK j : j = thread'[t]
    OBVIOUS
<1>2. /\ \A u \in Threads : u # t => thread'[u] = thread[u]
      /\ \A c \in 1 .. Len(made) : /\ c \in 1 .. Len(made')
                                   /\ made'[c].signal = made[c].signal
                                   /\ made'[c].port = made[c].port
    BY StepFacts
<1>3. \A u \in Threads : thread[u].method = "connect" =>
          /\ thread[u].c \in 1 .. Len(made) /\ thread[u].s \in Signals /\ thread[u].p \in Ports
    BY HandsFull
<1>4. \A c \in 1 .. Len(made) : made[c].signal \in Signals
  <2>1. \A c \in 1 .. Len(made) : made[c] \in Made
      BY DEF PathTypes, ConnectionTypes
  <2> QED
      BY <2>1 DEF Made
<1>5. ASSUME NEW p \in Ports, NEW s \in Signals, Connect(t, p, s)
      PROVE  /\ j.c = Len(made) + 1 /\ j.s = s /\ j.p = p
             /\ made'[j.c].signal = s /\ made'[j.c].port = p
             /\ connections' = connections
  <2>1. made' = Append(made, [signal |-> s, port |-> p, log |-> << >>]) /\ connections' = connections
      BY <1>5 DEF Connect
  <2>2. j.c = Len(made) + 1 /\ j.s = s /\ j.p = p
      BY <1>1, <1>5, AfterNewCall
  <2>3. made \in Seq(Made)
      BY DEF PathTypes, ConnectionTypes
  <2>4. made'[Len(made) + 1] = [signal |-> s, port |-> p, log |-> << >>]
      BY <2>1, <2>3
  <2> QED
      BY <2>1, <2>2, <2>4
<1>5a. \A u, w \in Threads : thread[u].method = "connect" /\ thread[w].method = "connect"
                            /\ thread[u].c = thread[w].c => w = u
    BY DEF CallsApart
<1>6. ASSUME NEW u \in Threads, thread'[u].method = "connect"
      PROVE  (/\ made[thread[u].c].signal = thread[u].s /\ made[thread[u].c].port = thread[u].p
              /\ thread[u].at \notin Late => ~Listed(thread[u].c))'
  <2>1. CASE u # t
    <3>1. thread'[u] = thread[u] /\ thread[u].method = "connect"
        BY <1>2, <1>6, <2>1
    <3>2. PICK c \in 1 .. Len(made) : c = thread[u].c /\ made[c].signal \in Signals
        BY <1>3, <1>4, <3>1
    <3>3. ASSUME Listed(c)' PROVE Listed(c)
      <4>1. ListedIn(c, connections'[made[c].signal])
          BY <1>2, <3>2, <3>3 DEF Listed
      <4>2. CASE ConnectDescribe(t) /\ c = thread[t].c
        <5>1. k.method = "connect"
            BY <1>0, <4>2, AfterEndStep
        <5> QED
            BY <1>0, <1>5a, <2>1, <3>1, <3>2, <4>2, <5>1
      <4> QED
          BY <3>2, <4>1, <4>2, ListMoves DEF Listed
    <3>4. /\ made[c].signal = thread[u].s /\ made[c].port = thread[u].p
          /\ thread[u].at \notin Late => ~Listed(c)
        BY <3>1, <3>2 DEF CallsApart
    <3>5. thread[u].at \notin Late => ~Listed(c)'
        BY <3>3, <3>4
    <3> QED
        BY <1>2, <3>1, <3>2, <3>4, <3>5 DEF Listed
  <2>2. CASE u = t /\ \E p \in Ports, s \in Signals : Connect(t, p, s)
    <3>1. PICK p \in Ports, s \in Signals : Connect(t, p, s)
        BY <2>2
    <3>2. ~ListedIn(Len(made) + 1, connections[s])
        BY <1>0 DEF ListedIn, PathTypes, ConnectionTypes
    <3> QED
        BY <1>1, <1>5, <2>2, <3>1, <3>2 DEF Listed
  <2>3. CASE u = t /\ ~(\E p \in Ports, s \in Signals : Connect(t, p, s))
    <3>1. /\ k.method = "connect" /\ SameConnect(k, j)
          /\ k.at \in Late => j.at \in Late
          /\ j.at \in Late => k.at \in Late \/ ConnectDescribe(t)
        BY <1>0, <1>1, <1>6, <2>3, RoleStep
    <3>2. PICK c \in 1 .. Len(made) : /\ c = k.c /\ c = j.c /\ made[c].signal \in Signals
                                      /\ k.s = j.s /\ k.p = j.p
        BY <1>0, <1>3, <1>4, <3>1 DEF SameConnect
    <3>3. ASSUME j.at \notin Late, Listed(c)' PROVE FALSE
      <4>1. ListedIn(c, connections'[made[c].signal])
          BY <1>2, <3>2, <3>3 DEF Listed
      <4>2. ~Listed(c)
          BY <1>0, <3>1, <3>2, <3>3 DEF CallsApart
      <4>3. ConnectDescribe(t)
          BY <3>2, <4>1, <4>2, ListMoves DEF Listed
      <4> QED
          BY <1>0, <1>1, <3>3, <4>3, AfterEndStep DEF Late
    <3>4. made[c].signal = k.s /\ made[c].port = k.p
      <4>1. \A w \in Threads : thread[w].method = "connect" =>
                made[thread[w].c].signal = thread[w].s /\ made[thread[w].c].port = thread[w].p
          BY Zenon DEF CallsApart
      <4> QED
          BY <1>0, <3>1, <3>2, <4>1
    <3> QED
        BY <1>0, <1>1, <1>2, <2>3, <3>2, <3>3, <3>4 DEF Listed
  <2> QED
      BY <2>1, <2>2, <2>3
<1>7. ASSUME NEW u \in Threads, NEW w \in Threads, thread'[u].method = "connect",
             thread'[w].method = "connect", thread'[u].c = thread'[w].c, u # w
      PROVE  FALSE
  <2>1. CASE \E p \in Ports, s \in Signals : Connect(t, p, s)
    <3>1. j.c = Len(made) + 1
        BY <1>5, <2>1
    <3> QED
        BY <1>0, <1>1, <1>2, <1>3, <1>7, <3>1 DEF CallsApart
  <2>2. CASE ~(\E p \in Ports, s \in Signals : Connect(t, p, s))
    <3>1. j.method = "connect" => k.method = "connect" /\ j.c = k.c
        BY <1>0, <1>1, <2>2, RoleStep DEF SameConnect
    <3> QED
        BY <1>0, <1>1, <1>2, <1>7, <3>1 DEF CallsApart
  <2> QED
      BY <2>1, <2>2
<1>8. ASSUME NEW s \in Signals, NEW i \in DOMAIN connections'[s]
      PROVE  made'[connections'[s][i]].signal = s
  <2>1. PICK x : x = connections'[s][i] /\ ListedIn(x, connections'[s])
      BY DEF ListedIn
  <2>2. CASE ListedIn(x, connections[s])
    <3>1. made[x].signal = s /\ x \in 1 .. Len(made)
        BY <2>2 DEF ListedIn, CallsApart, PathTypes, ConnectionTypes
    <3> QED
        BY <1>2, <2>1, <3>1
  <2>3. CASE ConnectDescribe(t) /\ x = k.c /\ s = k.s
    <3>1. k.method = "connect"
        BY <1>0, <2>3, AfterEndStep
    <3> QED
        BY <1>0, <1>2, <1>3, <2>1, <2>3, <3>1 DEF CallsApart
  <2> QED
      BY <1>0, <2>1, <2>2, <2>3, ListMoves
<1> QED
    BY <1>6, <1>7, <1>8, ListMoves DEF CallsApart, Distinct

(* Giving up a connection changes its fate and no other.                   *)
LEMMA GivenUpAt ==
    ASSUME NEW f \in Seq(Fates), NEW c \in 0 .. Len(f), NEW x \in 1 .. Len(f)
    PROVE  GivenUp(f, c)[x] = IF x = c THEN "dropped" ELSE f[x]
BY DEF GivenUp

(* A port that refers to a connection nobody touched too early gives it.   *)
LEMMA RefHeld ==
    ASSUME PathTypes, Standing, NEW c \in 1 .. Len(made), c \notin raced, RefersTo(c)
    PROVE  /\ fate[c] \in {"made", "connected"}
           /\ GetConnectionNoLock(made[c].port) = c
<1>1. fate[c] \in Fates /\ StandsRight(c) /\ c # 0
    BY DEF PathTypes, ConnectionTypes, Standing
<1>2. fate[c] \in {"made", "connected"}
    BY <1>1 DEF Fates, StandsRight, DroppedOK, FailedOK
<1>3. Held(c)
  <2>1. CASE fate[c] = "made"
      BY <1>1, <2>1 DEF StandsRight, MadeOK, Connects, Held
  <2>2. CASE fate[c] = "connected"
      BY <1>1, <2>2 DEF StandsRight, ConnectedOK, Listed, Held
  <2> QED
      BY <1>2, <2>1, <2>2
<1> QED
    BY <1>2, <1>3 DEF GetConnectionNoLock, RefersTo

(* A connection that is being made stands at "made".                       *)
LEMMA BeingMade ==
    ASSUME PathTypes, Standing, NEW t \in Threads, thread[t].method = "connect",
           thread[t].at \notin Late, thread[t].c \notin raced
    PROVE  fate[thread[t].c] = "made" /\ thread[t].c \in 1 .. Len(made) /\ MadeOK(thread[t].c)
<1>1. PICK c \in 1 .. Len(made) : c = thread[t].c
    BY HandsFull
<1>2. fate[c] \in Fates /\ StandsRight(c)
    BY <1>1 DEF PathTypes, ConnectionTypes, Standing
<1>3. Connects(t, c)
    BY <1>1 DEF Connects
<1>4. fate[c] = "made"
    BY <1>1, <1>2, <1>3 DEF StandsRight, ConnectedOK, DroppedOK, FailedOK, Fates
<1> QED
    BY <1>1, <1>2, <1>4 DEF StandsRight

(* A connection that was given up stays so.                                *)
LEMMA DroppedStays ==
    ASSUME PathTypes, Standing, NEW t \in Threads, NewCall(t) \/ Continue(t),
           NEW c \in 1 .. Len(made), fate[c] = "dropped", c \notin raced
    PROVE  fate'[c] = "dropped"
<1>0. /\ fate \in Seq(Fates) /\ Len(fate) = Len(made) /\ Len(made) \in Nat
    BY DEF PathTypes, ConnectionTypes
<1>1. PICK k \in Call : k = thread[t] /\ CallOK(k, Len(made))
    BY CallFields
<1>2. ASSUME k.method = "connect", k.at \notin Late PROVE c # k.c
    BY <1>1, <1>2, BeingMade
<1>3. ASSUME NEW b \in 0 .. Len(made), fate' = GivenUp(fate, b) PROVE fate'[c] = "dropped"
    BY <1>0, <1>3, GivenUpAt
<1>4. ASSUME NEW b \in 0 .. Len(made), NEW x, fate' = [GivenUp(fate, b) EXCEPT ![k.c] = x], c # k.c
      PROVE  fate'[c] = "dropped"
  <2>1. fate'[c] = GivenUp(fate, b)[c]
      BY <1>4
  <2> QED
      BY <1>0, <2>1, GivenUpAt
<1>5. ASSUME NEW x, fate' = [fate EXCEPT ![k.c] = x], c # k.c PROVE fate'[c] = "dropped"
    BY <1>5
<1>6. CASE \E p \in Ports, s \in Signals : Connect(t, p, s)
  <2>1. fate' = Append(fate, "made")
      BY <1>6 DEF Connect
  <2> QED
      BY <1>0, <2>1
<1>7. CASE \E p \in Ports : Disconnect(t, p) \/ RemovePort(t, p)
    BY <1>3, <1>7, RefType DEF Disconnect, RemovePort
<1>8. CASE \E s \in Signals : RemoveSignal(t, s)
    BY <1>8 DEF RemoveSignal
<1>9. CASE ConnectPort(t)
  <2>1. k.at = "port" /\ k.method = "connect" /\ k.p \in Ports
      BY <1>1, <1>9, AfterEndStep, HandsFull
  <2>2. \/ fate' = [fate EXCEPT ![k.c] = "failed"]
        \/ fate' = fate
        \/ fate' = GivenUp(fate, GetConnectionNoLock(k.p))
      BY <1>1, <1>9 DEF ConnectPort
  <2> QED
      BY <1>2, <1>3, <1>5, <2>1, <2>2, RefType DEF Late
<1>10. CASE ConnectOld(t)
  <2>1. k.at = "old" /\ k.method = "connect"
      BY <1>1, <1>10, AfterEndStep
  <2>2. fate' = [fate EXCEPT ![k.c] = "failed"] \/ fate' = fate
      BY <1>1, <1>10 DEF ConnectOld
  <2> QED
      BY <1>2, <1>5, <2>1, <2>2 DEF Late
<1>11. CASE ConnectListener(t)
  <2>1. k.at = "listener" /\ k.method = "connect" /\ k.p \in Ports
      BY <1>1, <1>11, AfterEndStep, HandsFull
  <2>2. fate' = fate \/ fate' = [GivenUp(fate, connectionRef[k.p]) EXCEPT ![k.c] = "failed"]
      BY <1>1, <1>11 DEF ConnectListener
  <2> QED
      BY <1>2, <1>4, <2>1, <2>2, RefType DEF Late
<1>12. CASE ConnectDescribe(t) \/ DisconnectTell(t) \/ RemovePortOld(t) \/ RemoveSignalClear(t)
    BY <1>12 DEF ConnectDescribe, DisconnectTell, RemovePortOld, RemoveSignalClear
<1>13. CASE ConnectEnd(t)
  <2>1. fate' = [fate EXCEPT ![k.c] = IF @ = "made" THEN "connected" ELSE @]
      BY <1>1, <1>13 DEF ConnectEnd
  <2> QED
      BY <1>0, <2>1
<1>14. CASE RemoveSignalDisconnect(t)
  <2>1. PICK p \in Ports : fate' = GivenUp(fate, GetConnectionNoLock(p))
      BY <1>14, HandsFull DEF RemoveSignalDisconnect
  <2> QED
      BY <1>3, <2>1, RefType
<1>15. CASE ~EndStep(t)
    BY <1>15, QuietStep
<1> QED
    BY <1>6, <1>7, <1>8, <1>9, <1>10, <1>11, <1>12, <1>13, <1>14, <1>15 DEF EndStep

(* How the references of the ports change.                                 *)
LEMMA RefMoves ==
    ASSUME PathTypes, LocksFull, RefsInOrder, NEW t \in Threads, NewCall(t) \/ Continue(t)
    PROVE  \/ connectionRef' = connectionRef
           \/ \E p \in Ports : connectionRef' = [connectionRef EXCEPT ![p] = 0]
           \/ /\ connectionRef' = [connectionRef EXCEPT ![thread[t].p] = thread[t].c]
              /\ thread[t].method = "connect" /\ thread[t].p \in Ports
              /\ ~isComponentRemoved[thread[t].p] /\ isComponentRemoved' = isComponentRemoved
              /\ owner[thread[t].p] \in {t, None}
<1>1. PICK k \in Call : k = thread[t] /\ CallOK(k, Len(made))
    BY CallFields
<1>2. CASE ConnectPort(t)
  <2>1. k.at = "port" /\ k.method = "connect" /\ k.p \in Ports
      BY <1>1, <1>2, AfterEndStep, HandsFull
  <2>2. \/ connectionRef' = connectionRef
        \/ connectionRef' = [connectionRef EXCEPT ![k.p] = 0]
        \/ /\ connectionRef' = [connectionRef EXCEPT ![k.p] = k.c]
           /\ ~isComponentRemoved[k.p] /\ owner[k.p] = None /\ isComponentRemoved' = isComponentRemoved
      BY <1>1, <1>2 DEF ConnectPort, Free, tree
  <2> QED
      BY <1>1, <2>1, <2>2
<1>3. CASE ConnectOld(t)
  <2>1. k.at = "old" /\ k.method = "connect" /\ k.p \in Ports
      BY <1>1, <1>3, AfterEndStep, HandsFull
  <2>2. ~isComponentRemoved[k.p] /\ owner[k.p] = t
      BY <1>1, <2>1 DEF RefsInOrder, LocksFull, HoldsFully
  <2>3. /\ isComponentRemoved' = isComponentRemoved
        /\ connectionRef' = connectionRef \/ connectionRef' = [connectionRef EXCEPT ![k.p] = k.c]
      BY <1>1, <1>3 DEF ConnectOld, tree
  <2> QED
      BY <1>1, <2>1, <2>2, <2>3
<1>4. CASE ConnectListener(t)
  <2>1. k.p \in Ports
      BY <1>1, <1>4, AfterEndStep, HandsFull
  <2> QED
      BY <1>1, <1>4, <2>1 DEF ConnectListener
<1>5. CASE RemoveSignalDisconnect(t)
    BY <1>5, HandsFull DEF RemoveSignalDisconnect
<1>6. CASE \E p \in Ports : Disconnect(t, p) \/ RemovePort(t, p)
    BY <1>6 DEF Disconnect, RemovePort
<1>7. CASE \/ \E p \in Ports, s \in Signals : Connect(t, p, s)
           \/ \E s \in Signals : RemoveSignal(t, s)
           \/ ConnectDescribe(t) \/ ConnectEnd(t) \/ DisconnectTell(t) \/ RemovePortOld(t)
           \/ RemoveSignalClear(t)
    BY <1>7 DEF Connect, RemoveSignal, ConnectDescribe, ConnectEnd, DisconnectTell,
           RemovePortOld, RemoveSignalClear
<1>8. CASE ~EndStep(t)
    BY <1>8, QuietStep
<1> QED
    BY <1>2, <1>3, <1>4, <1>5, <1>6, <1>7, <1>8 DEF EndStep

(* How components come to be removed.                                      *)
LEMMA RemovedMoves ==
    ASSUME PathTypes, NEW t \in Threads, NewCall(t) \/ Continue(t)
    PROVE  \/ isComponentRemoved' = isComponentRemoved
           \/ \E p \in Ports : /\ isComponentRemoved' = [isComponentRemoved EXCEPT ![p] = TRUE]
                               /\ RemovePort(t, p) /\ owner[p] = None
                               /\ connectionRef' = [connectionRef EXCEPT ![p] = 0]
           \/ \E s \in Signals : /\ isComponentRemoved' = [isComponentRemoved EXCEPT ![s] = TRUE]
                                 /\ RemoveSignal(t, s) /\ connectionRef' = connectionRef
<1>1. ASSUME NEW p \in Ports, RemovePort(t, p)
      PROVE  /\ isComponentRemoved' = [isComponentRemoved EXCEPT ![p] = TRUE]
             /\ owner[p] = None /\ connectionRef' = [connectionRef EXCEPT ![p] = 0]
    BY <1>1 DEF RemovePort, Removed, Free
<1>2. ASSUME NEW s \in Signals, RemoveSignal(t, s)
      PROVE  /\ isComponentRemoved' = [isComponentRemoved EXCEPT ![s] = TRUE]
             /\ connectionRef' = connectionRef
    BY <1>2 DEF RemoveSignal, Removed
<1>3. CASE \/ \E p \in Ports, s \in Signals : Connect(t, p, s)
           \/ \E p \in Ports : Disconnect(t, p)
           \/ ConnectPort(t) \/ ConnectOld(t) \/ ConnectListener(t) \/ ConnectDescribe(t) \/ ConnectEnd(t)
           \/ DisconnectTell(t) \/ RemovePortOld(t) \/ RemoveSignalDisconnect(t) \/ RemoveSignalClear(t)
    BY <1>3 DEF Connect, Disconnect, ConnectPort, ConnectOld, ConnectListener, ConnectDescribe,
           ConnectEnd, DisconnectTell, RemovePortOld, RemoveSignalDisconnect, RemoveSignalClear, tree
<1>4. CASE ~EndStep(t)
    BY <1>4, QuietStep
<1> QED
    BY <1>1, <1>2, <1>3, <1>4 DEF EndStep

(* RefsInOrder is kept.                                                    *)
LEMMA NextRefs ==
    ASSUME PathTypes, PathTypes', LocksFull, CallsApart, RefsInOrder,
           NEW t \in Threads, NewCall(t) \/ Continue(t)
    PROVE  RefsInOrder'
<1>0. PICK k \in Call : k = thread[t] /\ CallOK(k, Len(made)) /\ Len(made) \in Nat
    BY CallFields
<1>1. /\ connectionRef \in [Ports -> 0 .. Len(made)]
      /\ isComponentRemoved \in [Components -> BOOLEAN]
      /\ Components = Signals \cup Ports /\ Signals \cap Ports = {} /\ None \notin Threads
    BY SignalPathAssumption DEF PathTypes, TreeTypes, ConnectionTypes, Components
<1>2. /\ \A u \in Threads : u # t => thread'[u] = thread[u]
      /\ \A c \in 1 .. Len(made) : /\ made'[c].signal = made[c].signal
                                   /\ made'[c].port = made[c].port
    BY StepFacts
<1>3. ASSUME NEW p \in Ports, connectionRef'[p] # 0 PROVE made'[connectionRef'[p]].port = p
  <2>1. CASE connectionRef'[p] = connectionRef[p]
    <3>1. connectionRef[p] \in 1 .. Len(made) /\ made[connectionRef[p]].port = p
        BY <1>1, <1>3, <2>1 DEF RefsInOrder
    <3> QED
        BY <1>2, <2>1, <3>1
  <2>2. CASE connectionRef'[p] = k.c /\ k.p = p /\ k.method = "connect"
    <3>1. k.c \in 1 .. Len(made) /\ made[k.c].port = p
        BY <1>0, <2>2, HandsFull DEF CallsApart
    <3> QED
        BY <1>2, <2>2, <3>1
  <2> QED
      BY <1>0, <1>1, <1>3, <2>1, <2>2, RefMoves
<1>4. ASSUME NEW p \in Ports, isComponentRemoved'[p] PROVE connectionRef'[p] = 0
  <2>1. CASE isComponentRemoved' = isComponentRemoved
    <3>1. connectionRef[p] = 0
        BY <1>4, <2>1 DEF RefsInOrder
    <3> QED
        BY <1>1, <1>4, <2>1, <3>1, RefMoves
  <2>2. CASE \E s \in Signals : /\ isComponentRemoved' = [isComponentRemoved EXCEPT ![s] = TRUE]
                                /\ connectionRef' = connectionRef
      BY <1>1, <1>4, <2>2 DEF RefsInOrder
  <2>3. CASE \E r \in Ports : /\ isComponentRemoved' = [isComponentRemoved EXCEPT ![r] = TRUE]
                              /\ connectionRef' = [connectionRef EXCEPT ![r] = 0]
      BY <1>1, <1>4, <2>3 DEF RefsInOrder
  <2> QED
      BY <2>1, <2>2, <2>3, RemovedMoves
<1>5. ASSUME NEW u \in Threads, thread'[u].at = "old"
      PROVE  /\ connectionRef'[thread'[u].p] = 0
             /\ thread'[u].method = "connect" => ~isComponentRemoved'[thread'[u].p]
  <2>1. CASE u # t
    <3>1. /\ thread'[u] = thread[u] /\ thread[u].at = "old" /\ thread[u].p \in Ports
          /\ owner[thread[u].p] = u /\ connectionRef[thread[u].p] = 0
          /\ thread[u].method = "connect" => ~isComponentRemoved[thread[u].p]
        BY <1>2, <1>5, <2>1, HandsFull DEF LocksFull, HoldsFully, RefsInOrder
    <3>2. connectionRef'[thread[u].p] = 0
        BY <1>1, <2>1, <3>1, RefMoves
    <3>3. thread[u].method = "connect" => ~isComponentRemoved'[thread[u].p]
        BY <1>1, <3>1, RemovedMoves
    <3> QED
        BY <3>1, <3>2, <3>3
  <2>2. CASE u = t /\ ConnectPort(t)
    <3>1. /\ k.at = "port" /\ k.method = "connect" /\ k.p \in Ports
          /\ thread'[t].p = k.p /\ thread'[t].todo = <<GetConnectionNoLock(k.p)>>
      <4>1. PICK j : j = thread'[t] /\ j.at = "old"
          BY <1>5, <2>2
      <4>2. k.at = "port" /\ k.method = "connect" /\ SameConnect(k, j) /\ j.todo = <<GetConnectionNoLock(k.p)>>
          BY SMTT(40), <1>0, <2>2, <4>1, AfterEndStep, IdleFields
      <4> QED
          BY <1>0, <4>1, <4>2, HandsFull DEF SameConnect
    <3>2. /\ connectionRef' = [connectionRef EXCEPT ![k.p] = 0]
          /\ ~isComponentRemoved[k.p] /\ isComponentRemoved' = isComponentRemoved
      <4>1. \/ /\ connectionRef' = [connectionRef EXCEPT ![k.p] = 0]
               /\ ~isComponentRemoved[k.p]
            \/ Goto(t, Idle) \/ Goto(t, [k EXCEPT !.at = "listener"])
          BY <1>0, <2>2 DEF ConnectPort, Return
      <4>2. ~Goto(t, Idle) /\ ~Goto(t, [k EXCEPT !.at = "listener"])
          BY <1>0, <1>5, <2>2, IdleFields DEF Goto, PathTypes, ThreadTypes, Call
      <4>3. isComponentRemoved' = isComponentRemoved
          BY <2>2 DEF ConnectPort, tree
      <4> QED
          BY <4>1, <4>2, <4>3
    <3> QED
        BY <1>1, <2>2, <3>1, <3>2
  <2>3. ASSUME u = t, NEW p \in Ports, RemovePort(t, p)
        PROVE  connectionRef'[thread'[u].p] = 0 /\ thread'[u].method # "connect"
    <3>1. connectionRef' = [connectionRef EXCEPT ![p] = 0] /\ NewCall(t)
        BY <2>3 DEF RemovePort, NewCall
    <3>2. thread'[t].p = p /\ thread'[t].method = "removePort"
        BY <1>5, <2>3, <3>1, AfterNewCall, IdleFields
    <3> QED
        BY <1>1, <2>3, <3>1, <3>2
  <2>4. u = t => ConnectPort(t) \/ \E p \in Ports : RemovePort(t, p)
    <3>1. \A p \in Ports : Disconnect(t, p) => thread'[t].at = "tell"
        BY AfterNewCall
    <3> QED
        BY <1>0, <1>5, <3>1, RoleStep
  <2> QED
      BY <2>1, <2>2, <2>3, <2>4
<1> QED
    BY <1>3, <1>4, <1>5 DEF RefsInOrder

(* A list somebody else's mutex guards loses nothing.                      *)
LEMMA GuardedLists ==
    ASSUME PathTypes, CallsApart, LocksFull, NEW t \in Threads, NewCall(t) \/ Continue(t),
           NEW s \in Signals, owner[s] \notin {t, None}, NEW x, ListedIn(x, connections[s])
    PROVE  ListedIn(x, connections'[s])
<1>0. PICK k \in Call : k = thread[t] /\ CallOK(k, Len(made)) /\ Len(made) \in Nat
    BY CallFields
<1>1. CASE connections' = connections
    BY <1>1
<1>2. CASE ConnectOld(t) \/ DisconnectTell(t) \/ RemovePortOld(t)
  <2>1. PICK c, r : r = made[c].signal /\ c = Head(thread[t].todo) /\ r \in Signals
      BY <1>2, HandsFull DEF ConnectOld, DisconnectTell, RemovePortOld
  <2>2. /\ owner[r] = None
        /\ connections' = connections \/ connections' = [connections EXCEPT ![r] = Erased(@, c)]
      BY <1>2, <2>1 DEF ConnectOld, DisconnectTell, RemovePortOld, Free
  <2>3. CASE connections' = [connections EXCEPT ![r] = Erased(@, c)]
      BY <2>1, <2>2, <2>3, TakeOut
  <2> QED
      BY <1>1, <2>2, <2>3
<1>3. CASE ConnectDescribe(t)
  <2>2. k.at = "describe" /\ k.method = "connect" /\ k.s \in Signals /\ k.c \in 1 .. Len(made)
      BY <1>0, <1>3, AfterEndStep, HandsFull
  <2>3. owner[k.s] = t
      BY <1>0, <2>2 DEF LocksFull, HoldsFully
  <2>4. connections' = [connections EXCEPT ![k.s] = Append(@, k.c)]
      BY <1>0, <1>3 DEF ConnectDescribe
  <2> QED
      BY <2>2, <2>3, <2>4 DEF PathTypes, ConnectionTypes
<1>4. CASE RemoveSignalClear(t)
  <2>1. owner[k.s] = t
      BY <1>0, <1>4, AfterEndStep DEF LocksFull, HoldsFully
  <2>2. connections' = [connections EXCEPT ![k.s] = << >>]
      BY <1>0, <1>4 DEF RemoveSignalClear
  <2> QED
      BY <2>1, <2>2 DEF PathTypes, ConnectionTypes
<1>5. \/ ConnectOld(t) \/ DisconnectTell(t) \/ RemovePortOld(t)
      \/ ConnectDescribe(t) \/ RemoveSignalClear(t)
      \/ connections' = connections
  <2>1. \/ ConnectPort(t) \/ ConnectListener(t) \/ ConnectEnd(t) \/ RemoveSignalDisconnect(t)
        \/ \E p \in Ports, r \in Signals : Connect(t, p, r)
        \/ \E p \in Ports : Disconnect(t, p) \/ RemovePort(t, p)
        \/ \E r \in Signals : RemoveSignal(t, r)
        => connections' = connections
      BY DEF ConnectPort, ConnectListener, ConnectEnd, RemoveSignalDisconnect, Connect,
             Disconnect, RemovePort, RemoveSignal
  <2> QED
      BY <2>1, QuietStep DEF EndStep
<1> QED
    BY <1>1, <1>2, <1>3, <1>4, <1>5

(* ListsInOrder is kept.                                                   *)
LEMMA NextLists ==
    ASSUME PathTypes, PathTypes', LocksFull, CallsApart, Standing, ListsInOrder,
           NEW t \in Threads, NewCall(t) \/ Continue(t)
    PROVE  ListsInOrder'
<1>0. PICK k \in Call : k = thread[t] /\ CallOK(k, Len(made)) /\ Len(made) \in Nat
    BY CallFields
<1>1. /\ isComponentRemoved \in [Components -> BOOLEAN] /\ None \notin Threads
      /\ Components = Signals \cup Ports /\ Signals \cap Ports = {}
      /\ fate \in Seq(Fates) /\ Len(fate) = Len(made)
      /\ connections \in [Signals -> Seq(Nat)]
    BY SignalPathAssumption DEF PathTypes, TreeTypes, ConnectionTypes, Components
<1>2. /\ \A u \in Threads : u # t => thread'[u] = thread[u]
      /\ raced \subseteq raced'
    BY StepFacts
<1>3. ASSUME NEW u \in Threads, thread'[u].at \in {"old", "tell"}
      PROVE  Head(thread'[u].todo) \in raced' \/ fate'[Head(thread'[u].todo)] = "dropped"
  <2>1. CASE u # t
    <3>1. /\ thread'[u] = thread[u] /\ Head(thread[u].todo) \in 1 .. Len(made)
          /\ Head(thread[u].todo) \in raced \/ fate[Head(thread[u].todo)] = "dropped"
        BY <1>2, <1>3, <2>1, HandsFull DEF ListsInOrder
    <3> QED
        BY <1>2, <3>1, DroppedStays
  <2>2. ASSUME u = t, NEW c \in 1 .. Len(made), thread'[t].todo = <<c>>, fate' = GivenUp(fate, c)
        PROVE  fate'[Head(thread'[u].todo)] = "dropped"
      BY <1>1, <2>2, GivenUpAt
  <2>3. CASE u = t /\ ConnectPort(t)
    <3>1. /\ k.at = "port" /\ k.method = "connect" /\ k.p \in Ports
          /\ thread'[t].todo = <<GetConnectionNoLock(k.p)>>
        BY ZenonT(40), <1>0, <1>3, <2>3, AfterEndStep, HandsFull, IdleFields
    <3>2. GetConnectionNoLock(k.p) # 0 /\ fate' = GivenUp(fate, GetConnectionNoLock(k.p))
      <4>1. \/ GetConnectionNoLock(k.p) # 0 /\ fate' = GivenUp(fate, GetConnectionNoLock(k.p))
            \/ Goto(t, Idle) \/ Goto(t, [k EXCEPT !.at = "listener"])
          BY <1>0, <2>3 DEF ConnectPort, Return
      <4>2. ~Goto(t, Idle) /\ ~Goto(t, [k EXCEPT !.at = "listener"])
          BY <1>0, <1>3, <2>3, IdleFields DEF Goto, PathTypes, ThreadTypes, Call
      <4> QED
          BY <4>1, <4>2
    <3>3. GetConnectionNoLock(k.p) \in 1 .. Len(made)
        BY <1>0, <3>1, <3>2, RefType
    <3> QED
        BY <2>2, <2>3, <3>1, <3>2, <3>3
  <2>4. ASSUME u = t, NEW p \in Ports, Disconnect(t, p) \/ RemovePort(t, p)
        PROVE  fate'[Head(thread'[u].todo)] = "dropped"
    <3>1. fate' = GivenUp(fate, GetConnectionNoLock(p)) /\ NewCall(t)
        BY <2>4 DEF Disconnect, RemovePort, NewCall
    <3>2. thread[t] = Idle
        BY <3>1, AfterNewCall
    <3>3. thread'[t].todo = <<GetConnectionNoLock(p)>> /\ GetConnectionNoLock(p) # 0
      <4>1. CASE Disconnect(t, p)
        <5>1. GetConnectionNoLock(p) # 0
            BY <4>1 DEF Disconnect
        <5> QED
            BY <4>1, <5>1, AfterNewCall
      <4>2. CASE RemovePort(t, p)
        <5>1. PICK j : j = thread'[t] /\ j.at \in {"old", "tell"}
            BY <1>3, <2>4
        <5>2. \/ GetConnectionNoLock(p) = 0 /\ j = Idle
              \/ GetConnectionNoLock(p) # 0 /\ j.todo = <<GetConnectionNoLock(p)>>
            BY <3>2, <4>2, <5>1, AfterNewCall
        <5> QED
            BY <5>1, <5>2, IdleFields
      <4> QED
          BY <2>4, <4>1, <4>2
    <3>4. GetConnectionNoLock(p) \in 1 .. Len(made)
        BY <1>0, <3>3, RefType
    <3> QED
        BY <2>2, <2>4, <3>1, <3>3, <3>4
  <2> QED
      BY <1>0, <1>3, <2>1, <2>3, <2>4, RoleStep
<1>4. ASSUME NEW u \in Threads, thread'[u].at = "clear"
      PROVE  /\ isComponentRemoved'[thread'[u].s]
             /\ \A i \in DOMAIN thread'[u].todo : ListedIn(thread'[u].todo[i], connections'[thread'[u].s])
  <2>1. CASE u # t
    <3>1. /\ thread'[u] = thread[u] /\ thread[u].s \in Signals /\ owner[thread[u].s] = u
          /\ isComponentRemoved[thread[u].s]
          /\ \A i \in DOMAIN thread[u].todo : ListedIn(thread[u].todo[i], connections[thread[u].s])
        BY <1>2, <1>4, <2>1, HandsFull DEF ListsInOrder, LocksFull, HoldsFully
    <3>2. isComponentRemoved'[thread[u].s]
        BY <1>1, <3>1, RemovedMoves
    <3>3. \A i \in DOMAIN thread[u].todo : ListedIn(thread[u].todo[i], connections'[thread[u].s])
        BY <1>1, <2>1, <3>1, GuardedLists
    <3> QED
        BY <3>1, <3>2, <3>3
  <2>2. CASE u = t /\ RemoveSignalDisconnect(t)
    <3>1. /\ k.at = "clear" /\ thread'[t].s = k.s /\ k.todo # << >> /\ thread'[t].todo = Tail(k.todo)
        BY <1>0, <2>2, AfterEndStep DEF SameConnect
    <3>2. connections' = connections /\ isComponentRemoved' = isComponentRemoved
        BY <2>2 DEF RemoveSignalDisconnect, tree
    <3>3. PICK q \in Seq(Nat) : q = k.todo
        BY <1>0, CallFields
    <3>4. \A x : ListedIn(x, q) => ListedIn(x, connections[k.s])
        BY <1>0, <3>1, <3>3 DEF ListsInOrder, ListedIn
    <3>5. \A i \in DOMAIN Tail(q) : ListedIn(Tail(q)[i], q)
        BY <3>1, <3>3, TailLists
    <3>6. isComponentRemoved[k.s]
        BY <1>0, <3>1 DEF ListsInOrder
    <3> QED
        BY <2>2, <3>1, <3>2, <3>3, <3>4, <3>5, <3>6
  <2>3. ASSUME u = t, NEW s \in Signals, RemoveSignal(t, s)
        PROVE  /\ isComponentRemoved'[thread'[u].s]
               /\ \A i \in DOMAIN thread'[u].todo : ListedIn(thread'[u].todo[i], connections'[thread'[u].s])
    <3>1. /\ thread'[t].s = s /\ thread'[t].todo = connections[s]
          /\ connections' = connections /\ isComponentRemoved' = [isComponentRemoved EXCEPT ![s] = TRUE]
      <4>1. thread'[t].s = s /\ thread'[t].todo = connections[s]
          BY <2>3, AfterNewCall
      <4>2. connections' = connections /\ isComponentRemoved' = [isComponentRemoved EXCEPT ![s] = TRUE]
          BY <2>3 DEF RemoveSignal, Removed
      <4> QED
          BY <4>1, <4>2
    <3> QED
        BY <1>1, <2>3, <3>1 DEF ListedIn
  <2> QED
      BY <1>0, <1>4, <2>1, <2>2, <2>3, RoleStep
<1> QED
    BY <1>3, <1>4 DEF ListsInOrder

(* A connection whose ends and fate a step leaves alone stands as before.  *)
LEMMA SameStanding ==
    ASSUME PathTypes, NEW t \in Threads, NewCall(t) \/ Continue(t),
           NEW c \in 1 .. Len(made), StandsRight(c), fate'[c] = fate[c],
           isComponentRemoved'[made[c].signal] = isComponentRemoved[made[c].signal],
           RefersTo(c)' <=> RefersTo(c), Listed(c)' <=> Listed(c),
           Connects(t, c)' <=> Connects(t, c),
           Connects(t, c) => /\ thread'[t].at \in Early <=> thread[t].at \in Early
                             /\ thread'[t].at \in Late <=> thread[t].at \in Late,
           Erases(t, c) => Erases(t, c)' \/ ~Listed(c),
           fate[c] = "connected" /\ thread[t].at = "clear" /\ thread[t].s = made[c].signal
               /\ ListedIn(c, thread[t].todo) =>
                  /\ thread'[t].at = "clear" /\ thread'[t].s = made[c].signal
                  /\ ListedIn(c, thread'[t].todo)
    PROVE  StandsRight(c)'
<1>1. /\ \A u \in Threads : u # t => thread'[u] = thread[u]
      /\ made'[c].signal = made[c].signal /\ made'[c].port = made[c].port
    BY StepFacts
<1>2. \A u \in Threads : /\ Connects(u, c)' <=> Connects(u, c)
                         /\ Connects(u, c) => /\ thread'[u].at \in Early <=> thread[u].at \in Early
                                              /\ thread'[u].at \in Late <=> thread[u].at \in Late
    BY <1>1 DEF Connects
<1>3. ASSUME fate[c] = "made", MadeOK(c) PROVE MadeOK(c)'
    BY <1>1, <1>2, <1>3 DEF MadeOK
<1>4. ASSUME fate[c] = "connected", ConnectedOK(c) PROVE ConnectedOK(c)'
  <2>1. (\A u \in Threads : ~Connects(u, c))' /\ RefersTo(c)' /\ Listed(c)'
      BY <1>2, <1>4 DEF ConnectedOK
  <2>2. ASSUME isComponentRemoved'[made'[c].signal]
        PROVE  \E u \in Threads : /\ thread'[u].at = "clear" /\ thread'[u].s = made'[c].signal
                                  /\ ListedIn(c, thread'[u].todo)
    <3>1. PICK u \in Threads : /\ thread[u].at = "clear" /\ thread[u].s = made[c].signal
                               /\ ListedIn(c, thread[u].todo)
        BY <1>1, <1>4, <2>2 DEF ConnectedOK
    <3> QED
        BY <1>1, <1>4, <3>1
  <2> QED
      BY <2>1, <2>2 DEF ConnectedOK
<1>5. ASSUME DroppedOK(c) PROVE DroppedOK(c)'
  <2>1. (\A u \in Threads : Connects(u, c) => thread[u].at \in Late)' /\ ~RefersTo(c)'
      BY <1>2, <1>5 DEF DroppedOK
  <2>2. ASSUME Listed(c)' PROVE \E u \in Threads : Erases(u, c)'
    <3>1. PICK u \in Threads : Erases(u, c)
        BY <1>5, <2>2 DEF DroppedOK
    <3>2. u # t => Erases(u, c)'
        BY <1>1, <3>1 DEF Erases
    <3> QED
        BY <2>2, <3>1, <3>2
  <2> QED
      BY <2>1, <2>2 DEF DroppedOK
<1>6. ASSUME FailedOK(c) PROVE FailedOK(c)'
    BY <1>2, <1>6 DEF FailedOK
<1> QED
    BY <1>3, <1>4, <1>5, <1>6 DEF StandsRight

(* The stages a call that makes a connection can be in.                    *)
LEMMA ConnectStages ==
    ASSUME PathTypes, NEW t \in Threads, thread[t].method = "connect"
    PROVE  thread[t].at \in {"port", "old", "listener", "register", "describe", "enqueue", "push"}
<1>1. PICK k \in Call : k = thread[t] /\ CallOK(k, Len(made))
    BY CallFields
<1>2. k.at \in Stages /\ k.method = "connect"
    BY <1>1 DEF Call
<1> QED
    BY <1>1, <1>2, IdleFields DEF CallOK, Stages

(* A port lets go of the connection it gives, and a call begins that will  *)
(* take the connection out of the list of its signal.                      *)
LEMMA DropStands ==
    ASSUME PathTypes, RefsInOrder, Standing, NEW t \in Threads, NewCall(t) \/ Continue(t),
           NEW p \in Ports, NEW b, b = GetConnectionNoLock(p),
           connectionRef' = [connectionRef EXCEPT ![p] = 0], fate' = GivenUp(fate, b),
           connections' = connections,
           \A s \in Signals : isComponentRemoved'[s] = isComponentRemoved[s],
           b # 0 => thread'[t].at \in {"old", "tell"} /\ Head(thread'[t].todo) = b,
           b # 0 /\ Unregistered(b) => b \in raced',
           thread[t].at \notin {"old", "tell", "clear"},
           \A c : Connects(t, c)' <=> Connects(t, c),
           thread[t].method = "connect" =>
               /\ thread'[t].at \in Early <=> thread[t].at \in Early
               /\ thread'[t].at \in Late <=> thread[t].at \in Late,
           NEW c \in 1 .. Len(made), c \notin raced'
    PROVE  StandsRight(c)'
<1>0. /\ \A u \in Threads : u # t => thread'[u] = thread[u]
      /\ made'[c].signal = made[c].signal /\ made'[c].port = made[c].port
      /\ c \notin raced
    BY StepFacts
<1>1. /\ connectionRef \in [Ports -> 0 .. Len(made)] /\ fate \in Seq(Fates) /\ Len(fate) = Len(made)
      /\ b \in 0 .. Len(made) /\ made[c].signal \in Signals /\ made[c].port \in Ports
  <2>1. made[c] \in Made
      BY DEF PathTypes, ConnectionTypes
  <2> QED
      BY <2>1, RefType DEF PathTypes, ConnectionTypes, Made
<1>2. StandsRight(c) /\ c # 0
    BY <1>0 DEF Standing
<1>3. fate'[c] = IF c = b THEN "dropped" ELSE fate[c]
    BY <1>1, GivenUpAt
<1>4. CASE c = b
  <2>1. connectionRef[p] = c /\ made[c].port = p
      BY <1>2, <1>4 DEF GetConnectionNoLock, RefsInOrder
  <2>2. RefersTo(c) /\ ~RefersTo(c)'
      BY <1>0, <1>1, <1>2, <2>1 DEF RefersTo
  <2>3. fate[c] \in {"made", "connected"}
      BY <1>0, <2>2, RefHeld
  <2>4. ASSUME NEW u \in Threads, Connects(u, c) PROVE thread[u].at \in Late
    <3>1. thread[u].at \notin {"listener", "register", "describe"}
        BY <1>2, <1>4, <2>4 DEF Unregistered, Connects
    <3>2. thread[u].at \notin Early
        BY <1>2, <2>2, <2>3, <2>4 DEF StandsRight, MadeOK, ConnectedOK
    <3> QED
        BY <2>4, <3>1, <3>2, ConnectStages DEF Connects, Early, Late
  <2>5. ASSUME NEW u \in Threads, Connects(u, c)' PROVE thread'[u].at \in Late
    <3>1. CASE u = t
        BY <2>4, <2>5, <3>1 DEF Connects
    <3>2. CASE u # t
        BY <1>0, <2>4, <2>5, <3>2 DEF Connects
    <3> QED
        BY <3>1, <3>2
  <2>6. Erases(t, c)'
      BY <1>2, <1>4 DEF Erases
  <2>7. DroppedOK(c)'
      BY <2>2, <2>5, <2>6 DEF DroppedOK
  <2> QED
      BY <1>3, <1>4, <2>7 DEF StandsRight
<1>5. CASE c # b
  <2>1. RefersTo(c)' <=> RefersTo(c)
    <3>1. CASE made[c].port = p
      <4>1. ~RefersTo(c)
          BY <1>0, <1>5, <3>1, RefHeld
      <4> QED
          BY <1>0, <1>1, <1>2, <3>1, <4>1 DEF RefersTo
    <3>2. CASE made[c].port # p
        BY <1>0, <1>1, <3>2 DEF RefersTo
    <3> QED
        BY <3>1, <3>2
  <2>2. Listed(c)' <=> Listed(c)
      BY <1>0 DEF Listed
  <2>3. Connects(t, c) => thread[t].method = "connect"
      BY DEF Connects
  <2>4. ~Erases(t, c)
      BY DEF Erases
  <2> QED
      BY <1>1, <1>2, <1>3, <1>5, <2>1, <2>2, <2>3, <2>4, SameStanding
<1> QED
    BY <1>4, <1>5

(* A connection that was given up is taken out of the list of its signal.  *)
LEMMA EraseStands ==
    ASSUME PathTypes, CallsApart, ListsInOrder, Standing, NEW t \in Threads, NewCall(t) \/ Continue(t),
           thread[t].at \in {"old", "tell"}, NEW b, b = Head(thread[t].todo),
           \/ connections' = [connections EXCEPT ![made[b].signal] = Erased(@, b)]
           \/ connections' = connections /\ ~ListedIn(b, connections[made[b].signal]),
           isComponentRemoved' = isComponentRemoved,
           NEW c \in 1 .. Len(made), c \notin raced', fate'[c] = fate[c],
           RefersTo(c)' <=> RefersTo(c), Connects(t, c)' => Connects(t, c),
           Connects(t, c) => /\ Connects(t, c)'
                             /\ thread'[t].at \in Early <=> thread[t].at \in Early
                             /\ thread'[t].at \in Late <=> thread[t].at \in Late
    PROVE  StandsRight(c)'
<1>0. /\ \A u \in Threads : u # t => thread'[u] = thread[u]
      /\ made'[c].signal = made[c].signal /\ made'[c].port = made[c].port
      /\ c \notin raced
    BY StepFacts
<1>1. /\ b \in 1 .. Len(made) /\ made[b].signal \in Signals /\ made[c].signal \in Signals
      /\ StandsRight(c)
  <2>1. made[c] \in Made
      BY SMTT(40) DEF PathTypes, ConnectionTypes
  <2> QED
      BY <1>0, <2>1, HandsFull DEF Made, Standing
<1>2. Listed(c)' <=> Listed(c) /\ c # b
  <2>1. CASE connections' = [connections EXCEPT ![made[b].signal] = Erased(@, b)]
    <3>1. PICK r \in Signals : r = made[b].signal
        BY <1>1
    <3>1a. connections' = [connections EXCEPT ![r] = Erased(@, b)]
        BY <2>1, <3>1
    <3>2. \A s \in Signals : \A x :
              ListedIn(x, connections'[s]) <=> ListedIn(x, connections[s]) /\ (s # r \/ x # b)
        BY ONLY PathTypes, CallsApart, <3>1a, TakeOut
    <3> QED
        BY <1>0, <1>1, <3>1, <3>2 DEF Listed
  <2>2. CASE connections' = connections /\ ~ListedIn(b, connections[made[b].signal])
      BY <1>0, <1>1, <2>2 DEF Listed
  <2> QED
      BY <2>1, <2>2
<1>3. CASE c = b
  <2>1. fate[c] = "dropped"
      BY <1>0, <1>3 DEF ListsInOrder
  <2>2. DroppedOK(c)
      BY <1>1, <2>1 DEF StandsRight
  <2>3. ASSUME NEW u \in Threads, Connects(u, c)' PROVE thread'[u].at \in Late
    <3>1. CASE u = t
        BY <2>2, <2>3, <3>1 DEF DroppedOK
    <3>2. CASE u # t
        BY <1>0, <2>2, <2>3, <3>2 DEF DroppedOK, Connects
    <3> QED
        BY <3>1, <3>2
  <2>4. ~RefersTo(c)' /\ ~Listed(c)'
      BY <1>2, <1>3, <2>2 DEF DroppedOK
  <2>5. DroppedOK(c)'
      BY <2>3, <2>4 DEF DroppedOK
  <2> QED
      BY <2>1, <2>5 DEF StandsRight
<1>4. CASE c # b
  <2>1. ~Erases(t, c) /\ thread[t].at # "clear"
      BY <1>4 DEF Erases
  <2> QED
      BY <1>1, <1>2, <1>4, <2>1, SameStanding
<1> QED
    BY <1>3, <1>4

(* Standing is kept by the steps that leave the ends alone, by a new       *)
(* connection, and by the calls by which a port lets go of one.            *)
LEMMA BeginStands ==
    ASSUME PathTypes, PathTypes', EndsInv, NEW t \in Threads, NewCall(t) \/ Continue(t),
           \/ ~EndStep(t)
           \/ \E p \in Ports, s \in Signals : Connect(t, p, s)
           \/ \E p \in Ports : Disconnect(t, p) \/ RemovePort(t, p),
           NEW c \in 1 .. Len(made'), c \notin raced'
    PROVE  StandsRight(c)'
<1>0. PICK k \in Call : k = thread[t] /\ CallOK(k, Len(made)) /\ Len(made) \in Nat
    BY CallFields
<1>1. /\ \A u \in Threads : u # t => thread'[u] = thread[u]
      /\ \A b \in 1 .. Len(made) : /\ made'[b].signal = made[b].signal
                                   /\ made'[b].port = made[b].port
      /\ raced \subseteq raced'
    BY StepFacts
<1>2. \A b \in 1 .. Len(made) : b \notin raced' => StandsRight(b)
    BY <1>1 DEF EndsInv, Standing
<1>3. CASE ~EndStep(t)
  <2>1. /\ SameRole(k, thread'[t])
        /\ isComponentRemoved' = isComponentRemoved /\ connections' = connections
        /\ connectionRef' = connectionRef /\ fate' = fate /\ Len(made') = Len(made)
      BY <1>0, <1>3, QuietStep
  <2>2. c \in 1 .. Len(made) /\ StandsRight(c)
      BY <1>2, <2>1
  <2>3. /\ RefersTo(c)' <=> RefersTo(c)
        /\ Listed(c)' <=> Listed(c)
      BY <1>1, <2>1, <2>2 DEF RefersTo, Listed
  <2>4. /\ Connects(t, c)' <=> Connects(t, c)
        /\ Connects(t, c) => /\ thread'[t].at \in Early <=> thread[t].at \in Early
                             /\ thread'[t].at \in Late <=> thread[t].at \in Late
        /\ ~Erases(t, c) /\ thread[t].at # "clear"
      BY <1>0, <2>1 DEF SameRole, SameConnect, Connects, Erases
  <2> QED
      BY <2>1, <2>2, <2>3, <2>4, SameStanding
<1>4. ASSUME NEW p \in Ports, NEW s \in Signals, Connect(t, p, s) PROVE StandsRight(c)'
  <2>1. /\ NewCall(t) /\ ~isComponentRemoved[s]
        /\ made' = Append(made, [signal |-> s, port |-> p, log |-> << >>])
        /\ fate' = Append(fate, "made")
        /\ isComponentRemoved' = isComponentRemoved /\ connections' = connections
        /\ connectionRef' = connectionRef
      BY <1>4 DEF Connect, NewCall, tree
  <2>2. /\ thread'[t].method = "connect" /\ thread'[t].at = "port" /\ thread'[t].c = Len(made) + 1
        /\ thread[t] = Idle
      BY <1>4, <2>1, AfterNewCall
  <2>3. /\ made \in Seq(Made) /\ fate \in Seq(Fates) /\ Len(fate) = Len(made)
        /\ connectionRef \in [Ports -> 0 .. Len(made)]
        /\ \A r \in Signals : \A i \in DOMAIN connections[r] : connections[r][i] \in 1 .. Len(made)
      BY DEF PathTypes, ConnectionTypes
  <2>4. CASE c = Len(made) + 1
    <3>1. /\ made'[c] = [signal |-> s, port |-> p, log |-> << >>] /\ fate'[c] = "made"
        BY <2>1, <2>3, <2>4
    <3>2. ~RefersTo(c)' /\ ~Listed(c)'
        BY <1>0, <2>1, <2>3, <2>4, <3>1 DEF RefersTo, Listed, ListedIn
    <3>3. Connects(t, c)' /\ thread'[t].at \in Early /\ thread'[t].at \notin Late
        BY <2>2, <2>4 DEF Connects, Early, Late
    <3>4. ASSUME NEW u \in Threads, Connects(u, c)' PROVE u = t
      <4>1. thread[u].method = "connect" => thread[u].c \in 1 .. Len(made)
          BY HandsFull
      <4> QED
          BY <1>0, <1>1, <2>4, <3>4, <4>1 DEF Connects
    <3>5. MadeOK(c)'
        BY <2>1, <3>1, <3>2, <3>3, <3>4 DEF MadeOK
    <3> QED
        BY <3>1, <3>5 DEF StandsRight
  <2>5. CASE c # Len(made) + 1
    <3>1. c \in 1 .. Len(made) /\ fate'[c] = fate[c]
        BY <1>0, <2>1, <2>3, <2>5
    <3>2. /\ RefersTo(c)' <=> RefersTo(c)
          /\ Listed(c)' <=> Listed(c)
        BY <1>1, <2>1, <3>1 DEF RefersTo, Listed
    <3>3. ~Connects(t, c) /\ ~Connects(t, c)' /\ ~Erases(t, c) /\ thread[t].at # "clear"
        BY <1>0, <2>2, <2>5, IdleFields DEF Connects, Erases
    <3> QED
        BY <1>2, <2>1, <3>1, <3>2, <3>3, SameStanding
  <2> QED
      BY <2>4, <2>5
<1>5. ASSUME NEW p \in Ports, Disconnect(t, p) \/ RemovePort(t, p) PROVE StandsRight(c)'
  <2>1. /\ NewCall(t) /\ connections' = connections /\ made' = made
        /\ connectionRef' = [connectionRef EXCEPT ![p] = 0]
        /\ fate' = GivenUp(fate, GetConnectionNoLock(p))
      BY <1>5 DEF Disconnect, RemovePort, NewCall
  <2>2. thread[t] = Idle
      BY <2>1, AfterNewCall
  <2>3. PICK b : b = GetConnectionNoLock(p)
      OBVIOUS
  <2>4. /\ b # 0 => thread'[t].at \in {"old", "tell"} /\ Head(thread'[t].todo) = b
        /\ thread'[t].method # "connect"
    <3>1. CASE Disconnect(t, p)
        BY <2>3, <3>1, AfterNewCall
    <3>2. CASE RemovePort(t, p)
        BY SMTT(40), <2>2, <2>3, <3>2, AfterNewCall, IdleFields
    <3> QED
        BY <1>5, <3>1, <3>2
  <2>5. b # 0 /\ Unregistered(b) => b \in raced'
      BY <1>5, <2>3 DEF Disconnect, RemovePort
  <2>6. \A s \in Signals : isComponentRemoved'[s] = isComponentRemoved[s]
    <3>1. \/ isComponentRemoved' = isComponentRemoved
          \/ isComponentRemoved' = [isComponentRemoved EXCEPT ![p] = TRUE]
        BY <1>5 DEF Disconnect, RemovePort, Removed, tree
    <3> QED
        BY <3>1, SignalPathAssumption DEF PathTypes, TreeTypes, Components
  <2>7. /\ thread[t].method # "connect" /\ thread[t].at \notin {"old", "tell", "clear"}
        /\ \A x : Connects(t, x)' <=> Connects(t, x)
      BY <2>2, <2>4, IdleFields DEF Connects
  <2> QED
      BY <2>1, <2>3, <2>4, <2>5, <2>6, <2>7, DropStands DEF EndsInv
<1> QED
    BY <1>3, <1>4, <1>5

(* A connection that is being made: who makes it and where it stands.      *)
LEMMA MakerKnows ==
    ASSUME PathTypes, CallsApart, Standing, NEW t \in Threads, thread[t].method = "connect",
           thread[t].at \notin Late, NEW c, c = thread[t].c, c \notin raced
    PROVE  /\ c \in 1 .. Len(made) /\ fate[c] = "made" /\ made[c].port = thread[t].p
           /\ made[c].signal = thread[t].s /\ thread[t].p \in Ports /\ thread[t].s \in Signals
           /\ ~isComponentRemoved[made[c].signal] /\ ~Listed(c)
           /\ RefersTo(c) <=> thread[t].at \notin Early
           /\ \A u \in Threads : Connects(u, c) => u = t
<1>1. c \in 1 .. Len(made) /\ fate[c] = "made" /\ MadeOK(c)
    BY BeingMade
<1>2. thread[t].p \in Ports /\ thread[t].s \in Signals
    BY HandsFull
<1>3. Connects(t, c)
    BY DEF Connects
<1>4. made[c].port = thread[t].p /\ made[c].signal = thread[t].s
    BY DEF CallsApart
<1>5. \A u \in Threads : Connects(u, c) => u = t
    BY DEF CallsApart, Connects
<1> QED
    BY <1>1, <1>2, <1>3, <1>4, <1>5 DEF MadeOK

(* Standing is kept by connect under the mutex of the port.                *)
LEMMA ConnectPortStands ==
    ASSUME PathTypes, PathTypes', EndsInv, NEW t \in Threads, ConnectPort(t),
           NEW c \in 1 .. Len(made), c \notin raced'
    PROVE  StandsRight(c)'
<1>0. PICK k \in Call : k = thread[t] /\ CallOK(k, Len(made)) /\ Len(made) \in Nat
    BY CallFields
<1>1. PICK j : j = thread'[t]
    OBVIOUS
<1>2. /\ \A u \in Threads : u # t => thread'[u] = thread[u]
      /\ made'[c].signal = made[c].signal /\ made'[c].port = made[c].port
      /\ raced \subseteq raced' /\ Continue(t)
    BY StepFacts DEF Continue
<1>3. /\ k.at = "port" /\ k.method = "connect" /\ k.p \in Ports
    BY <1>0, AfterEndStep, HandsFull
<1>4. /\ isComponentRemoved' = isComponentRemoved /\ connections' = connections
    BY DEF ConnectPort, tree
<1>5. /\ connectionRef \in [Ports -> 0 .. Len(made)] /\ fate \in Seq(Fates) /\ Len(fate) = Len(made)
      /\ thread \in [Threads -> Call]
    BY DEF PathTypes, ConnectionTypes, ThreadTypes
<1>6. StandsRight(c)
    BY <1>2 DEF EndsInv, Standing
<1>7. ~Erases(t, c) /\ thread[t].at # "clear"
    BY <1>0, <1>3 DEF Erases
<1>8. Listed(c)' <=> Listed(c)
    BY <1>2, <1>4 DEF Listed
<1>9. CASE /\ isComponentRemoved[k.p] /\ fate' = [fate EXCEPT ![k.c] = "failed"]
           /\ Goto(t, Idle) /\ connectionRef' = connectionRef
  <2>1. j = Idle
      BY <1>1, <1>5, <1>9 DEF Goto
  <2>2. ~Connects(t, c)'
      BY <1>1, <2>1, IdleFields DEF Connects
  <2>3. RefersTo(c)' <=> RefersTo(c)
      BY <1>2, <1>9 DEF RefersTo
  <2>4. CASE c = k.c
    <3>1. fate'[c] = "failed"
        BY <1>5, <1>9, <2>4
    <3>2. /\ ~Listed(c) /\ ~RefersTo(c) /\ \A u \in Threads : Connects(u, c) => u = t
        BY <1>0, <1>2, <1>3, <2>4, MakerKnows DEF EndsInv, Early, Late
    <3>3. \A u \in Threads : ~Connects(u, c)'
        BY <1>2, <2>2, <3>2 DEF Connects
    <3>4. FailedOK(c)'
        BY <1>8, <2>3, <3>2, <3>3 DEF FailedOK
    <3> QED
        BY <3>1, <3>4 DEF StandsRight
  <2>5. CASE c # k.c
    <3>1. fate'[c] = fate[c] /\ ~Connects(t, c)
        BY <1>0, <1>9, <2>5 DEF Connects
    <3> QED
        BY <1>2, <1>4, <1>6, <1>7, <1>8, <2>2, <2>3, <3>1, SameStanding
  <2> QED
      BY <2>4, <2>5
<1>10. CASE /\ GetConnectionNoLock(k.p) = 0 /\ fate' = fate
            /\ connectionRef' = [connectionRef EXCEPT ![k.p] = k.c]
            /\ Goto(t, [k EXCEPT !.at = "listener"])
  <2>1. j.at = "listener" /\ SameConnect(k, j)
      BY <1>1, <1>5, <1>10 DEF Goto, SameConnect, Call
  <2>2. CASE c = k.c
    <3>1. /\ fate[c] = "made" /\ ~Listed(c) /\ made[c].port = k.p /\ ~isComponentRemoved[made[c].signal]
          /\ \A u \in Threads : Connects(u, c) => u = t
        BY <1>0, <1>2, <1>3, <2>2, MakerKnows DEF EndsInv, Late
    <3>2. RefersTo(c)'
        BY <1>2, <1>3, <1>5, <1>10, <2>2, <3>1 DEF RefersTo
    <3>3. Connects(t, c)' /\ \A u \in Threads : Connects(u, c)' => u = t
        BY <1>1, <1>2, <1>3, <2>1, <2>2, <3>1 DEF Connects, SameConnect
    <3>4. MadeOK(c)'
        BY <1>1, <1>2, <1>4, <1>8, <2>1, <3>1, <3>2, <3>3 DEF MadeOK, Early, Late
    <3> QED
        BY <1>10, <3>1, <3>4 DEF StandsRight
  <2>3. CASE c # k.c
    <3>1. RefersTo(c)' <=> RefersTo(c)
      <4>1. CASE made[c].port = k.p
        <5>1. ~RefersTo(c)
            BY <1>2, <1>10, <4>1, RefHeld DEF EndsInv
        <5> QED
            BY <1>2, <1>3, <1>5, <1>10, <2>3, <4>1, <5>1 DEF RefersTo
      <4>2. CASE made[c].port # k.p
          BY <1>2, <1>5, <1>10, <4>2 DEF RefersTo
      <4> QED
          BY <4>1, <4>2
    <3>2. ~Connects(t, c) /\ ~Connects(t, c)'
        BY <1>0, <1>1, <2>1, <2>3 DEF Connects, SameConnect
    <3>3. fate'[c] = fate[c]
        BY <1>10
    <3> QED
        BY <1>2, <1>4, <1>6, <1>7, <1>8, <3>1, <3>2, <3>3, SameStanding
  <2> QED
      BY <2>2, <2>3
<1>11. ASSUME NEW b, b = GetConnectionNoLock(k.p), b # 0,
              connectionRef' = [connectionRef EXCEPT ![k.p] = 0], fate' = GivenUp(fate, b),
              raced' = IF Unregistered(b) THEN raced \cup {b} ELSE raced,
              Goto(t, [k EXCEPT !.at = "old", !.todo = <<b>>])
       PROVE  StandsRight(c)'
  <2>1. j.at = "old" /\ SameConnect(k, j) /\ Head(j.todo) = b
      BY <1>1, <1>5, <1>11 DEF Goto, SameConnect, Call
  <2>2. /\ \A x : Connects(t, x)' <=> Connects(t, x)
        /\ thread'[t].at \in Early <=> thread[t].at \in Early
        /\ thread'[t].at \in Late <=> thread[t].at \in Late
        /\ thread[t].at \notin {"old", "tell", "clear"}
      BY <1>0, <1>1, <1>3, <2>1 DEF Connects, SameConnect, Early, Late
  <2>3. b # 0 /\ Unregistered(b) => b \in raced'
      BY <1>11
  <2>4. thread'[t].at \in {"old", "tell"} /\ Head(thread'[t].todo) = b
      BY <1>1, <2>1
  <2>5. \A s \in Signals : isComponentRemoved'[s] = isComponentRemoved[s]
      BY <1>4
  <2> QED
      BY <1>2, <1>3, <1>4, <1>11, <2>2, <2>3, <2>4, <2>5, DropStands DEF EndsInv
<1>12. \/ /\ isComponentRemoved[k.p] /\ fate' = [fate EXCEPT ![k.c] = "failed"]
          /\ Goto(t, Idle) /\ connectionRef' = connectionRef
       \/ /\ GetConnectionNoLock(k.p) = 0 /\ fate' = fate
          /\ connectionRef' = [connectionRef EXCEPT ![k.p] = k.c]
          /\ Goto(t, [k EXCEPT !.at = "listener"])
       \/ \E b : /\ b = GetConnectionNoLock(k.p) /\ b # 0
                 /\ connectionRef' = [connectionRef EXCEPT ![k.p] = 0] /\ fate' = GivenUp(fate, b)
                 /\ raced' = IF Unregistered(b) THEN raced \cup {b} ELSE raced
                 /\ Goto(t, [k EXCEPT !.at = "old", !.todo = <<b>>])
    BY <1>0 DEF ConnectPort, Return
<1> QED
    BY <1>9, <1>10, <1>11, <1>12

(* Standing is kept by the step that takes the old connection out.         *)
LEMMA ConnectOldStands ==
    ASSUME PathTypes, PathTypes', EndsInv, NEW t \in Threads, ConnectOld(t),
           NEW c \in 1 .. Len(made), c \notin raced'
    PROVE  StandsRight(c)'
<1>0. PICK k \in Call : k = thread[t] /\ CallOK(k, Len(made)) /\ Len(made) \in Nat
    BY CallFields
<1>1. PICK j : j = thread'[t]
    OBVIOUS
<1>2. /\ \A u \in Threads : u # t => thread'[u] = thread[u]
      /\ made'[c].signal = made[c].signal /\ made'[c].port = made[c].port
      /\ raced \subseteq raced' /\ Continue(t)
    BY StepFacts DEF Continue
<1>3. /\ k.at = "old" /\ k.method = "connect" /\ k.p \in Ports
      /\ j = Idle \/ (j.at = "listener" /\ SameConnect(k, j))
    BY <1>0, <1>1, AfterEndStep, HandsFull
<1>4. PICK b : b = Head(k.todo)
    OBVIOUS
<1>5. /\ connectionRef \in [Ports -> 0 .. Len(made)] /\ fate \in Seq(Fates) /\ Len(fate) = Len(made)
      /\ thread \in [Threads -> Call] /\ connectionRef[k.p] = 0
      /\ isComponentRemoved' = isComponentRemoved
    BY <1>0, <1>3 DEF PathTypes, ConnectionTypes, ThreadTypes, EndsInv, RefsInOrder, ConnectOld, tree
<1>6. \/ /\ connections' = [connections EXCEPT ![made[b].signal] = Erased(@, b)]
         /\ connectionRef' = [connectionRef EXCEPT ![k.p] = k.c]
         /\ Goto(t, [k EXCEPT !.at = "listener", !.todo = << >>])
         /\ fate' = fate
      \/ /\ connections' = connections /\ ~ListedIn(b, connections[made[b].signal])
         /\ fate' = [fate EXCEPT ![k.c] = "failed"]
         /\ Goto(t, Idle) /\ connectionRef' = connectionRef
    BY <1>0, <1>4 DEF ConnectOld, Return
<1>7. CASE c = k.c
  <2>1. /\ fate[c] = "made" /\ ~Listed(c) /\ made[c].port = k.p /\ ~isComponentRemoved[made[c].signal]
        /\ ~RefersTo(c) /\ made[c].signal \in Signals
        /\ \A u \in Threads : Connects(u, c) => u = t
      BY <1>0, <1>2, <1>3, <1>7, MakerKnows DEF EndsInv, Early, Late
  <2>2. ~Listed(c)'
    <3>1. ~ConnectDescribe(t)
        BY <1>0, <1>3, AfterEndStep
    <3> QED
        BY <1>2, <2>1, <3>1, ListMoves DEF Listed, EndsInv
  <2>3. CASE connectionRef' = [connectionRef EXCEPT ![k.p] = k.c] /\ fate' = fate
             /\ Goto(t, [k EXCEPT !.at = "listener", !.todo = << >>])
    <3>1. j.at = "listener" /\ SameConnect(k, j)
        BY <1>1, <1>5, <2>3 DEF Goto, SameConnect, Call
    <3>2. RefersTo(c)'
        BY <1>2, <1>3, <1>5, <1>7, <2>1, <2>3 DEF RefersTo
    <3>3. Connects(t, c)' /\ \A u \in Threads : Connects(u, c)' => u = t
        BY <1>1, <1>2, <1>3, <1>7, <2>1, <3>1 DEF Connects, SameConnect
    <3>4. MadeOK(c)'
        BY <1>1, <1>2, <1>5, <2>1, <2>2, <3>1, <3>2, <3>3 DEF MadeOK, Early, Late
    <3> QED
        BY <2>1, <2>3, <3>4 DEF StandsRight
  <2>4. CASE fate' = [fate EXCEPT ![k.c] = "failed"] /\ Goto(t, Idle) /\ connectionRef' = connectionRef
    <3>1. fate'[c] = "failed" /\ j = Idle
        BY <1>1, <1>5, <1>7, <2>4 DEF Goto
    <3>2. \A u \in Threads : ~Connects(u, c)'
        BY <1>1, <1>2, <2>1, <3>1, IdleFields DEF Connects
    <3>3. ~RefersTo(c)'
        BY <1>2, <2>1, <2>4 DEF RefersTo
    <3>4. FailedOK(c)'
        BY <2>2, <3>2, <3>3 DEF FailedOK
    <3> QED
        BY <3>1, <3>4 DEF StandsRight
  <2> QED
      BY <1>6, <2>3, <2>4
<1>8. CASE c # k.c
  <2>0. /\ fate' = fate \/ fate' = [fate EXCEPT ![k.c] = "failed"]
        /\ connectionRef' = connectionRef \/ connectionRef' = [connectionRef EXCEPT ![k.p] = k.c]
      BY <1>6
  <2>1. fate'[c] = fate[c]
    <3>1. CASE fate' = fate
        BY <3>1
    <3>2. CASE fate' = [fate EXCEPT ![k.c] = "failed"]
        BY <1>5, <1>8, <3>2
    <3> QED
        BY <2>0, <3>1, <3>2
  <2>2. RefersTo(c)' <=> RefersTo(c)
    <3>1. c # 0
        OBVIOUS
    <3>2. CASE connectionRef' = connectionRef
        BY <1>2, <3>2 DEF RefersTo
    <3>3. CASE connectionRef' = [connectionRef EXCEPT ![k.p] = k.c]
      <4>1. CASE made[c].port = k.p
          BY <1>2, <1>3, <1>5, <1>8, <3>1, <3>3, <4>1 DEF RefersTo
      <4>2. CASE made[c].port # k.p
          BY <1>2, <1>3, <1>5, <3>3, <4>2 DEF RefersTo
      <4> QED
          BY <4>1, <4>2
    <3> QED
        BY <2>0, <3>2, <3>3
  <2>3. ~Connects(t, c) /\ ~Connects(t, c)'
      BY <1>0, <1>1, <1>3, <1>8, IdleFields DEF Connects, SameConnect
  <2>4. thread[t].at \in {"old", "tell"} /\ b = Head(thread[t].todo)
      BY <1>0, <1>3, <1>4
  <2>5. \/ connections' = [connections EXCEPT ![made[b].signal] = Erased(@, b)]
        \/ connections' = connections /\ ~ListedIn(b, connections[made[b].signal])
      BY <1>6
  <2> QED
      BY <1>2, <1>5, <2>1, <2>2, <2>3, <2>4, <2>5, EraseStands DEF EndsInv
<1> QED
    BY <1>7, <1>8

(* Standing is kept when the signal is told by disconnect, or by the port  *)
(* that is removed.                                                        *)
LEMMA ToldStands ==
    ASSUME PathTypes, PathTypes', EndsInv, NEW t \in Threads, DisconnectTell(t) \/ RemovePortOld(t),
           NEW c \in 1 .. Len(made), c \notin raced'
    PROVE  StandsRight(c)'
<1>0. PICK k \in Call : k = thread[t] /\ CallOK(k, Len(made)) /\ Len(made) \in Nat
    BY CallFields
<1>2. /\ made'[c].signal = made[c].signal /\ made'[c].port = made[c].port /\ Continue(t)
    BY StepFacts DEF Continue
<1>3. k.at \in {"old", "tell"} /\ k.method # "connect" /\ thread'[t] = Idle
    BY <1>0, AfterEndStep
<1>4. PICK b : b = Head(k.todo)
    OBVIOUS
<1>5. /\ connectionRef' = connectionRef /\ fate' = fate /\ isComponentRemoved' = isComponentRemoved
    BY DEF DisconnectTell, RemovePortOld, tree
<1>6. \/ connections' = [connections EXCEPT ![made[b].signal] = Erased(@, b)]
      \/ connections' = connections /\ ~ListedIn(b, connections[made[b].signal])
    BY <1>0, <1>4 DEF DisconnectTell, RemovePortOld
<1>7. /\ RefersTo(c)' <=> RefersTo(c)
      /\ ~Connects(t, c) /\ ~Connects(t, c)'
    BY <1>0, <1>2, <1>3, <1>5, IdleFields DEF RefersTo, Connects
<1>8. thread[t].at \in {"old", "tell"} /\ b = Head(thread[t].todo) /\ fate'[c] = fate[c]
    BY <1>0, <1>3, <1>4, <1>5
<1> QED
    BY <1>2, <1>5, <1>6, <1>7, <1>8, EraseStands DEF EndsInv

(* Standing is kept when the listener is asked.                            *)
LEMMA ConnectListenerStands ==
    ASSUME PathTypes, PathTypes', EndsInv, NEW t \in Threads, ConnectListener(t),
           NEW c \in 1 .. Len(made), c \notin raced'
    PROVE  StandsRight(c)'
<1>0. PICK k \in Call : k = thread[t] /\ CallOK(k, Len(made)) /\ Len(made) \in Nat
    BY CallFields
<1>1. PICK j : j = thread'[t]
    OBVIOUS
<1>2. /\ \A u \in Threads : u # t => thread'[u] = thread[u]
      /\ made'[c].signal = made[c].signal /\ made'[c].port = made[c].port
      /\ raced \subseteq raced' /\ Continue(t)
    BY StepFacts DEF Continue
<1>3. /\ k.at = "listener" /\ k.method = "connect" /\ k.p \in Ports /\ k.c \in 1 .. Len(made)
    BY <1>0, AfterEndStep, HandsFull
<1>4. /\ isComponentRemoved' = isComponentRemoved /\ connections' = connections
    BY DEF ConnectListener, tree
<1>5. /\ connectionRef \in [Ports -> 0 .. Len(made)] /\ fate \in Seq(Fates) /\ Len(fate) = Len(made)
      /\ thread \in [Threads -> Call]
    BY DEF PathTypes, ConnectionTypes, ThreadTypes
<1>6. StandsRight(c) /\ c # 0 /\ c \notin raced
    BY <1>2 DEF EndsInv, Standing
<1>7. ~Erases(t, c) /\ thread[t].at # "clear"
    BY <1>0, <1>3 DEF Erases
<1>8. Listed(c)' <=> Listed(c)
    BY <1>2, <1>4 DEF Listed
<1>9. CASE Goto(t, [k EXCEPT !.at = "register"]) /\ connectionRef' = connectionRef /\ fate' = fate
  <2>1. j.at = "register" /\ SameConnect(k, j)
      BY <1>1, <1>5, <1>9 DEF Goto, SameConnect, Call
  <2>2. /\ Connects(t, c)' <=> Connects(t, c)
        /\ thread'[t].at \in Early <=> thread[t].at \in Early
        /\ thread'[t].at \in Late <=> thread[t].at \in Late
      BY <1>0, <1>1, <1>3, <2>1 DEF Connects, SameConnect, Early, Late
  <2>3. /\ RefersTo(c)' <=> RefersTo(c)
        /\ fate'[c] = fate[c]
      BY <1>2, <1>9 DEF RefersTo
  <2> QED
      BY <1>2, <1>4, <1>6, <1>7, <1>8, <2>2, <2>3, SameStanding
<1>10. ASSUME NEW now, now = connectionRef[k.p],
              connectionRef' = [connectionRef EXCEPT ![k.p] = 0],
              fate' = [GivenUp(fate, now) EXCEPT ![k.c] = "failed"],
              raced' = IF now \in {0, k.c} THEN raced ELSE raced \cup {now}, Goto(t, Idle)
       PROVE  StandsRight(c)'
  <2>1. j = Idle /\ now \in 0 .. Len(made)
      BY <1>1, <1>3, <1>5, <1>10 DEF Goto
  <2>2. ~Connects(t, c)'
      BY <1>1, <2>1, IdleFields DEF Connects
  <2>3. PICK f \in Seq(Fates) : f = GivenUp(fate, now) /\ Len(f) = Len(made)
      BY <1>0, <1>5, <2>1, GivenUpType
  <2>4. CASE c = k.c
    <3>1. fate'[c] = "failed"
        BY <1>10, <2>3, <2>4
    <3>2. /\ ~Listed(c) /\ made[c].port = k.p
          /\ \A u \in Threads : Connects(u, c) => u = t
        BY <1>0, <1>3, <1>6, <2>4, MakerKnows DEF EndsInv, Late
    <3>3. \A u \in Threads : ~Connects(u, c)'
        BY <1>2, <2>2, <3>2 DEF Connects
    <3>4. ~RefersTo(c)'
        BY <1>2, <1>3, <1>5, <1>6, <1>10, <3>2 DEF RefersTo
    <3>5. FailedOK(c)'
        BY <1>8, <3>2, <3>3, <3>4 DEF FailedOK
    <3> QED
        BY <3>1, <3>5 DEF StandsRight
  <2>5. CASE c # k.c
    <3>1. c # now
        BY <1>6, <1>10, <2>5
    <3>2. fate'[c] = fate[c]
      <4>1. fate'[c] = f[c]
          BY <1>10, <2>3, <2>5
      <4> QED
          BY <1>5, <2>1, <2>3, <3>1, <4>1, GivenUpAt
    <3>3. RefersTo(c)' <=> RefersTo(c)
        BY <1>2, <1>3, <1>5, <1>6, <1>10, <3>1 DEF RefersTo
    <3>4. ~Connects(t, c)
        BY <1>0, <2>5 DEF Connects
    <3> QED
        BY <1>2, <1>4, <1>6, <1>7, <1>8, <2>2, <3>2, <3>3, <3>4, SameStanding
  <2> QED
      BY <2>4, <2>5
<1>11. \/ Goto(t, [k EXCEPT !.at = "register"]) /\ connectionRef' = connectionRef /\ fate' = fate
       \/ \E now : /\ now = connectionRef[k.p]
                   /\ connectionRef' = [connectionRef EXCEPT ![k.p] = 0]
                   /\ fate' = [GivenUp(fate, now) EXCEPT ![k.c] = "failed"]
                   /\ raced' = IF now \in {0, k.c} THEN raced ELSE raced \cup {now}
                   /\ Goto(t, Idle)
    BY <1>0 DEF ConnectListener, Return
<1> QED
    BY <1>9, <1>10, <1>11

(* Standing is kept when the signal lists the connection.                  *)
LEMMA ConnectDescribeStands ==
    ASSUME PathTypes, PathTypes', EndsInv, NEW t \in Threads, ConnectDescribe(t),
           NEW c \in 1 .. Len(made), c \notin raced'
    PROVE  StandsRight(c)'
<1>0. PICK k \in Call : k = thread[t] /\ CallOK(k, Len(made)) /\ Len(made) \in Nat
    BY CallFields
<1>1. PICK j : j = thread'[t]
    OBVIOUS
<1>2. /\ \A u \in Threads : u # t => thread'[u] = thread[u]
      /\ made'[c].signal = made[c].signal /\ made'[c].port = made[c].port
      /\ raced \subseteq raced' /\ Continue(t)
    BY StepFacts DEF Continue
<1>3. /\ k.at = "describe" /\ k.method = "connect" /\ k.s \in Signals /\ k.c \in 1 .. Len(made)
      /\ j.at = "enqueue" /\ SameConnect(k, j)
    BY <1>0, <1>1, AfterEndStep, HandsFull
<1>4. /\ connections' = [connections EXCEPT ![k.s] = Append(@, k.c)]
      /\ connectionRef' = connectionRef /\ fate' = fate /\ isComponentRemoved' = isComponentRemoved
    BY <1>0 DEF ConnectDescribe, tree
<1>5. ~ListedIn(k.c, connections[k.s]) /\ made[k.c].signal = k.s
    BY <1>0, <1>3 DEF EndsInv, CallsApart, Listed, Late
<1>6. made[c].signal \in Signals /\ StandsRight(c) /\ c \notin raced
  <2>1. made[c] \in Made
      BY DEF PathTypes, ConnectionTypes
  <2> QED
      BY <1>2, <2>1 DEF Made, EndsInv, Standing
<1>7. Listed(c)' <=> Listed(c) \/ c = k.c
  <2>1. k.c \in Nat
      BY <1>3
  <2>2. \A s \in Signals : \A x :
            ListedIn(x, connections'[s]) <=> ListedIn(x, connections[s]) \/ (s = k.s /\ x = k.c)
      BY <1>3, <1>4, <1>5, <2>1, PutIn DEF EndsInv
  <2> QED
      BY <1>2, <1>5, <1>6, <2>2 DEF Listed
<1>8. RefersTo(c)' <=> RefersTo(c)
    BY <1>2, <1>4 DEF RefersTo
<1>9. CASE c = k.c
  <2>1. /\ fate[c] = "made" /\ ~isComponentRemoved[made[c].signal] /\ RefersTo(c)
        /\ \A u \in Threads : Connects(u, c) => u = t
      BY <1>0, <1>3, <1>6, <1>9, MakerKnows DEF EndsInv, Early, Late
  <2>2. Connects(t, c)' /\ \A u \in Threads : Connects(u, c)' => u = t
      BY <1>1, <1>2, <1>3, <1>9, <2>1 DEF Connects, SameConnect
  <2>3. MadeOK(c)'
      BY <1>1, <1>2, <1>3, <1>4, <1>7, <1>8, <1>9, <2>1, <2>2 DEF MadeOK, Early, Late
  <2> QED
      BY <1>4, <2>1, <2>3 DEF StandsRight
<1>10. CASE c # k.c
  <2>1. ~Connects(t, c) /\ ~Connects(t, c)' /\ ~Erases(t, c) /\ thread[t].at # "clear"
      BY <1>0, <1>1, <1>3, <1>10 DEF Connects, SameConnect, Erases
  <2>2. Listed(c)' <=> Listed(c)
      BY <1>7, <1>10
  <2> QED
      BY <1>2, <1>4, <1>6, <1>8, <2>1, <2>2, SameStanding
<1> QED
    BY <1>9, <1>10

(* Standing is kept when connect returns.                                  *)
LEMMA ConnectEndStands ==
    ASSUME PathTypes, PathTypes', EndsInv, NEW t \in Threads, ConnectEnd(t),
           NEW c \in 1 .. Len(made), c \notin raced'
    PROVE  StandsRight(c)'
<1>0. PICK k \in Call : k = thread[t] /\ CallOK(k, Len(made)) /\ Len(made) \in Nat
    BY CallFields
<1>2. /\ \A u \in Threads : u # t => thread'[u] = thread[u]
      /\ made'[c].signal = made[c].signal /\ made'[c].port = made[c].port
      /\ raced \subseteq raced' /\ Continue(t)
    BY StepFacts DEF Continue
<1>3. /\ k.at = "enqueue" /\ k.method = "connect" /\ k.c \in 1 .. Len(made) /\ thread'[t] = Idle
    BY <1>0, AfterEndStep, HandsFull
<1>4. /\ fate' = [fate EXCEPT ![k.c] = IF @ = "made" THEN "connected" ELSE @]
      /\ connections' = connections
      /\ connectionRef' = connectionRef /\ isComponentRemoved' = isComponentRemoved
    BY <1>0 DEF ConnectEnd, tree
<1>5. fate \in Seq(Fates) /\ Len(fate) = Len(made) /\ StandsRight(c)
    BY <1>2 DEF PathTypes, ConnectionTypes, EndsInv, Standing
<1>6. /\ RefersTo(c)' <=> RefersTo(c)
      /\ Listed(c)' <=> Listed(c)
      /\ ~Connects(t, c)' /\ ~Erases(t, c) /\ thread[t].at # "clear"
    BY <1>0, <1>2, <1>3, <1>4, IdleFields DEF RefersTo, Listed, Connects, Erases
<1>7. CASE c = k.c
  <2>1. Connects(t, c) /\ \A u \in Threads : Connects(u, c) => u = t
      BY <1>0, <1>3, <1>7 DEF Connects, EndsInv, CallsApart
  <2>2. \A u \in Threads : ~Connects(u, c)'
      BY <1>2, <1>6, <2>1 DEF Connects
  <2>3. fate[c] \in {"made", "dropped"}
      BY <1>5, <2>1 DEF StandsRight, ConnectedOK, FailedOK, Fates
  <2>4. CASE fate[c] = "made"
    <3>1. fate'[c] = "connected"
        BY <1>4, <1>5, <1>7, <2>4
    <3>2. ~isComponentRemoved[made[c].signal] /\ RefersTo(c) /\ Listed(c)
        BY <1>0, <1>3, <1>5, <2>1, <2>4 DEF StandsRight, MadeOK, Early, Late
    <3>3. ConnectedOK(c)'
        BY <1>2, <1>4, <1>6, <2>2, <3>2 DEF ConnectedOK
    <3> QED
        BY <3>1, <3>3 DEF StandsRight
  <2>5. CASE fate[c] = "dropped"
    <3>1. fate'[c] = "dropped"
        BY <1>4, <1>5, <1>7, <2>5
    <3>2. Listed(c) => \E u \in Threads : Erases(u, c)'
      <4>1. SUFFICES ASSUME Listed(c) PROVE \E u \in Threads : Erases(u, c)'
          OBVIOUS
      <4>2. PICK u \in Threads : Erases(u, c)
          BY <1>5, <2>5, <4>1 DEF StandsRight, DroppedOK
      <4> QED
          BY <1>2, <1>6, <4>2 DEF Erases
    <3>3. DroppedOK(c)'
        BY <1>5, <1>6, <2>2, <2>5, <3>2 DEF StandsRight, DroppedOK
    <3> QED
        BY <3>1, <3>3 DEF StandsRight
  <2> QED
      BY <2>3, <2>4, <2>5
<1>8. CASE c # k.c
  <2>1. ~Connects(t, c)
      BY <1>0, <1>8 DEF Connects
  <2>2. fate'[c] = fate[c]
      BY <1>4, <1>5, <1>8
  <2> QED
      BY <1>2, <1>4, <1>5, <1>6, <2>1, <2>2, SameStanding
<1> QED
    BY <1>7, <1>8

(* Standing is kept when the removal of a signal begins.                   *)
LEMMA RemoveSignalStands ==
    ASSUME PathTypes, PathTypes', EndsInv, NEW t \in Threads, NEW s \in Signals, RemoveSignal(t, s),
           NEW c \in 1 .. Len(made), c \notin raced'
    PROVE  StandsRight(c)'
<1>0. NewCall(t)
    BY DEF NewCall
<1>1. PICK j : j = thread'[t]
    OBVIOUS
<1>2. /\ \A u \in Threads : u # t => thread'[u] = thread[u]
      /\ made'[c].signal = made[c].signal /\ made'[c].port = made[c].port
      /\ raced \subseteq raced'
    BY <1>0, StepFacts
<1>3. /\ thread[t] = Idle /\ j.method = "removeSignal" /\ j.at = "clear" /\ j.s = s
      /\ j.todo = connections[s]
    BY <1>0, <1>1, AfterNewCall
<1>4. /\ isComponentRemoved' = [isComponentRemoved EXCEPT ![s] = TRUE]
      /\ raced' = raced \cup {x \in DOMAIN made : made[x].signal = s /\ fate[x] = "made"}
      /\ connections' = connections /\ connectionRef' = connectionRef /\ fate' = fate
    BY DEF RemoveSignal, Removed
<1>5. /\ StandsRight(c) /\ fate[c] \in Fates /\ c \in DOMAIN made
      /\ isComponentRemoved \in [Components -> BOOLEAN] /\ made[c].signal \in Signals
  <2>1. made[c] \in Made /\ fate[c] \in Fates /\ c \in DOMAIN made
      BY DEF PathTypes, ConnectionTypes
  <2>2. isComponentRemoved \in [Components -> BOOLEAN]
      BY DEF PathTypes, TreeTypes
  <2>3. StandsRight(c)
      BY <1>2 DEF EndsInv, Standing
  <2> QED
      BY <2>1, <2>2, <2>3 DEF Made
<1>6. /\ RefersTo(c)' <=> RefersTo(c)
      /\ Listed(c)' <=> Listed(c)
      /\ ~Connects(t, c)' /\ ~Connects(t, c) /\ ~Erases(t, c) /\ thread[t].at # "clear"
    BY <1>1, <1>2, <1>3, <1>4, IdleFields DEF RefersTo, Listed, Connects, Erases
<1>7. CASE made[c].signal = s
  <2>1. fate[c] # "made"
      BY <1>4, <1>5, <1>7
  <2>2. CASE fate[c] = "connected"
    <3>1. ListedIn(c, j.todo) /\ RefersTo(c) /\ Listed(c)
        BY <1>3, <1>5, <1>7, <2>2 DEF StandsRight, ConnectedOK, Listed
    <3>2. \A u \in Threads : ~Connects(u, c)'
        BY <1>2, <1>5, <1>6, <2>2 DEF StandsRight, ConnectedOK, Connects
    <3>3. ConnectedOK(c)'
        BY <1>1, <1>2, <1>3, <1>6, <1>7, <3>1, <3>2 DEF ConnectedOK
    <3> QED
        BY <1>4, <2>2, <3>3 DEF StandsRight
  <2>3. CASE fate[c] = "dropped"
    <3>1. Erases(t, c)'
        BY <1>1, <1>2, <1>3, <1>7 DEF Erases
    <3>2. ASSUME NEW u \in Threads, Connects(u, c)' PROVE thread'[u].at \in Late
        BY <1>2, <1>5, <1>6, <2>3, <3>2 DEF StandsRight, DroppedOK, Connects
    <3>3. DroppedOK(c)'
        BY <1>5, <1>6, <2>3, <3>1, <3>2 DEF StandsRight, DroppedOK
    <3> QED
        BY <1>4, <2>3, <3>3 DEF StandsRight
  <2>4. CASE fate[c] = "failed"
    <3>1. \A u \in Threads : ~Connects(u, c)'
        BY <1>2, <1>5, <1>6, <2>4 DEF StandsRight, FailedOK, Connects
    <3>2. FailedOK(c)'
        BY <1>5, <1>6, <2>4, <3>1 DEF StandsRight, FailedOK
    <3> QED
        BY <1>4, <2>4, <3>2 DEF StandsRight
  <2> QED
      BY <1>5, <2>1, <2>2, <2>3, <2>4 DEF Fates
<1>8. CASE made[c].signal # s
  <2>1. isComponentRemoved'[made[c].signal] = isComponentRemoved[made[c].signal]
      BY <1>4, <1>5, <1>8
  <2> QED
      BY <1>0, <1>4, <1>5, <1>6, <2>1, SameStanding
<1> QED
    BY <1>7, <1>8

(* Standing is kept when a removed signal disconnects the port of the next *)
(* connection it lists.                                                    *)
LEMMA RemoveSignalDisconnectStands ==
    ASSUME PathTypes, PathTypes', EndsInv, NEW t \in Threads, RemoveSignalDisconnect(t),
           NEW c \in 1 .. Len(made), c \notin raced'
    PROVE  StandsRight(c)'
<1>0. PICK k \in Call : k = thread[t] /\ CallOK(k, Len(made)) /\ Len(made) \in Nat
                        /\ k.todo \in Seq(Nat)
    BY CallFields
<1>1. PICK j : j = thread'[t]
    OBVIOUS
<1>2. /\ \A u \in Threads : u # t => thread'[u] = thread[u]
      /\ made'[c].signal = made[c].signal /\ made'[c].port = made[c].port
      /\ raced \subseteq raced' /\ Continue(t)
    BY StepFacts DEF Continue
<1>3. /\ k.at = "clear" /\ k.method = "removeSignal" /\ k.todo # << >> /\ k.s \in Signals
      /\ j.at = "clear" /\ SameConnect(k, j) /\ j.todo = Tail(k.todo)
    BY <1>0, <1>1, AfterEndStep, HandsFull
<1>4. PICK h \in 1 .. Len(made) : h = Head(k.todo) /\ made[h].port \in Ports
    BY <1>0, <1>3, HandsFull
<1>5a. PICK p \in Ports : p = made[h].port
    BY <1>4
<1>5b. PICK b : b = GetConnectionNoLock(p)
    OBVIOUS
<1>5. p = made[h].port /\ b = GetConnectionNoLock(p)
    BY <1>5a, <1>5b
<1>6. /\ connectionRef' = [connectionRef EXCEPT ![p] = 0] /\ fate' = GivenUp(fate, b)
      /\ raced' = IF b \in {0, h} THEN raced ELSE raced \cup {b}
      /\ connections' = connections /\ isComponentRemoved' = isComponentRemoved
    BY <1>0, <1>4, <1>5 DEF RemoveSignalDisconnect, tree
<1>7. /\ connectionRef \in [Ports -> 0 .. Len(made)] /\ fate \in Seq(Fates) /\ Len(fate) = Len(made)
      /\ b \in 0 .. Len(made) /\ StandsRight(c) /\ c \notin raced /\ c # 0
    BY <1>2, <1>5, RefType DEF PathTypes, ConnectionTypes, EndsInv, Standing
<1>8. isComponentRemoved[k.s] /\ made[h].signal = k.s
  <2>1. 1 \in DOMAIN k.todo /\ k.todo[1] = h
      BY <1>0, <1>3, <1>4
  <2>2. isComponentRemoved[k.s] /\ ListedIn(h, connections[k.s])
      BY <1>0, <1>3, <2>1 DEF EndsInv, ListsInOrder
  <2> QED
      BY <1>3, <2>2 DEF EndsInv, CallsApart, ListedIn
<1>9. fate'[c] = IF c = b THEN "dropped" ELSE fate[c]
    BY <1>6, <1>7, GivenUpAt
<1>10. ~Connects(t, c) /\ ~Connects(t, c)'
    BY <1>0, <1>1, <1>3 DEF Connects, SameConnect
<1>11. Listed(c)' <=> Listed(c)
    BY <1>2, <1>6 DEF Listed
<1>12. CASE c = b
  <2>1. c = h
      BY <1>6, <1>7, <1>12
  <2>2. RefersTo(c)
      BY <1>5, <1>7, <1>12, <2>1 DEF GetConnectionNoLock, RefersTo
  <2>3. fate[c] = "connected"
      BY <1>7, <1>8, <2>1, <2>2, RefHeld DEF EndsInv, StandsRight, MadeOK
  <2>4. \A u \in Threads : ~Connects(u, c)'
      BY <1>2, <1>7, <1>10, <2>3 DEF StandsRight, ConnectedOK, Connects
  <2>5. ~RefersTo(c)'
      BY <1>2, <1>5, <1>6, <1>7, <2>1 DEF RefersTo
  <2>6. Erases(t, c)'
      BY <1>1, <1>2, <1>3, <1>8, <2>1 DEF Erases, SameConnect
  <2>7. DroppedOK(c)'
      BY <2>4, <2>5, <2>6 DEF DroppedOK
  <2> QED
      BY <1>9, <1>12, <2>7 DEF StandsRight
<1>13. CASE c # b
  <2>1. made[c].port = p => ~RefersTo(c)
      BY <1>5, <1>7, <1>13, RefHeld DEF EndsInv
  <2>2. RefersTo(c)' <=> RefersTo(c)
    <3>1. CASE made[c].port = p
        BY <1>2, <1>6, <1>7, <2>1, <3>1 DEF RefersTo
    <3>2. CASE made[c].port # p
        BY <1>2, <1>6, <1>7, <3>2 DEF RefersTo
    <3> QED
        BY <3>1, <3>2
  <2>3. Erases(t, c) => Erases(t, c)'
      BY <1>0, <1>1, <1>2, <1>3 DEF Erases, SameConnect
  <2>4. ASSUME fate[c] = "connected", ListedIn(c, thread[t].todo)
        PROVE  ListedIn(c, thread'[t].todo)
    <3>1. c # h
        BY <1>5, <1>7, <2>1, <2>4 DEF StandsRight, ConnectedOK
    <3>2. ListedIn(c, k.todo)
        BY <1>0, <2>4
    <3>3. ListedIn(c, Tail(k.todo))
        BY <1>0, <1>3, <1>4, <3>1, <3>2, TailLists
    <3> QED
        BY <1>1, <1>3, <3>3
  <2>5. thread'[t].at = "clear" /\ thread'[t].s = thread[t].s
      BY <1>0, <1>1, <1>3 DEF SameConnect
  <2> QED
      BY <1>2, <1>6, <1>7, <1>9, <1>10, <1>11, <1>13, <2>2, <2>3, <2>4, <2>5, SameStanding
<1> QED
    BY <1>12, <1>13

(* Standing is kept when a removed signal clears its list.                 *)
LEMMA RemoveSignalClearStands ==
    ASSUME PathTypes, PathTypes', LocksFull, EndsInv, NEW t \in Threads, RemoveSignalClear(t),
           NEW c \in 1 .. Len(made), c \notin raced'
    PROVE  StandsRight(c)'
<1>0. PICK k \in Call : k = thread[t] /\ CallOK(k, Len(made)) /\ Len(made) \in Nat
    BY CallFields
<1>1. PICK j : j = thread'[t]
    OBVIOUS
<1>2. /\ \A u \in Threads : u # t => thread'[u] = thread[u]
      /\ made'[c].signal = made[c].signal /\ made'[c].port = made[c].port
      /\ raced \subseteq raced' /\ Continue(t)
    BY StepFacts DEF Continue
<1>3. /\ k.at = "clear" /\ k.method = "removeSignal" /\ k.todo = << >> /\ k.s \in Signals
      /\ j.at = "forget" /\ j.method = "removeSignal"
  <2>1. k.at = "clear" /\ k.method = "removeSignal" /\ j.at = "forget" /\ SameConnect(k, j)
        /\ k.todo = << >>
      BY <1>0, <1>1, AfterEndStep
  <2> QED
      BY <1>0, <2>1, HandsFull DEF SameConnect
<1>4. /\ connections' = [connections EXCEPT ![k.s] = << >>]
      /\ connectionRef' = connectionRef /\ fate' = fate /\ isComponentRemoved' = isComponentRemoved
    BY <1>0 DEF RemoveSignalClear, tree
<1>5. /\ connections \in [Signals -> Seq(Nat)] /\ fate[c] \in Fates /\ made[c].signal \in Signals
      /\ StandsRight(c) /\ isComponentRemoved[k.s]
  <2>1. made[c] \in Made /\ fate[c] \in Fates /\ connections \in [Signals -> Seq(Nat)]
      BY DEF PathTypes, ConnectionTypes
  <2>2. StandsRight(c)
      BY <1>2 DEF EndsInv, Standing
  <2>3. isComponentRemoved[k.s]
      BY <1>0, <1>3 DEF EndsInv, ListsInOrder
  <2> QED
      BY <2>1, <2>2, <2>3 DEF Made
<1>6. /\ RefersTo(c)' <=> RefersTo(c)
      /\ ~Connects(t, c) /\ ~Connects(t, c)'
    BY <1>0, <1>1, <1>2, <1>3, <1>4 DEF RefersTo, Connects
<1>7. CASE made[c].signal = k.s
  <2>1. ~Listed(c)'
      BY <1>2, <1>4, <1>5, <1>7 DEF Listed, ListedIn
  <2>2. fate[c] # "made"
      BY <1>5, <1>7 DEF StandsRight, MadeOK
  <2>3. fate[c] # "connected"
    <3>1. SUFFICES ASSUME fate[c] = "connected" PROVE FALSE
        OBVIOUS
    <3>2. PICK u \in Threads : /\ thread[u].at = "clear" /\ thread[u].s = k.s
                               /\ ListedIn(c, thread[u].todo)
        BY <1>5, <1>7, <3>1 DEF StandsRight, ConnectedOK
    <3>3. owner[k.s] = t /\ owner[k.s] = u
        BY <1>0, <1>3, <3>2 DEF LocksFull, HoldsFully
    <3>4. ListedIn(c, << >>)
        BY <1>0, <1>3, <3>2, <3>3
    <3> QED
        BY <3>4 DEF ListedIn
  <2>4. CASE fate[c] = "dropped"
    <3>1. ASSUME NEW u \in Threads, Connects(u, c)' PROVE thread'[u].at \in Late
        BY <1>2, <1>5, <1>6, <2>4, <3>1 DEF StandsRight, DroppedOK, Connects
    <3>2. DroppedOK(c)'
        BY <1>5, <1>6, <2>1, <2>4, <3>1 DEF StandsRight, DroppedOK
    <3> QED
        BY <1>4, <2>4, <3>2 DEF StandsRight
  <2>5. CASE fate[c] = "failed"
    <3>1. \A u \in Threads : ~Connects(u, c)'
        BY <1>2, <1>5, <1>6, <2>5 DEF StandsRight, FailedOK, Connects
    <3>2. FailedOK(c)'
        BY <1>5, <1>6, <2>1, <2>5, <3>1 DEF StandsRight, FailedOK
    <3> QED
        BY <1>4, <2>5, <3>2 DEF StandsRight
  <2> QED
      BY <1>5, <2>2, <2>3, <2>4, <2>5 DEF Fates
<1>8. CASE made[c].signal # k.s
  <2>1. Listed(c)' <=> Listed(c)
      BY <1>2, <1>4, <1>5, <1>8 DEF Listed
  <2>2. ~Erases(t, c)
      BY <1>0, <1>3, <1>8 DEF Erases
  <2> QED
      BY <1>0, <1>2, <1>4, <1>5, <1>6, <1>8, <2>1, <2>2, SameStanding
<1> QED
    BY <1>7, <1>8

(* Standing is kept by every step.                                         *)
LEMMA NextStanding ==
    ASSUME PathTypes, PathTypes', LocksFull, EndsInv, NEW t \in Threads, NewCall(t) \/ Continue(t)
    PROVE  Standing'
<1>1. SUFFICES ASSUME NEW c \in 1 .. Len(made'), c \notin raced' PROVE StandsRight(c)'
    BY DEF Standing
<1>2. CASE \/ ~EndStep(t)
           \/ \E p \in Ports, s \in Signals : Connect(t, p, s)
           \/ \E p \in Ports : Disconnect(t, p) \/ RemovePort(t, p)
    BY <1>1, <1>2, BeginStands
<1>3. CASE ConnectPort(t) \/ ConnectOld(t) \/ ConnectListener(t) \/ ConnectDescribe(t) \/ ConnectEnd(t)
  <2>1. made' = made
      BY <1>3 DEF ConnectPort, ConnectOld, ConnectListener, ConnectDescribe, ConnectEnd
  <2>2. c \in 1 .. Len(made)
      BY <2>1
  <2> QED
      BY <1>1, <1>3, <2>2, ConnectPortStands, ConnectOldStands, ConnectListenerStands,
         ConnectDescribeStands, ConnectEndStands
<1>4. CASE DisconnectTell(t) \/ RemovePortOld(t) \/ RemoveSignalDisconnect(t) \/ RemoveSignalClear(t)
  <2>1. made' = made
    <3>1. DisconnectTell(t) => made' = made
        BY DEF DisconnectTell
    <3>2. RemovePortOld(t) => made' = made
        BY DEF RemovePortOld
    <3>3. RemoveSignalDisconnect(t) => made' = made
        BY DEF RemoveSignalDisconnect
    <3>4. RemoveSignalClear(t) => made' = made
        BY DEF RemoveSignalClear
    <3> QED
        BY <1>4, <3>1, <3>2, <3>3, <3>4
  <2>2. c \in 1 .. Len(made)
      BY <2>1
  <2> QED
      BY <1>1, <1>4, <2>2, ToldStands, RemoveSignalDisconnectStands, RemoveSignalClearStands
<1>5. CASE \E s \in Signals : RemoveSignal(t, s)
  <2>1. PICK s \in Signals : RemoveSignal(t, s)
      BY <1>5
  <2>2. c \in 1 .. Len(made)
      BY <2>1 DEF RemoveSignal
  <2> QED
      BY <1>1, <2>1, <2>2, RemoveSignalStands
<1> QED
    BY <1>2, <1>3, <1>4, <1>5 DEF EndStep

(* The invariant about the ends holds at first.                            *)
LEMMA InitEnds == PathInit => EndsInv
<1>1. SUFFICES ASSUME PathInit PROVE EndsInv
    OBVIOUS
<1>2. /\ Len(made) = 0 /\ \A t \in Threads : thread[t] = Idle
      /\ \A s \in Signals : connections[s] = << >>
      /\ \A p \in Ports : connectionRef[p] = 0
    BY <1>1 DEF PathInit
<1>3. CallsApart
    BY <1>2, IdleFields DEF CallsApart
<1>4. RefsInOrder
    BY <1>2, IdleFields DEF RefsInOrder
<1>5. ListsInOrder
    BY <1>2, IdleFields DEF ListsInOrder
<1>6. Standing
    BY <1>2 DEF Standing
<1> QED
    BY <1>3, <1>4, <1>5, <1>6 DEF EndsInv

(* The invariant about the ends is kept by every step.                     *)
LEMMA NextEnds == PathTypes /\ LocksFull /\ EndsInv /\ [PathNext]_pathVars => EndsInv'
<1>1. SUFFICES ASSUME PathTypes, LocksFull, EndsInv, [PathNext]_pathVars PROVE EndsInv'
    OBVIOUS
<1>2. PathTypes'
    BY <1>1, NextPathTypes
<1>3. CASE PathNext
  <2>1. PICK t \in Threads : NewCall(t) \/ Continue(t)
      BY <1>3 DEF PathNext
  <2>2. CallsApart /\ RefsInOrder /\ ListsInOrder /\ Standing
      BY <1>1 DEF EndsInv
  <2>3. CallsApart'
      BY <1>1, <1>2, <2>1, <2>2, NextApart
  <2>4. RefsInOrder'
      BY <1>1, <1>2, <2>1, <2>2, NextRefs
  <2>5. ListsInOrder'
      BY <1>1, <1>2, <2>1, <2>2, NextLists
  <2>6. Standing'
      BY <1>1, <1>2, <2>1, NextStanding
  <2> QED
      BY <2>3, <2>4, <2>5, <2>6 DEF EndsInv
<1>4. CASE UNCHANGED pathVars
  <2>1. UNCHANGED <<isComponentRemoved, connections, connectionRef, made, thread, fate, raced>>
      BY <1>4 DEF pathVars, tree, told
  <2>2. CallsApart'
      BY <1>1, <2>1 DEF EndsInv, CallsApart, Listed
  <2>3. RefsInOrder'
      BY <1>1, <2>1 DEF EndsInv, RefsInOrder
  <2>4. ListsInOrder'
      BY <1>1, <2>1 DEF EndsInv, ListsInOrder
  <2>5. Standing'
      BY <1>1, <2>1 DEF EndsInv, Standing, StandsRight, MadeOK, ConnectedOK, DroppedOK, FailedOK,
             Connects, Listed, RefersTo, Erases
  <2> QED
      BY <2>2, <2>3, <2>4, <2>5 DEF EndsInv
<1> QED
    BY <1>1, <1>3, <1>4

(* At rest the invariant says that the ends agree.                         *)
LEMMA RestingEnds == PathTypes /\ EndsInv => EndsAgree
<1>1. SUFFICES ASSUME PathTypes, EndsInv, AtRest, NEW c \in DOMAIN made \ raced
               PROVE  /\ fate[c] = "connected" <=> Listed(c)
                      /\ fate[c] = "connected" <=> GetConnectionNoLock(made[c].port) = c
                      /\ fate[c] = "connected" => /\ ~isComponentRemoved[made[c].signal]
                                                  /\ ~isComponentRemoved[made[c].port]
    BY DEF EndsAgree, Listed
<1>2. c \in 1 .. Len(made) /\ c # 0 /\ c \notin raced /\ fate[c] \in Fates /\ made[c].port \in Ports
  <2>1. c \in 1 .. Len(made) /\ c # 0 /\ c \notin raced
      BY <1>1 DEF PathTypes, ConnectionTypes
  <2>2. made[c] \in Made /\ fate[c] \in Fates
      BY <1>1, <2>1 DEF PathTypes, ConnectionTypes
  <2> QED
      BY <2>1, <2>2 DEF Made
<1>3. StandsRight(c)
    BY <1>1, <1>2 DEF EndsInv, Standing
<1>4. \A t \in Threads : ~Connects(t, c) /\ ~Erases(t, c) /\ thread[t].at # "clear"
    BY <1>1, IdleFields DEF AtRest, Connects, Erases
<1>5. fate[c] # "made"
    BY <1>3, <1>4 DEF StandsRight, MadeOK
<1>6. GetConnectionNoLock(made[c].port) = c <=> RefersTo(c)
  <2>1. RefersTo(c) => GetConnectionNoLock(made[c].port) = c
      BY <1>1, <1>2, RefHeld DEF EndsInv
  <2>2. GetConnectionNoLock(made[c].port) = c => RefersTo(c)
      BY <1>2 DEF GetConnectionNoLock, RefersTo
  <2> QED
      BY <2>1, <2>2
<1>7. CASE fate[c] = "connected"
  <2>1. RefersTo(c) /\ Listed(c) /\ ~isComponentRemoved[made[c].signal]
      BY <1>3, <1>4, <1>7 DEF StandsRight, ConnectedOK
  <2>2. ~isComponentRemoved[made[c].port]
      BY <1>1, <1>2, <2>1 DEF EndsInv, RefsInOrder, RefersTo
  <2> QED
      BY <1>6, <1>7, <2>1, <2>2
<1>8. CASE fate[c] \in {"dropped", "failed"}
  <2>1. ~RefersTo(c) /\ ~Listed(c)
      BY <1>3, <1>4, <1>8 DEF StandsRight, DroppedOK, FailedOK
  <2> QED
      BY <1>6, <1>8, <2>1
<1> QED
    BY <1>2, <1>5, <1>7, <1>8 DEF Fates

(* When no call is in progress, a connection whose connect succeeded and   *)
(* that nobody gave up is listed by its signal and referred to by its      *)
(* port, and no other is, whatever connect, disconnect and the removals of *)
(* ports and signals of any number of threads did before and in whatever   *)
(* order their steps came (connectInternal, disconnectInternal,            *)
(* SignalBase::removed, listenerDisconnected); excepted are the            *)
(* connections another call touched before they were registered.           *)
THEOREM EndsAlwaysAgree == PathSpec => []EndsAgree
<1>1. PathInit => PathTypes /\ LocksFull /\ EndsInv
    BY InitPathTypes, InitLocksFull, InitEnds
<1>2. PathTypes /\ LocksFull /\ EndsInv /\ [PathNext]_pathVars => (PathTypes /\ LocksFull /\ EndsInv)'
    BY NextPathTypes, NextLocksFull, NextEnds
<1>3. PathTypes /\ LocksFull /\ EndsInv => EndsAgree
    BY RestingEnds
<1> QED
    BY <1>1, <1>2, <1>3, PTL DEF PathSpec

---------------------------------------------------------------------------------
(***************************************************************************)
(* The listener of a port.  Unless it is excused, it takes the port for    *)
(* connected exactly when the port refers to a connection, but for the     *)
(* calls that are about to tell it.                                        *)
(***************************************************************************)
GivesUp(t, p) == thread[t].at \in {"old", "tell"} /\ thread[t].p = p
Asks(t, p) == Connects(t, connectionRef[p]) /\ thread[t].at = "listener"

Excused(p) ==
    isComponentRemoved[p] \/ p \in unheard \/ \E c \in raced : made[c].port = p
Knows(p) ==
    /\ connectionRef[p] # 0 /\ ~listener[p] => \E t \in Threads : Asks(t, p)
    /\ connectionRef[p] = 0 /\ listener[p] => \E t \in Threads : GivesUp(t, p)

ListenerInv ==
    /\ \A p \in Ports : Excused(p) \/ Knows(p)
    /\ \A t \in Threads : thread[t].at = "old" /\ thread[t].method # "connect" =>
           isComponentRemoved[thread[t].p]

(* No call tells a listener anything when it begins.                       *)
LEMMA BeginTells ==
    ASSUME NEW t \in Threads
    PROVE  /\ \A q \in Ports, s \in Signals : Connect(t, q, s) =>
                  unheard' = unheard /\ listener' = listener /\ connectionRef' = connectionRef
           /\ \A q \in Ports : Disconnect(t, q) \/ RemovePort(t, q) =>
                  /\ unheard' = unheard /\ listener' = listener
                  /\ connectionRef' = [connectionRef EXCEPT ![q] = 0]
           /\ \A q \in Ports : RemovePort(t, q) =>
                  isComponentRemoved' = [isComponentRemoved EXCEPT ![q] = TRUE]
           /\ \A s \in Signals : RemoveSignal(t, s) =>
                  unheard' = unheard /\ listener' = listener /\ connectionRef' = connectionRef
<1>1. ASSUME NEW q \in Ports, NEW s \in Signals, Connect(t, q, s)
      PROVE  unheard' = unheard /\ listener' = listener /\ connectionRef' = connectionRef
    BY <1>1 DEF Connect, told
<1>2. ASSUME NEW q \in Ports, Disconnect(t, q)
      PROVE  /\ unheard' = unheard /\ listener' = listener
             /\ connectionRef' = [connectionRef EXCEPT ![q] = 0]
    BY <1>2 DEF Disconnect
<1>3. ASSUME NEW q \in Ports, RemovePort(t, q)
      PROVE  /\ unheard' = unheard /\ listener' = listener
             /\ connectionRef' = [connectionRef EXCEPT ![q] = 0]
             /\ isComponentRemoved' = [isComponentRemoved EXCEPT ![q] = TRUE]
    BY <1>3 DEF RemovePort, Removed
<1>4. ASSUME NEW s \in Signals, RemoveSignal(t, s)
      PROVE  unheard' = unheard /\ listener' = listener /\ connectionRef' = connectionRef
    BY <1>4 DEF RemoveSignal
<1> QED
    BY <1>1, <1>2, <1>3, <1>4

(* What excuses a listener stays.                                          *)
LEMMA ExcusedStays ==
    ASSUME PathTypes, NEW t \in Threads, NewCall(t) \/ Continue(t), NEW p \in Ports, Excused(p)
    PROVE  Excused(p)'
<1>1. isComponentRemoved[p] => isComponentRemoved'[p]
  <2>1. p \in Components /\ isComponentRemoved \in [Components -> BOOLEAN]
      BY DEF Components, PathTypes, TreeTypes
  <2> QED
      BY <2>1, RemovedMoves
<1>2. unheard \subseteq unheard'
  <2>1. ConnectOld(t) => unheard \subseteq unheard'
      BY DEF ConnectOld
  <2>2. ConnectListener(t) => unheard \subseteq unheard'
      BY DEF ConnectListener
  <2>3. DisconnectTell(t) => unheard \subseteq unheard'
      BY DEF DisconnectTell, ListenerTold
  <2>4. RemoveSignalDisconnect(t) => unheard \subseteq unheard'
      BY DEF RemoveSignalDisconnect, ListenerTold
  <2>5. /\ \A q \in Ports, s \in Signals : Connect(t, q, s) => unheard' = unheard
        /\ \A q \in Ports : Disconnect(t, q) \/ RemovePort(t, q) => unheard' = unheard
        /\ \A s \in Signals : RemoveSignal(t, s) => unheard' = unheard
      BY BeginTells
  <2>6. ConnectPort(t) \/ ConnectDescribe(t) \/ ConnectEnd(t) => unheard' = unheard
      BY DEF ConnectPort, ConnectDescribe, ConnectEnd, told
  <2>7. RemovePortOld(t) \/ RemoveSignalClear(t) => unheard' = unheard
      BY DEF RemovePortOld, RemoveSignalClear, told
  <2>8. ~EndStep(t) => unheard' = unheard
      BY QuietStep
  <2> QED
      BY <2>1, <2>2, <2>3, <2>4, <2>5, <2>6, <2>7, <2>8 DEF EndStep
<1>3. ASSUME NEW c \in raced, made[c].port = p PROVE c \in raced' /\ made'[c].port = p
  <2>1. c \in 1 .. Len(made)
      BY DEF PathTypes, ConnectionTypes
  <2> QED
      BY <1>3, <2>1, StepFacts
<1> QED
    BY <1>1, <1>2, <1>3 DEF Excused

(* A port whose listener is not excused gives the connection it refers to. *)
LEMMA PortGives ==
    ASSUME PathTypes, EndsInv, NEW p \in Ports, ~Excused(p)
    PROVE  GetConnectionNoLock(p) = connectionRef[p]
<1>1. CASE connectionRef[p] = 0
    BY <1>1 DEF GetConnectionNoLock
<1>2. CASE connectionRef[p] # 0
  <2>1. PICK c \in 1 .. Len(made) : c = connectionRef[p]
      BY <1>2, RefType, CallFields
  <2>2. made[c].port = p /\ RefersTo(c)
      BY <1>2, <2>1 DEF EndsInv, RefsInOrder, RefersTo
  <2>3. c \notin raced
      BY <2>2 DEF Excused
  <2> QED
      BY <2>1, <2>2, <2>3, RefHeld DEF EndsInv
<1> QED
    BY <1>1, <1>2

(* A step that leaves a port alone leaves what its listener knows.         *)
LEMMA KnowsKept ==
    ASSUME PathTypes, NEW t \in Threads, NewCall(t) \/ Continue(t), NEW p \in Ports, Knows(p),
           connectionRef'[p] = connectionRef[p], listener'[p] = listener[p],
           ~Asks(t, p), ~GivesUp(t, p)
    PROVE  Knows(p)'
<1>1. \A u \in Threads : u # t => thread'[u] = thread[u]
    BY StepFacts
<1>2. \A u \in Threads : Asks(u, p) => Asks(u, p)'
    BY <1>1 DEF Asks, Connects
<1>3. \A u \in Threads : GivesUp(u, p) => GivesUp(u, p)'
    BY <1>1 DEF GivesUp
<1> QED
    BY <1>2, <1>3 DEF Knows

(* The listener knows after a call has begun.                              *)
LEMMA BeginKnows ==
    ASSUME PathTypes, EndsInv, NEW t \in Threads, NewCall(t) \/ Continue(t),
           \/ ~EndStep(t)
           \/ \E q \in Ports, s \in Signals : Connect(t, q, s)
           \/ \E q \in Ports : Disconnect(t, q) \/ RemovePort(t, q)
           \/ \E s \in Signals : RemoveSignal(t, s),
           NEW p \in Ports, Knows(p), ~Excused(p)'
    PROVE  Knows(p)'
<1>0. /\ connectionRef \in [Ports -> 0 .. Len(made)] /\ listener \in [Ports -> BOOLEAN]
      /\ isComponentRemoved \in [Components -> BOOLEAN] /\ p \in Components
    BY DEF PathTypes, TreeTypes, ConnectionTypes, Components
<1>1. CASE ~EndStep(t)
  <2>1. /\ SameRole(thread[t], thread'[t]) /\ connectionRef' = connectionRef /\ listener' = listener
      BY <1>1, QuietStep
  <2>2. ~Asks(t, p) /\ ~GivesUp(t, p)
      BY <2>1 DEF SameRole, Asks, GivesUp
  <2> QED
      BY <2>1, <2>2, KnowsKept
<1>2. ASSUME thread[t] = Idle, connectionRef'[p] = connectionRef[p], listener'[p] = listener[p]
      PROVE  Knows(p)'
  <2>1. ~Asks(t, p) /\ ~GivesUp(t, p)
      BY <1>2, IdleFields DEF Asks, GivesUp
  <2> QED
      BY <1>2, <2>1, KnowsKept
<1>3. CASE \/ \E q \in Ports, s \in Signals : Connect(t, q, s)
           \/ \E s \in Signals : RemoveSignal(t, s)
  <2>1. NewCall(t)
      BY <1>3 DEF NewCall
  <2>2. connectionRef' = connectionRef /\ listener' = listener
      BY <1>3, BeginTells
  <2> QED
      BY <1>2, <2>1, <2>2, AfterNewCall
<1>4. ASSUME NEW q \in Ports, Disconnect(t, q) \/ RemovePort(t, q) PROVE Knows(p)'
  <2>1. NewCall(t) /\ thread[t] = Idle
      BY <1>4, AfterNewCall DEF NewCall
  <2>2. connectionRef' = [connectionRef EXCEPT ![q] = 0] /\ listener' = listener
      BY <1>4, BeginTells
  <2>3. CASE q # p
      BY <1>0, <1>2, <2>1, <2>2, <2>3
  <2>4. CASE q = p /\ Disconnect(t, q)
    <3>1. connectionRef'[p] = 0
        BY <1>0, <2>2, <2>4
    <3>2. GivesUp(t, p)'
        BY <2>4, AfterNewCall DEF GivesUp
    <3> QED
        BY <3>1, <3>2 DEF Knows
  <2>5. CASE q = p /\ RemovePort(t, q)
    <3>1. isComponentRemoved'[p]
        BY <1>0, <2>5, BeginTells
    <3> QED
        BY <3>1 DEF Excused
  <2> QED
      BY <1>4, <2>3, <2>4, <2>5
<1> QED
    BY <1>1, <1>3, <1>4

(* The listener knows after a step of connect under the mutex of the port. *)
LEMMA ConnectPortKnows ==
    ASSUME PathTypes, EndsInv, NEW t \in Threads, ConnectPort(t) \/ ConnectOld(t),
           NEW p \in Ports, Knows(p), ~Excused(p), ~Excused(p)'
    PROVE  Knows(p)'
<1>0. PICK k \in Call : k = thread[t]
    BY CallFields
<1>1. PICK j : j = thread'[t]
    OBVIOUS
<1>2. /\ connectionRef \in [Ports -> 0 .. Len(made)] /\ listener' = listener
      /\ thread \in [Threads -> Call] /\ Continue(t)
    BY DEF PathTypes, ConnectionTypes, ThreadTypes, ConnectPort, ConnectOld, Continue
<1>3. /\ k.method = "connect" /\ k.p \in Ports /\ k.c \in 1 .. Len(made) /\ k.c # 0
      /\ k.at \in {"port", "old"}
    BY <1>0, AfterEndStep, HandsFull
<1>4. CASE k.p # p
  <2>1. \/ connectionRef' = connectionRef
        \/ connectionRef' = [connectionRef EXCEPT ![k.p] = 0]
        \/ connectionRef' = [connectionRef EXCEPT ![k.p] = k.c]
      BY <1>0 DEF ConnectPort, ConnectOld
  <2>2. connectionRef'[p] = connectionRef[p]
      BY <1>2, <1>4, <2>1
  <2>3. ~Asks(t, p) /\ ~GivesUp(t, p)
      BY <1>0, <1>3, <1>4 DEF Asks, GivesUp
  <2> QED
      BY <1>2, <2>2, <2>3, KnowsKept
<1>5. ASSUME connectionRef' = [connectionRef EXCEPT ![k.p] = k.c],
             Goto(t, [k EXCEPT !.at = "listener"]) \/ Goto(t, [k EXCEPT !.at = "listener", !.todo = << >>]),
             k.p = p
      PROVE  Knows(p)'
  <2>1. connectionRef'[p] = k.c
      BY <1>2, <1>5
  <2>2. j.at = "listener" /\ j.method = "connect" /\ j.c = k.c
    <3>1. CASE Goto(t, [k EXCEPT !.at = "listener"])
        BY <1>1, <1>2, <1>3, <3>1 DEF Goto, Call
    <3>2. CASE Goto(t, [k EXCEPT !.at = "listener", !.todo = << >>])
        BY <1>1, <1>2, <1>3, <3>2 DEF Goto, Call
    <3> QED
        BY <1>5, <3>1, <3>2
  <2>3. Asks(t, p)'
      BY <1>1, <2>1, <2>2 DEF Asks, Connects
  <2> QED
      BY <1>3, <2>1, <2>3 DEF Knows
<1>6. CASE k.p = p /\ ConnectPort(t)
  <2>1. ~isComponentRemoved[p]
      BY DEF Excused
  <2>2. \/ /\ connectionRef' = [connectionRef EXCEPT ![k.p] = k.c]
           /\ Goto(t, [k EXCEPT !.at = "listener"])
        \/ /\ connectionRef' = [connectionRef EXCEPT ![k.p] = 0]
           /\ Goto(t, [k EXCEPT !.at = "old", !.todo = <<GetConnectionNoLock(k.p)>>])
    <3>1. ~isComponentRemoved[k.p]
        BY <1>6, <2>1
    <3> QED
        BY <1>0, <1>6, <3>1 DEF ConnectPort, Return
  <2>3. CASE /\ connectionRef' = [connectionRef EXCEPT ![k.p] = 0]
             /\ Goto(t, [k EXCEPT !.at = "old", !.todo = <<GetConnectionNoLock(k.p)>>])
    <3>1. connectionRef'[p] = 0
        BY <1>2, <1>6, <2>3
    <3>2. j.at = "old" /\ j.p = p
        BY <1>1, <1>2, <1>6, <2>3 DEF Goto, Call
    <3>3. GivesUp(t, p)'
        BY <1>1, <3>2 DEF GivesUp
    <3> QED
        BY <3>1, <3>3 DEF Knows
  <2> QED
      BY <1>5, <1>6, <2>2, <2>3
<1>7. CASE k.p = p /\ ConnectOld(t)
  <2>1. \/ /\ connectionRef' = [connectionRef EXCEPT ![k.p] = k.c]
           /\ Goto(t, [k EXCEPT !.at = "listener", !.todo = << >>])
        \/ unheard' = unheard \cup {k.p}
    <3>1. ConnectOld(t) /\ k = thread[t]
        BY <1>0, <1>7
    <3> QED
        BY ONLY <3>1 DEF ConnectOld
  <2>2. CASE unheard' = unheard \cup {k.p}
      BY <1>7, <2>2 DEF Excused
  <2> QED
      BY <1>5, <1>7, <2>1, <2>2
<1> QED
    BY <1>4, <1>6, <1>7

(* The listener knows after it was asked.                                  *)
LEMMA ConnectListenerKnows ==
    ASSUME PathTypes, EndsInv, NEW t \in Threads, ConnectListener(t),
           NEW p \in Ports, Knows(p), ~Excused(p), ~Excused(p)'
    PROVE  Knows(p)'
<1>0. PICK k \in Call : k = thread[t]
    BY CallFields
<1>1. /\ connectionRef \in [Ports -> 0 .. Len(made)] /\ listener \in [Ports -> BOOLEAN]
    BY DEF PathTypes, ConnectionTypes
<1>2. /\ k.at = "listener" /\ k.method = "connect" /\ k.p \in Ports /\ k.c \in 1 .. Len(made)
      /\ Continue(t)
    BY <1>0, AfterEndStep, HandsFull DEF Continue
<1>3. made[k.c].port = k.p
    BY <1>0, <1>2 DEF EndsInv, CallsApart
<1>4. \/ listener' = [listener EXCEPT ![k.p] = TRUE] /\ connectionRef' = connectionRef
      \/ /\ connectionRef' = [connectionRef EXCEPT ![k.p] = 0] /\ listener' = listener
         /\ unheard' = IF listener[k.p] THEN unheard \cup {k.p} ELSE unheard
  <2>1. ConnectListener(t) /\ k = thread[t]
      BY <1>0
  <2> QED
      BY ONLY <2>1 DEF ConnectListener
<1>5. CASE k.p # p
  <2>1. connectionRef'[p] = connectionRef[p] /\ listener'[p] = listener[p]
      BY <1>1, <1>4, <1>5
  <2>2. ~Asks(t, p)
    <3>1. SUFFICES ASSUME k.c = connectionRef[p] PROVE FALSE
        BY <1>0 DEF Asks, Connects
    <3>2. connectionRef[p] # 0
        BY <1>2, <3>1
    <3> QED
        BY <1>3, <1>5, <3>1, <3>2 DEF EndsInv, RefsInOrder
  <2>3. ~GivesUp(t, p)
      BY <1>0, <1>2 DEF GivesUp
  <2> QED
      BY <1>2, <2>1, <2>2, <2>3, KnowsKept
<1>6. CASE k.p = p
  <2>1. connectionRef[p] = k.c
    <3>1. k.c \notin raced
        BY <1>3, <1>6 DEF Excused
    <3>2. RefersTo(k.c)
        BY <1>0, <1>2, <3>1, MakerKnows DEF EndsInv, Early, Late
    <3> QED
        BY <1>3, <1>6, <3>2 DEF RefersTo
  <2>2. CASE listener' = [listener EXCEPT ![k.p] = TRUE] /\ connectionRef' = connectionRef
    <3>1. listener'[p] /\ connectionRef'[p] # 0
        BY <1>1, <1>2, <1>6, <2>1, <2>2
    <3> QED
        BY <3>1 DEF Knows
  <2>3. CASE /\ connectionRef' = [connectionRef EXCEPT ![k.p] = 0] /\ listener' = listener
             /\ unheard' = IF listener[k.p] THEN unheard \cup {k.p} ELSE unheard
    <3>1. connectionRef'[p] = 0 /\ ~listener'[p]
        BY <1>1, <1>6, <2>3 DEF Excused
    <3> QED
        BY <3>1 DEF Knows
  <2> QED
      BY <1>4, <2>2, <2>3
<1> QED
    BY <1>5, <1>6

(* The listener knows after connect has registered or returned, and after  *)
(* a removed port or signal has taken connections out of a list.           *)
LEMMA RegisterKnows ==
    ASSUME PathTypes, ListenerInv, NEW t \in Threads,
           ConnectDescribe(t) \/ ConnectEnd(t) \/ RemovePortOld(t) \/ RemoveSignalClear(t),
           NEW p \in Ports, Knows(p), ~Excused(p)
    PROVE  Knows(p)'
<1>0. PICK k \in Call : k = thread[t]
    BY CallFields
<1>1. Continue(t) /\ connectionRef' = connectionRef /\ listener' = listener
  <2>1. ConnectDescribe(t) \/ ConnectEnd(t) => connectionRef' = connectionRef /\ listener' = listener
      BY DEF ConnectDescribe, ConnectEnd, told
  <2>2. RemovePortOld(t) \/ RemoveSignalClear(t) => connectionRef' = connectionRef /\ listener' = listener
      BY DEF RemovePortOld, RemoveSignalClear, told
  <2> QED
      BY <2>1, <2>2 DEF Continue
<1>2. k.at \in {"describe", "enqueue", "clear"} \/ (k.at = "old" /\ k.method = "removePort")
    BY <1>0, AfterEndStep
<1>3. k.at = "old" => k.p # p
    BY <1>0, <1>2 DEF ListenerInv, Excused
<1>4. ~Asks(t, p) /\ ~GivesUp(t, p)
    BY <1>0, <1>2, <1>3 DEF Asks, GivesUp
<1> QED
    BY <1>1, <1>4, KnowsKept

(* The listener knows after disconnect has told the signal and itself.     *)
LEMMA TellKnows ==
    ASSUME PathTypes, NEW t \in Threads, DisconnectTell(t),
           NEW p \in Ports, Knows(p), ~Excused(p)'
    PROVE  Knows(p)'
<1>0. PICK k \in Call : k = thread[t]
    BY CallFields
<1>1. /\ connectionRef \in [Ports -> 0 .. Len(made)] /\ listener \in [Ports -> BOOLEAN]
    BY DEF PathTypes, ConnectionTypes
<1>2. k.at = "tell" /\ k.p \in Ports /\ Continue(t)
    BY <1>0, AfterEndStep, HandsFull DEF Continue
<1>3. /\ connectionRef' = connectionRef
      /\ \/ /\ listener' = [listener EXCEPT ![k.p] = FALSE]
            /\ unheard' = IF connectionRef[k.p] \in {0, 0} THEN unheard ELSE unheard \cup {k.p}
         \/ listener' = listener /\ unheard' = unheard \cup {k.p}
  <2>1. DisconnectTell(t) /\ k = thread[t]
      BY <1>0
  <2> QED
      BY ONLY <2>1 DEF DisconnectTell, ListenerTold
<1>4. CASE k.p # p
  <2>1. listener'[p] = listener[p]
      BY <1>1, <1>3, <1>4
  <2>2. ~Asks(t, p) /\ ~GivesUp(t, p)
      BY <1>0, <1>2, <1>4 DEF Asks, GivesUp
  <2> QED
      BY <1>2, <1>3, <2>1, <2>2, KnowsKept
<1>5. CASE k.p = p
  <2>1. p \notin unheard'
      BY DEF Excused
  <2>2. listener' = [listener EXCEPT ![k.p] = FALSE] /\ connectionRef[p] = 0
      BY <1>3, <1>5, <2>1
  <2>3. ~listener'[p] /\ connectionRef'[p] = 0
      BY <1>1, <1>3, <1>5, <2>2
  <2> QED
      BY <2>3 DEF Knows
<1> QED
    BY <1>4, <1>5

(* The listener knows after a removed signal has disconnected its port.    *)
LEMMA RemoveSignalKnows ==
    ASSUME PathTypes, EndsInv, NEW t \in Threads, RemoveSignalDisconnect(t),
           NEW p \in Ports, Knows(p), ~Excused(p)
    PROVE  Knows(p)'
<1>0. PICK k \in Call : k = thread[t]
    BY CallFields
<1>1. /\ connectionRef \in [Ports -> 0 .. Len(made)] /\ listener \in [Ports -> BOOLEAN]
    BY DEF PathTypes, ConnectionTypes
<1>2. k.at = "clear" /\ k.todo # << >> /\ Continue(t)
    BY <1>0, AfterEndStep DEF Continue
<1>3. PICK q \in Ports : q = made[Head(k.todo)].port
    BY <1>0, <1>2, HandsFull
<1>4. /\ connectionRef' = [connectionRef EXCEPT ![q] = 0]
      /\ \/ GetConnectionNoLock(q) = 0 /\ listener' = listener
         \/ listener' = [listener EXCEPT ![q] = FALSE]
  <2>1. RemoveSignalDisconnect(t) /\ k = thread[t] /\ q = made[Head(k.todo)].port
      BY <1>0, <1>3
  <2> QED
      BY ONLY <2>1 DEF RemoveSignalDisconnect, ListenerTold
<1>5. ASSUME connectionRef'[p] = connectionRef[p], listener'[p] = listener[p] PROVE Knows(p)'
  <2>1. ~Asks(t, p) /\ ~GivesUp(t, p)
      BY <1>0, <1>2 DEF Asks, GivesUp
  <2> QED
      BY <1>2, <1>5, <2>1, KnowsKept
<1>6. CASE q # p
  <2>1. connectionRef'[p] = connectionRef[p] /\ listener'[p] = listener[p]
      BY <1>1, <1>4, <1>6
  <2> QED
      BY <1>5, <2>1
<1>7. CASE q = p /\ GetConnectionNoLock(q) = 0 /\ listener' = listener
  <2>1. connectionRef[p] = 0
      BY <1>7, PortGives
  <2>2. connectionRef'[p] = connectionRef[p] /\ listener'[p] = listener[p]
      BY <1>1, <1>4, <1>7, <2>1
  <2> QED
      BY <1>5, <2>2
<1>8. CASE q = p /\ listener' = [listener EXCEPT ![q] = FALSE]
  <2>1. ~listener'[p] /\ connectionRef'[p] = 0
      BY <1>1, <1>4, <1>8
  <2> QED
      BY <2>1 DEF Knows
<1> QED
    BY <1>4, <1>6, <1>7, <1>8

(* The invariant about the listeners is kept by every step.                *)
LEMMA NextListener ==
    PathTypes /\ EndsInv /\ ListenerInv /\ [PathNext]_pathVars => ListenerInv'
<1>1. SUFFICES ASSUME PathTypes, EndsInv, ListenerInv, [PathNext]_pathVars PROVE ListenerInv'
    OBVIOUS
<1>2. ASSUME NEW t \in Threads, NewCall(t) \/ Continue(t) PROVE ListenerInv'
  <2>1. ASSUME NEW p \in Ports, ~Excused(p)' PROVE Knows(p)'
    <3>1. ~Excused(p)
        BY <1>1, <1>2, <2>1, ExcusedStays
    <3>2. Knows(p)
        BY <1>1, <3>1 DEF ListenerInv
    <3>3. CASE ConnectPort(t) \/ ConnectOld(t)
        BY <1>1, <2>1, <3>1, <3>2, <3>3, ConnectPortKnows
    <3>4. CASE ConnectListener(t)
        BY <1>1, <2>1, <3>1, <3>2, <3>4, ConnectListenerKnows
    <3>5. CASE ConnectDescribe(t) \/ ConnectEnd(t) \/ RemovePortOld(t) \/ RemoveSignalClear(t)
        BY <1>1, <3>1, <3>2, <3>5, RegisterKnows
    <3>6. CASE DisconnectTell(t)
        BY <1>1, <2>1, <3>2, <3>6, TellKnows
    <3>7. CASE RemoveSignalDisconnect(t)
        BY <1>1, <3>1, <3>2, <3>7, RemoveSignalKnows
    <3>8. CASE \/ ~EndStep(t)
               \/ \E q \in Ports, s \in Signals : Connect(t, q, s)
               \/ \E q \in Ports : Disconnect(t, q) \/ RemovePort(t, q)
               \/ \E s \in Signals : RemoveSignal(t, s)
        BY <1>1, <1>2, <2>1, <3>2, <3>8, BeginKnows
    <3> QED
        BY <3>3, <3>4, <3>5, <3>6, <3>7, <3>8 DEF EndStep
  <2>2. ASSUME NEW u \in Threads, thread'[u].at = "old", thread'[u].method # "connect"
        PROVE  isComponentRemoved'[thread'[u].p]
    <3>1. CASE u # t
      <4>1. PICK k \in Call : k = thread[u] /\ k = thread'[u]
          BY <1>1, <1>2, <3>1, StepFacts, CallFields
      <4>2. k.p \in Ports /\ isComponentRemoved[k.p]
          BY <1>1, <2>2, <4>1, HandsFull DEF ListenerInv
      <4>3. isComponentRemoved \in [Components -> BOOLEAN] /\ k.p \in Components
          BY <1>1, <4>2 DEF PathTypes, TreeTypes, Components
      <4> QED
          BY <1>1, <1>2, <4>1, <4>2, <4>3, RemovedMoves
    <3>2. CASE u = t
      <4>0. PICK k \in Call : k = thread[t]
          BY <1>1, CallFields
      <4>1. ConnectPort(t) \/ \E p \in Ports : Disconnect(t, p) \/ RemovePort(t, p)
          BY <1>1, <1>2, <2>2, <3>2, <4>0, RoleStep
      <4>2. ~ConnectPort(t)
          BY <1>1, <2>2, <3>2, <4>0, AfterEndStep, IdleFields DEF SameConnect
      <4>3. \A p \in Ports : ~Disconnect(t, p)
          BY <1>1, <2>2, <3>2, AfterNewCall
      <4>4. PICK p \in Ports : RemovePort(t, p)
          BY <4>1, <4>2, <4>3
      <4>5. thread[t] = Idle
          BY <1>1, <4>4, AfterNewCall DEF NewCall
      <4>6. thread'[t].p = p
          BY <1>1, <2>2, <3>2, <4>4, <4>5, AfterNewCall, IdleFields
      <4>7. isComponentRemoved' = [isComponentRemoved EXCEPT ![p] = TRUE]
          BY <4>4, BeginTells
      <4>8. isComponentRemoved \in [Components -> BOOLEAN] /\ p \in Components
          BY <1>1 DEF PathTypes, TreeTypes, Components
      <4> QED
          BY <3>2, <4>6, <4>7, <4>8
    <3> QED
        BY <3>1, <3>2
  <2> QED
      BY <2>1, <2>2 DEF ListenerInv
<1>3. CASE UNCHANGED pathVars
  <2>1. UNCHANGED <<isComponentRemoved, connectionRef, made, thread, raced, listener, unheard>>
      BY <1>3 DEF pathVars, tree, told
  <2> QED
      BY <1>1, <2>1 DEF ListenerInv, Excused, Knows, Asks, GivesUp, Connects
<1> QED
    BY <1>1, <1>2, <1>3 DEF PathNext

(* When no call is in progress the listener of a port knows whether the    *)
(* port is connected, for every interleaving of connect, disconnect and    *)
(* the removals: each way a connection is lost tells the listener          *)
(* (disconnectInternal, disconnectWithoutSignalNotification), unless it    *)
(* refused a replacement, a call failed, or calls of two threads on the    *)
(* port crossed.                                                           *)
THEOREM ListenerAlwaysKnows == PathSpec => []ListenerKnows
<1>1. PathInit => PathTypes /\ LocksFull /\ EndsInv /\ ListenerInv
  <2>1. PathInit => ListenerInv
      BY IdleFields DEF PathInit, ListenerInv, Knows
  <2> QED
      BY <2>1, InitPathTypes, InitLocksFull, InitEnds
<1>2. PathTypes /\ LocksFull /\ EndsInv /\ ListenerInv /\ [PathNext]_pathVars
          => (PathTypes /\ LocksFull /\ EndsInv /\ ListenerInv)'
    BY NextPathTypes, NextLocksFull, NextEnds, NextListener
<1>3. PathTypes /\ EndsInv /\ ListenerInv => ListenerKnows
  <2>1. SUFFICES ASSUME PathTypes, EndsInv, ListenerInv, AtRest, NEW p \in Ports, ~Excused(p)
                 PROVE  listener[p] <=> GetConnectionNoLock(p) # 0
      BY DEF ListenerKnows, Excused
  <2>2. GetConnectionNoLock(p) = connectionRef[p]
      BY <2>1, PortGives
  <2>3. \A t \in Threads : ~Asks(t, p) /\ ~GivesUp(t, p)
      BY <2>1, IdleFields DEF AtRest, Asks, GivesUp
  <2>4. Knows(p)
      BY <2>1 DEF ListenerInv
  <2> QED
      BY <2>2, <2>3, <2>4 DEF Knows
<1> QED
    BY <1>1, <1>2, <1>3, PTL DEF PathSpec

---------------------------------------------------------------------------------
(***************************************************************************)
(* Descriptors.  A nonempty set of places has a last one.                  *)
(***************************************************************************)
LEMMA LastPlace ==
    ASSUME NEW n \in Nat, NEW T \in SUBSET (1 .. n), T # {}
    PROVE  \E x \in T : \A y \in T : y <= x
<1> DEFINE F == {(x + 1) .. n : x \in T}
<1>1. F \subseteq FiniteSubsetsOf(1 .. n)
  <2> SUFFICES ASSUME NEW x \in T
               PROVE  (x + 1) .. n \in FiniteSubsetsOf(1 .. n)
      BY Zenon
  <2>1. (x + 1) .. n \subseteq 1 .. n
      OBVIOUS
  <2>2. IsFiniteSet((x + 1) .. n)
      BY FS_Interval
  <2> QED
      BY <2>1, <2>2 DEF FiniteSubsetsOf
<1>2. F # {}
    BY Zenon
<1>3. IsWellFoundedOn(StrictSubsetOrdering(1 .. n), FiniteSubsetsOf(1 .. n))
    BY FS_StrictSubsetOrderingWellFounded
<1>4. \E U \in F : \A V \in F : <<V, U>> \notin StrictSubsetOrdering(1 .. n)
    BY <1>1, <1>2, <1>3, WFMin, Zenon
<1>5. PICK x \in T : \A y \in T :
          <<(y + 1) .. n, (x + 1) .. n>> \notin StrictSubsetOrdering(1 .. n)
    BY <1>4, Zenon
<1>6. ASSUME NEW y \in T, ~(y <= x)
      PROVE  FALSE
  <2>1. /\ (y + 1) .. n \subseteq (x + 1) .. n
        /\ y \in (x + 1) .. n /\ y \notin (y + 1) .. n
        /\ (x + 1) .. n \subseteq 1 .. n
      BY <1>6
  <2>2. <<(y + 1) .. n, (x + 1) .. n>> \in StrictSubsetOrdering(1 .. n)
      BY <2>1, Zenon DEF StrictSubsetOrdering
  <2> QED
      BY <1>5, <2>2
<1> QED
    BY <1>6

(* What was announced last depends only on the packets up to the place     *)
(* that is asked for.                                                      *)
LEMMA LastToldSame ==
    ASSUME NEW p \in Seq(Packet), NEW x \in Packet, NEW n \in 0 .. Len(p), NEW f
    PROVE  LastTold(Append(p, x), n, f) = LastTold(p, n, f)
<1>a. PICK q : q = Append(p, x)
    OBVIOUS
<1>0. \A i \in 1 .. n : p[i] = q[i]
    BY <1>a
<1> SUFFICES LastTold(q, n, f) = LastTold(p, n, f)
    BY <1>a
<1> DEFINE P == {i \in 1 .. n : p[i].kind = "event" /\ p[i][f] # "same"}
           Q == {i \in 1 .. n : q[i].kind = "event" /\ q[i][f] # "same"}
           last(S) == CHOOSE i \in S : \A j \in S : j <= i
<1>1. P = Q /\ P \in SUBSET (1 .. n) /\ n \in Nat
    BY <1>0
<1>2. /\ LastTold(p, n, f) = IF P = {} THEN "same" ELSE p[last(P)][f]
      /\ LastTold(q, n, f) = IF Q = {} THEN "same" ELSE q[last(Q)][f]
    BY Zenon DEF LastTold
<1> HIDE DEF P, Q
<1>3. P # {} => last(P) \in P
  <2>1. P # {} => \E i \in P : \A j \in P : j <= i
      BY <1>1, LastPlace
  <2> QED
      BY <2>1, Zenon
<1> HIDE DEF last
<1>4. P # {} => p[last(P)] = q[last(P)]
    BY <1>0, <1>1, <1>3
<1>5. last(P) = last(Q) /\ (P = {} <=> Q = {})
    BY <1>1, Zenon
<1>6. CASE P = {}
    BY <1>2, <1>5, <1>6
<1>7. CASE P # {}
  <2>1. LastTold(p, n, f) = p[last(P)][f] /\ LastTold(q, n, f) = q[last(P)][f]
      BY <1>2, <1>5, <1>7
  <2> QED
      BY <1>4, <1>7, <2>1, Zenon
<1> QED
    BY <1>6, <1>7

(* A packet that is no event, or says nothing of the field, changes        *)
(* nothing; another is the last one.                                       *)
LEMMA LastToldNext ==
    ASSUME NEW q, NEW n \in Nat, NEW f
    PROVE  LastTold(q, n + 1, f) = IF q[n + 1].kind = "event" /\ q[n + 1][f] # "same"
                                   THEN q[n + 1][f] ELSE LastTold(q, n, f)
<1> DEFINE P == {i \in 1 .. n : q[i].kind = "event" /\ q[i][f] # "same"}
           Q == {i \in 1 .. n + 1 : q[i].kind = "event" /\ q[i][f] # "same"}
           last(S) == CHOOSE i \in S : \A j \in S : j <= i
<1>1. /\ LastTold(q, n, f) = IF P = {} THEN "same" ELSE q[last(P)][f]
      /\ LastTold(q, n + 1, f) = IF Q = {} THEN "same" ELSE q[last(Q)][f]
    BY Zenon DEF LastTold
<1>2. CASE q[n + 1].kind = "event" /\ q[n + 1][f] # "same"
  <2>1. n + 1 \in Q /\ \A j \in Q : j \in Int /\ j <= n + 1
      BY <1>2
  <2>2. last(Q) = n + 1
    <3> HIDE DEF Q
    <3>1. PICK m \in Q : m = last(Q) /\ \A j \in Q : j <= m
        BY <2>1
    <3> QED
        BY <2>1, <3>1
  <2> HIDE DEF Q, last
  <2> QED
      BY <1>1, <1>2, <2>1, <2>2
<1>3. CASE ~(q[n + 1].kind = "event" /\ q[n + 1][f] # "same")
  <2>1. 1 .. n + 1 = 1 .. n \cup {n + 1}
      OBVIOUS
  <2>2. P = Q
      BY <1>3, <2>1
  <2> HIDE DEF P, Q, last
  <2> QED
      BY <1>1, <1>3, <2>2
<1> QED
    BY <1>2, <1>3

(* What connection c was told last.                                        *)
Told(c, field) == LastTold(made[c].log, Len(made[c].log), field)

(* How the log of a connection grows.                                      *)
LEMMA LogStep ==
    ASSUME PathTypes, NEW t \in Threads, NewCall(t) \/ Continue(t), NEW c \in 1 .. Len(made)
    PROVE  /\ made[c].log \in Seq(Packet)
           /\ \/ made'[c].log = made[c].log
              \/ /\ EnqueuePush(t) /\ c = Head(thread[t].todo)
                 /\ made'[c].log = Append(made[c].log, thread[t].packet)
<1>0. made \in Seq(Made) /\ Len(made) \in Nat /\ made[c] \in Made /\ made[c].log \in Seq(Packet)
  <2>1. made \in Seq(Made) /\ Len(made) \in Nat /\ made[c] \in Made
      BY DEF PathTypes, ConnectionTypes
  <2> QED
      BY <2>1 DEF Made
<1>1. CASE \E p \in Ports, s \in Signals : Connect(t, p, s)
  <2>1. PICK z : made' = Append(made, z)
      BY <1>1 DEF Connect
  <2> QED
      BY <1>0, <2>1
<1>2. CASE EnqueuePush(t)
  <2>1. PICK b, x : /\ b = Head(thread[t].todo) /\ x = Append(made[b].log, thread[t].packet)
                    /\ made' = [made EXCEPT ![b].log = x]
      BY <1>2 DEF EnqueuePush
  <2>d. c \in DOMAIN made
      BY <1>0
  <2>2. CASE b = c
    <3>1. made'[c] = [made[c] EXCEPT !.log = x]
        BY <2>1, <2>2, <2>d, Zenon
    <3> QED
        BY <1>0, <1>2, <2>1, <2>2, <3>1 DEF Made
  <2>3. CASE b # c
    <3>1. made'[c] = made[c]
        BY <2>1, <2>3, <2>d, Zenon
    <3> QED
        BY <1>0, <3>1
  <2> QED
      BY <2>2, <2>3
<1>3. \/ \E p \in Ports, s \in Signals : Connect(t, p, s)
      \/ EnqueuePush(t)
      \/ made' = made
    BY DEF NewCall, Continue, SendPacket, SetDescriptor, Disconnect, RemovePort, RemoveSignal,
         SetActive, SetDomainSignal, EnqueueCheckActive, SendPacketEnd, SetDescriptorUnlock,
         SetDescriptorRead, SetDescriptorAnnounce, SetDescriptorNext, SetDescriptorEnd,
         ConnectPort, ConnectOld, ConnectListener, ConnectRegister, ConnectDescribe, ConnectEnd,
         DisconnectTell, RemovePortOld, RemoveSignalDisconnect, RemoveSignalClear,
         RemoveSignalForget, RemoveSignalEnd, SetDomainSignalUnref, SetDomainSignalRef
<1> QED
    BY <1>0, <1>1, <1>2, <1>3

(* What a push tells its connection.                                       *)
LEMMA PushTold ==
    ASSUME PathTypes, NEW t \in Threads, EnqueuePush(t), NEW c \in 1 .. Len(made),
           c = Head(thread[t].todo), NEW f
    PROVE  Told(c, f)' = IF thread[t].packet.kind = "event" /\ thread[t].packet[f] # "same"
                         THEN thread[t].packet[f] ELSE Told(c, f)
<1>0. made \in Seq(Made) /\ c \in DOMAIN made /\ made[c] \in Made /\ made[c].log \in Seq(Packet)
  <2>1. made \in Seq(Made) /\ Len(made) \in Nat /\ made[c] \in Made
      BY DEF PathTypes, ConnectionTypes
  <2> QED
      BY <2>1 DEF Made
<1>1. PICK p \in Seq(Packet), x \in Packet, n \in Nat :
          p = made[c].log /\ x = thread[t].packet /\ n = Len(p)
  <2>1. thread[t].packet \in Packet
      BY CallFields
  <2>2. Len(made[c].log) \in Nat
      BY <1>0
  <2> QED
      BY <1>0, <2>1, <2>2, Zenon
<1>2. PICK q : q = Append(p, x) /\ Len(q) = n + 1 /\ q[n + 1] = x
  <2>1. p \in Seq(Packet) /\ x \in Packet /\ n = Len(p)
      BY <1>1
  <2>2. Len(Append(p, x)) = n + 1 /\ Append(p, x)[n + 1] = x
      BY <2>1
  <2> QED
      BY <2>2
<1>3. made'[c].log = q
  <2>1. made' = [made EXCEPT ![c].log = q]
      BY <1>1, <1>2 DEF EnqueuePush
  <2>2. made'[c] = [made[c] EXCEPT !.log = q]
      BY <1>0, <2>1, Zenon
  <2> QED
      BY <1>0, <2>2 DEF Made
<1>4. LastTold(q, n, f) = LastTold(p, n, f)
  <2>1. p \in Seq(Packet) /\ x \in Packet /\ n \in 0 .. Len(p)
      BY <1>1
  <2>2. LastTold(Append(p, x), n, f) = LastTold(p, n, f)
      BY <2>1, LastToldSame
  <2> QED
      BY <1>2, <2>2, Zenon
<1>5. LastTold(q, n + 1, f) = IF q[n + 1].kind = "event" /\ q[n + 1][f] # "same"
                              THEN q[n + 1][f] ELSE LastTold(q, n, f)
    BY <1>1, LastToldNext, Zenon
<1>6. LastTold(q, n + 1, f) = IF x.kind = "event" /\ x[f] # "same" THEN x[f] ELSE LastTold(p, n, f)
    BY <1>2, <1>4, <1>5, Zenon
<1> QED
    BY <1>1, <1>2, <1>3, <1>6 DEF Told

(* What a packet in the log of a connection tells it.                      *)
LEMMA ToldNext ==
    ASSUME PathTypes, NEW t \in Threads, NewCall(t) \/ Continue(t), NEW c \in 1 .. Len(made),
           NEW f
    PROVE  \/ Told(c, f)' = Told(c, f)
           \/ /\ EnqueuePush(t) /\ c = Head(thread[t].todo)
              /\ Told(c, f)' = IF thread[t].packet.kind = "event" /\ thread[t].packet[f] # "same"
                               THEN thread[t].packet[f] ELSE Told(c, f)
<1>1. CASE made'[c].log = made[c].log
    BY <1>1 DEF Told
<1>2. CASE EnqueuePush(t) /\ c = Head(thread[t].todo)
    BY <1>2, PushTold
<1> QED
    BY <1>1, <1>2, LogStep

(* Which steps a call at a stage takes, and which lead to a stage.         *)
LEMMA StageSteps ==
    ASSUME PathTypes, NEW t \in Threads, NewCall(t) \/ Continue(t),
           NEW k \in Call, k = thread[t], NEW j, j = thread'[t]
    PROVE  /\ k.at = "ref" => SetDomainSignalRef(t)
           /\ k.at = "forget" => RemoveSignalForget(t) \/ RemoveSignalEnd(t)
           /\ j.at = "ref" => SetDomainSignalUnref(t)
           /\ j.at = "forget" => RemoveSignalForget(t) \/ RemoveSignalClear(t)
           /\ k.method = "sendPacket" => EnqueueCheckActive(t) \/ EnqueuePush(t) \/ SendPacketEnd(t)
           /\ k.method = "setDescriptor" =>
                  \/ EnqueueCheckActive(t) \/ EnqueuePush(t)
                  \/ SetDescriptorUnlock(t) \/ SetDescriptorRead(t) \/ SetDescriptorAnnounce(t)
                  \/ SetDescriptorNext(t) \/ SetDescriptorEnd(t)
           /\ j.method = "sendPacket" =>
                  \/ \E s \in Signals : SendPacket(t, s)
                  \/ EnqueueCheckActive(t) \/ EnqueuePush(t)
           /\ j.method = "setDescriptor" =>
                  \/ \E s \in Signals, x \in Descriptors : SetDescriptor(t, s, x)
                  \/ EnqueueCheckActive(t) \/ EnqueuePush(t)
                  \/ SetDescriptorUnlock(t) \/ SetDescriptorRead(t) \/ SetDescriptorAnnounce(t)
                  \/ SetDescriptorNext(t)
           /\ k.method = "connect" /\ k.at \in Late =>
                  EnqueueCheckActive(t) \/ EnqueuePush(t) \/ ConnectEnd(t)
           /\ j.method = "connect" /\ j.at \in Late =>
                  EnqueueCheckActive(t) \/ EnqueuePush(t) \/ ConnectDescribe(t)
<1>0. CallOK(k, Len(made)) /\ Idle.method = "none" /\ Idle.at = "idle"
    BY CallFields, IdleFields
<1>1. CASE NewCall(t)
  <2>1. k = Idle
      BY <1>1, AfterNewCall
  <2>2. \/ \E s \in Signals : SendPacket(t, s) /\ j.method = "sendPacket" /\ j.at = "enqueue"
        \/ \E s \in Signals, x \in Descriptors :
               SetDescriptor(t, s, x) /\ j.method = "setDescriptor" /\ j.at = "enqueue"
        \/ j.method = "connect" /\ j.at = "port"
        \/ j.method = "disconnect" /\ j.at = "tell"
        \/ j.method = "removePort" /\ j.at = "old"
        \/ j.method = "removeSignal" /\ j.at = "clear"
        \/ j.method = "setDomainSignal" /\ j.at = "unref"
        \/ j = k
      BY <1>1, AfterNewCall DEF NewCall
  <2> QED
      BY <1>0, <2>1, <2>2 DEF Late
<1>2. CASE EnqueueCheckActive(t) \/ EnqueuePush(t)
  <2>1. k.at \in Late /\ j.at \in Late
      BY <1>2, AfterOtherStep DEF Late
  <2> QED
      BY <1>2, <2>1 DEF Late
<1>3. CASE SendPacketEnd(t)
    BY <1>0, <1>3, AfterOtherStep
<1>4. CASE SetDescriptorUnlock(t) \/ SetDescriptorRead(t) \/ SetDescriptorAnnounce(t)
             \/ SetDescriptorNext(t) \/ SetDescriptorEnd(t)
  <2>1. /\ k.method = "setDescriptor" /\ k.at \in {"enqueue", "read", "announce"}
        /\ \/ j = Idle
           \/ j.method = "setDescriptor" /\ j.at \in {"enqueue", "read", "announce"}
      BY <1>4, AfterOtherStep
  <2>2. SetDescriptorEnd(t) => j = Idle
    <3>1. thread \in [Threads -> Call]
        BY DEF PathTypes, ThreadTypes
    <3> QED
        BY <3>1 DEF SetDescriptorEnd, Return, Goto
  <2> QED
      BY <1>0, <1>4, <2>1, <2>2
<1>5. CASE ConnectPort(t) \/ ConnectOld(t) \/ ConnectListener(t) \/ ConnectRegister(t)
  <2>1. /\ k.method = "connect" /\ k.at \in {"port", "old", "listener", "register"}
        /\ \/ j = Idle
           \/ j.method = "connect" /\ j.at \in {"old", "listener", "register", "describe"}
      BY <1>5, AfterEndStep DEF SameConnect
  <2> QED
      BY <1>0, <2>1 DEF Late
<1>6. CASE ConnectDescribe(t) \/ ConnectEnd(t)
  <2>1. /\ k.method = "connect" /\ k.at \in {"describe", "enqueue"}
        /\ \/ j = Idle
           \/ j.method = "connect" /\ j.at = "enqueue" /\ ConnectDescribe(t)
        /\ k.at = "enqueue" => ConnectEnd(t)
      BY <1>6, AfterEndStep DEF SameConnect
  <2> QED
      BY <1>0, <2>1 DEF Late
<1>7. CASE DisconnectTell(t) \/ RemovePortOld(t)
  <2>1. k.at \in {"tell", "old"} /\ k.method \in {"disconnect", "removePort"} /\ j = Idle
      BY <1>7, AfterEndStep
  <2> QED
      BY <1>0, <2>1 DEF Late
<1>8. CASE RemoveSignalDisconnect(t) \/ RemoveSignalClear(t)
  <2>1. /\ k.at = "clear" /\ k.method = "removeSignal" /\ j.method = "removeSignal"
        /\ j.at = "clear" \/ (j.at = "forget" /\ RemoveSignalClear(t))
      BY <1>8, AfterEndStep DEF SameConnect
  <2> QED
      BY <2>1 DEF Late
<1>9. CASE RemoveSignalForget(t) \/ RemoveSignalEnd(t)
  <2>1. k.at = "forget" /\ (j = Idle \/ (j.at = "forget" /\ j.method = k.method /\ RemoveSignalForget(t)))
      BY <1>9, AfterOtherStep DEF SameConnect
  <2>2. k.method = "removeSignal"
      BY <1>0, <2>1 DEF CallOK
  <2> QED
      BY <1>0, <1>9, <2>1, <2>2 DEF Late
<1>10. CASE SetDomainSignalUnref(t) \/ SetDomainSignalRef(t)
  <2>1. /\ k.at \in {"unref", "ref"}
        /\ k.at = "ref" => SetDomainSignalRef(t)
        /\ j = Idle \/ (j.at = "ref" /\ j.method = k.method /\ SetDomainSignalUnref(t))
      BY <1>10, AfterOtherStep DEF SameConnect
  <2>2. k.method = "setDomainSignal"
      BY <1>0, <2>1 DEF CallOK
  <2> QED
      BY <1>0, <2>1, <2>2 DEF Late
<1> QED
    BY <1>1, <1>2, <1>3, <1>4, <1>5, <1>6, <1>7, <1>8, <1>9, <1>10 DEF Continue

(* Two calls that agree but for the stage and the connections to walk.     *)
SameCall(k, j) ==
    /\ j.method = k.method /\ j.s = k.s /\ j.c = k.c /\ j.rest = k.rest /\ j.packet = k.packet

(* The call in hand after a step of a walk.                                *)
LEMMA WalkFields ==
    ASSUME PathTypes, NEW t \in Threads, NEW k \in Call, k = thread[t], NEW j, j = thread'[t]
    PROVE  /\ EnqueueCheckActive(t) =>
                  /\ SameCall(k, j) /\ k.at = "enqueue" /\ j.at \in Late /\ k.todo # << >>
                  /\ j.todo = k.todo \/ (j.todo = Tail(k.todo) /\ k.packet.kind # "event")
           /\ EnqueuePush(t) =>
                  /\ SameCall(k, j) /\ k.at = "push" /\ j.at = "enqueue" /\ k.todo # << >>
                  /\ j.todo = Tail(k.todo)
<1>0. thread \in [Threads -> Call] /\ (k.at = "push" => k.todo # << >>)
    BY CallFields DEF PathTypes, ThreadTypes, CallOK
<1>1. ASSUME EnqueueCheckActive(t)
      PROVE  /\ SameCall(k, j) /\ k.at = "enqueue" /\ j.at \in Late /\ k.todo # << >>
             /\ j.todo = k.todo \/ (j.todo = Tail(k.todo) /\ k.packet.kind # "event")
  <2>1. /\ k.at = "enqueue" /\ k.todo # << >>
        /\ \/ Goto(t, [k EXCEPT !.at = "push"])
           \/ Goto(t, [k EXCEPT !.todo = Tail(@)]) /\ k.packet.kind # "event"
      BY <1>1 DEF EnqueueCheckActive
  <2>2. \/ j = [k EXCEPT !.at = "push"]
        \/ j = [k EXCEPT !.todo = Tail(@)] /\ k.packet.kind # "event"
      BY <1>0, <2>1 DEF Goto
  <2> QED
      BY <2>1, <2>2 DEF SameCall, Call, Late
<1>2. ASSUME EnqueuePush(t)
      PROVE  /\ SameCall(k, j) /\ k.at = "push" /\ j.at = "enqueue" /\ k.todo # << >>
             /\ j.todo = Tail(k.todo)
  <2>1. k.at = "push" /\ Goto(t, [k EXCEPT !.at = "enqueue", !.todo = Tail(@)])
      BY <1>2 DEF EnqueuePush
  <2>2. j = [k EXCEPT !.at = "enqueue", !.todo = Tail(@)]
      BY <1>0, <2>1 DEF Goto
  <2> QED
      BY <1>0, <2>1, <2>2 DEF SameCall, Call
<1> QED
    BY <1>1, <1>2

(* The call in hand after a step of setDescriptor.                         *)
LEMMA SetFields ==
    ASSUME PathTypes, NEW t \in Threads, NEW k \in Call, k = thread[t], NEW j, j = thread'[t]
    PROVE  /\ SetDescriptorUnlock(t) =>
                  /\ k.method = "setDescriptor" /\ k.at = "enqueue" /\ k.todo = << >> /\ owner[k.s] = t
                  /\ j.method = "setDescriptor" /\ j.at = "read" /\ j.s = k.s /\ j.todo = << >>
                  /\ j.rest = InSequence(domainSignalReferences[k.s])
           /\ SetDescriptorRead(t) =>
                  /\ k.method = "setDescriptor" /\ k.at = "read"
                  /\ j.method = "setDescriptor" /\ j.at = "announce" /\ j.s = k.s /\ j.rest = k.rest
                  /\ j.todo = k.todo /\ j.packet = DescriptorChanged("same", dataDescriptor[k.s])
           /\ SetDescriptorAnnounce(t) =>
                  /\ k.method = "setDescriptor" /\ k.at = "announce" /\ k.rest # << >>
                  /\ j.method = "setDescriptor" /\ j.at = "enqueue" /\ j.s = k.s
                  /\ j.rest = Tail(k.rest) /\ j.packet = k.packet /\ owner[Head(k.rest)] = None
                  /\ j.todo = IF active[Head(k.rest)] THEN connections[Head(k.rest)] ELSE << >>
           /\ SetDescriptorNext(t) =>
                  /\ k.method = "setDescriptor" /\ k.at = "enqueue" /\ k.todo = << >> /\ owner[k.s] # t
                  /\ j.method = "setDescriptor" /\ j.at = "announce" /\ j.s = k.s
                  /\ j.todo = << >> /\ j.rest = k.rest /\ j.packet = k.packet
           /\ SetDescriptorEnd(t) => /\ k.method = "setDescriptor" /\ k.at = "announce"
                                     /\ k.rest = << >> /\ j = Idle
<1>0. thread \in [Threads -> Call] /\ (k.at \in {"read", "announce"} => k.method = "setDescriptor")
    BY CallFields DEF PathTypes, ThreadTypes, CallOK
<1>1. SetDescriptorUnlock(t) =>
          /\ k.method = "setDescriptor" /\ k.at = "enqueue" /\ k.todo = << >> /\ owner[k.s] = t
          /\ j.method = "setDescriptor" /\ j.at = "read" /\ j.s = k.s /\ j.todo = << >>
          /\ j.rest = InSequence(domainSignalReferences[k.s])
    BY <1>0 DEF SetDescriptorUnlock, Goto, Call
<1>2. SetDescriptorRead(t) =>
          /\ k.method = "setDescriptor" /\ k.at = "read"
          /\ j.method = "setDescriptor" /\ j.at = "announce" /\ j.s = k.s /\ j.rest = k.rest
          /\ j.todo = k.todo /\ j.packet = DescriptorChanged("same", dataDescriptor[k.s])
    BY <1>0 DEF SetDescriptorRead, Goto, Call
<1>3. SetDescriptorAnnounce(t) =>
          /\ k.method = "setDescriptor" /\ k.at = "announce" /\ k.rest # << >>
          /\ j.method = "setDescriptor" /\ j.at = "enqueue" /\ j.s = k.s
          /\ j.rest = Tail(k.rest) /\ j.packet = k.packet /\ owner[Head(k.rest)] = None
          /\ j.todo = IF active[Head(k.rest)] THEN connections[Head(k.rest)] ELSE << >>
    BY <1>0 DEF SetDescriptorAnnounce, Goto, Enqueuing, Call, Free
<1>4. SetDescriptorNext(t) =>
          /\ k.method = "setDescriptor" /\ k.at = "enqueue" /\ k.todo = << >> /\ owner[k.s] # t
          /\ j.method = "setDescriptor" /\ j.at = "announce" /\ j.s = k.s
          /\ j.todo = << >> /\ j.rest = k.rest /\ j.packet = k.packet
    BY <1>0 DEF SetDescriptorNext, Goto, Call
<1>5. SetDescriptorEnd(t) => /\ k.method = "setDescriptor" /\ k.at = "announce"
                             /\ k.rest = << >> /\ j = Idle
    BY <1>0 DEF SetDescriptorEnd, Goto, Return
<1> QED
    BY <1>1, <1>2, <1>3, <1>4, <1>5

(* The call in hand after a walk begins.                                   *)
LEMMA BeginFields ==
    ASSUME PathTypes, NEW t \in Threads, NEW k \in Call, k = thread[t], NEW j, j = thread'[t]
    PROVE  /\ \A s \in Signals : SendPacket(t, s) =>
                  /\ k = Idle /\ owner[s] = None /\ "sendPacket" \in Operations[t]
                  /\ j.method = "sendPacket" /\ j.at = "enqueue" /\ j.s = s /\ j.todo = connections[s]
                  /\ j.packet = Data(dataDescriptor[s], DescriptorOf(domainSignal[s]))
           /\ \A s \in Signals, x \in Descriptors : SetDescriptor(t, s, x) =>
                  /\ k = Idle /\ owner[s] = None /\ "setDescriptor" \in Operations[t]
                  /\ owner' = [owner EXCEPT ![s] = t]
                  /\ dataDescriptor' = [dataDescriptor EXCEPT ![s] = x]
                  /\ j.method = "setDescriptor" /\ j.at = "enqueue" /\ j.s = s
                  /\ j.todo = connections[s] /\ j.packet = DescriptorChanged(x, "same")
<1>0. thread \in [Threads -> Call]
    BY DEF PathTypes, ThreadTypes
<1>1. ASSUME NEW s \in Signals, SendPacket(t, s)
      PROVE  /\ k = Idle /\ owner[s] = None /\ "sendPacket" \in Operations[t]
             /\ j.method = "sendPacket" /\ j.at = "enqueue" /\ j.s = s /\ j.todo = connections[s]
             /\ j.packet = Data(dataDescriptor[s], DescriptorOf(domainSignal[s]))
  <2>1. k = Idle /\ owner[s] = None /\ "sendPacket" \in Operations[t]
      BY <1>1 DEF SendPacket, Begin, Free
  <2> QED
      BY <1>0, <1>1, <2>1 DEF SendPacket, Goto, Enqueuing, Idle
<1>2. ASSUME NEW s \in Signals, NEW x \in Descriptors, SetDescriptor(t, s, x)
      PROVE  /\ k = Idle /\ owner[s] = None /\ "setDescriptor" \in Operations[t]
             /\ owner' = [owner EXCEPT ![s] = t]
             /\ dataDescriptor' = [dataDescriptor EXCEPT ![s] = x]
             /\ j.method = "setDescriptor" /\ j.at = "enqueue" /\ j.s = s
             /\ j.todo = connections[s] /\ j.packet = DescriptorChanged(x, "same")
  <2>1. k = Idle /\ owner[s] = None /\ "setDescriptor" \in Operations[t]
      BY <1>2 DEF SetDescriptor, Begin, Free
  <2>2. owner' = [owner EXCEPT ![s] = t] /\ dataDescriptor' = [dataDescriptor EXCEPT ![s] = x]
      BY <1>2 DEF SetDescriptor, Take
  <2> QED
      BY <1>0, <1>2, <2>1, <2>2 DEF SetDescriptor, Goto, Enqueuing, Idle
<1> QED
    BY <1>1, <1>2

(* The call in hand when its connection is listed.                         *)
LEMMA DescribeFields ==
    ASSUME PathTypes, NEW t \in Threads, ConnectDescribe(t),
           NEW k \in Call, k = thread[t], NEW j, j = thread'[t]
    PROVE  /\ k.at = "describe" /\ k.method = "connect"
           /\ j.at = "enqueue" /\ j.method = "connect" /\ j.c = k.c /\ j.s = k.s
           /\ j.todo = <<k.c>>
           /\ j.packet = DescriptorChanged(dataDescriptor[k.s], DescriptorOf(domainSignal[k.s]))
<1>0. thread \in [Threads -> Call] /\ (k.at = "describe" => k.method = "connect")
    BY CallFields DEF PathTypes, ThreadTypes, CallOK
<1> QED
    BY <1>0 DEF ConnectDescribe, Goto, Enqueuing, Call

(* The call in hand in setDomainSignal and removeSignal, and what they do  *)
(* to the domain signals.                                                  *)
LEMMA DomainFields ==
    ASSUME PathTypes, NEW t \in Threads, NEW k \in Call, k = thread[t], NEW j, j = thread'[t]
    PROVE  /\ RemoveSignalClear(t) => /\ k.at = "clear" /\ j.at = "forget" /\ j.s = k.s
                                      /\ j.rest = InSequence(domainSignalReferences[k.s])
           /\ RemoveSignalForget(t) =>
                  /\ k.at = "forget" /\ j.at = "forget" /\ j.s = k.s
                  /\ k.rest # << >> /\ j.rest = Tail(k.rest) /\ owner[Head(k.rest)] = None
                  /\ domainSignal' = [domainSignal EXCEPT ![Head(k.rest)] = None]
                  /\ domainSignalReferences' = domainSignalReferences
                  /\ \A x : ListedIn(x, connections[Head(k.rest)]) => x \in misled'
           /\ RemoveSignalEnd(t) =>
                  /\ k.at = "forget" /\ j = Idle /\ k.rest = << >>
                  /\ domainSignal' = domainSignal
                  /\ domainSignalReferences' = [domainSignalReferences EXCEPT ![k.s] = {}]
           /\ SetDomainSignalUnref(t) =>
                  /\ k.at = "unref" /\ j.at = "ref" /\ j.s = k.s /\ j.rest = k.rest
                  /\ domainSignal' = [domainSignal EXCEPT
                         ![k.s] = IF k.rest = << >> THEN None ELSE Head(k.rest)]
                  /\ \A d \in Signals : \A v \in domainSignalReferences[d] :
                         v # k.s => v \in domainSignalReferences'[d]
                  /\ \A d \in Signals : domainSignalReferences'[d] \subseteq domainSignalReferences[d]
                  /\ \A x : ListedIn(x, connections[k.s]) => x \in misled'
           /\ SetDomainSignalRef(t) =>
                  /\ k.at = "ref" /\ j = Idle /\ domainSignal' = domainSignal
                  /\ k.rest = << >> => domainSignalReferences' = domainSignalReferences
                  /\ k.rest # << >> =>
                         /\ owner[Head(k.rest)] = None
                         /\ domainSignalReferences' = [domainSignalReferences EXCEPT
                                ![Head(k.rest)] = @ \cup {k.s}]
<1>0. thread \in [Threads -> Call]
    BY DEF PathTypes, ThreadTypes
<1>1. RemoveSignalClear(t) => /\ k.at = "clear" /\ j.at = "forget" /\ j.s = k.s
                              /\ j.rest = InSequence(domainSignalReferences[k.s])
    BY <1>0 DEF RemoveSignalClear, Goto, Call
<1>2. ASSUME RemoveSignalForget(t)
      PROVE  /\ k.at = "forget" /\ j.at = "forget" /\ j.s = k.s
             /\ k.rest # << >> /\ j.rest = Tail(k.rest) /\ owner[Head(k.rest)] = None
             /\ domainSignal' = [domainSignal EXCEPT ![Head(k.rest)] = None]
             /\ domainSignalReferences' = domainSignalReferences
             /\ \A x : ListedIn(x, connections[Head(k.rest)]) => x \in misled'
  <2>1. /\ k.at = "forget" /\ j.at = "forget" /\ j.s = k.s
        /\ k.rest # << >> /\ j.rest = Tail(k.rest)
      BY <1>0, <1>2 DEF RemoveSignalForget, Goto, Call
  <2>2. /\ owner[Head(k.rest)] = None
        /\ domainSignal' = [domainSignal EXCEPT ![Head(k.rest)] = None]
        /\ domainSignalReferences' = domainSignalReferences
        /\ misled' = misled \cup {connections[Head(k.rest)][i] : i \in DOMAIN connections[Head(k.rest)]}
      BY <1>2 DEF RemoveSignalForget, Free
  <2>3. \A x : ListedIn(x, connections[Head(k.rest)]) => x \in misled'
      BY <2>2 DEF ListedIn
  <2> QED
      BY <2>1, <2>2, <2>3
<1>3. ASSUME RemoveSignalEnd(t)
      PROVE  /\ k.at = "forget" /\ j = Idle /\ k.rest = << >>
             /\ domainSignal' = domainSignal
             /\ domainSignalReferences' = [domainSignalReferences EXCEPT ![k.s] = {}]
    BY <1>0, <1>3 DEF RemoveSignalEnd, Goto, Return
<1>4. ASSUME SetDomainSignalUnref(t)
      PROVE  /\ k.at = "unref" /\ j.at = "ref" /\ j.s = k.s /\ j.rest = k.rest
             /\ domainSignal' = [domainSignal EXCEPT
                    ![k.s] = IF k.rest = << >> THEN None ELSE Head(k.rest)]
             /\ \A d \in Signals : \A v \in domainSignalReferences[d] :
                    v # k.s => v \in domainSignalReferences'[d]
             /\ \A d \in Signals : domainSignalReferences'[d] \subseteq domainSignalReferences[d]
             /\ \A x : ListedIn(x, connections[k.s]) => x \in misled'
  <2>1. k.at = "unref" /\ j.at = "ref" /\ j.s = k.s /\ j.rest = k.rest
      BY <1>0, <1>4 DEF SetDomainSignalUnref, Goto, Call
  <2>2. PICK old : /\ domainSignal' = [domainSignal EXCEPT
                          ![k.s] = IF k.rest = << >> THEN None ELSE Head(k.rest)]
                   /\ domainSignalReferences' = [d \in Signals |->
                          IF d = old THEN domainSignalReferences[d] \ {k.s}
                                     ELSE domainSignalReferences[d]]
                   /\ misled' = misled \cup {connections[k.s][i] : i \in DOMAIN connections[k.s]}
      BY <1>4 DEF SetDomainSignalUnref
  <2>3. \A x : ListedIn(x, connections[k.s]) => x \in misled'
      BY <2>2 DEF ListedIn
  <2>4. /\ \A d \in Signals : \A v \in domainSignalReferences[d] :
               v # k.s => v \in domainSignalReferences'[d]
        /\ \A d \in Signals : domainSignalReferences'[d] \subseteq domainSignalReferences[d]
      BY <2>2
  <2> QED
      BY <2>1, <2>2, <2>3, <2>4
<1>5. ASSUME SetDomainSignalRef(t)
      PROVE  /\ k.at = "ref" /\ j = Idle /\ domainSignal' = domainSignal
             /\ k.rest = << >> => domainSignalReferences' = domainSignalReferences
             /\ k.rest # << >> =>
                    /\ owner[Head(k.rest)] = None
                    /\ domainSignalReferences' = [domainSignalReferences EXCEPT
                           ![Head(k.rest)] = @ \cup {k.s}]
    BY <1>0, <1>5 DEF SetDomainSignalRef, Goto, Return, Free
<1> QED
    BY <1>1, <1>2, <1>3, <1>4, <1>5

(* What the steps leave alone.                                             *)
LEMMA FrameStep ==
    ASSUME NEW t \in Threads, NewCall(t) \/ Continue(t)
    PROVE  /\ \/ \E s \in Signals, x \in Descriptors : SetDescriptor(t, s, x)
              \/ dataDescriptor' = dataDescriptor
           /\ SetDomainSignalUnref(t) \/ RemoveSignalForget(t) \/ domainSignal' = domainSignal
           /\ SetDomainSignalUnref(t) \/ SetDomainSignalRef(t) \/ RemoveSignalEnd(t)
                \/ domainSignalReferences' = domainSignalReferences
           /\ misled \subseteq misled'
<1>1. CASE NewCall(t)
    BY <1>1 DEF NewCall, SendPacket, SetDescriptor, Connect, Disconnect, RemovePort,
           RemoveSignal, SetActive, SetDomainSignal, signalVars, told
<1>2. CASE EnqueueCheckActive(t) \/ EnqueuePush(t) \/ SendPacketEnd(t)
    BY <1>2 DEF EnqueueCheckActive, EnqueuePush, SendPacketEnd, signalVars, told
<1>3. CASE SetDescriptorUnlock(t) \/ SetDescriptorRead(t) \/ SetDescriptorAnnounce(t)
             \/ SetDescriptorNext(t) \/ SetDescriptorEnd(t)
    BY <1>3 DEF SetDescriptorUnlock, SetDescriptorRead, SetDescriptorAnnounce,
           SetDescriptorNext, SetDescriptorEnd, signalVars, told
<1>4. CASE ConnectPort(t) \/ ConnectOld(t) \/ ConnectListener(t)
             \/ ConnectRegister(t) \/ ConnectDescribe(t) \/ ConnectEnd(t)
    BY <1>4 DEF ConnectPort, ConnectOld, ConnectListener, ConnectRegister, ConnectDescribe,
           ConnectEnd, signalVars, told
<1>5. CASE DisconnectTell(t) \/ RemovePortOld(t) \/ RemoveSignalDisconnect(t)
             \/ RemoveSignalClear(t) \/ RemoveSignalForget(t) \/ RemoveSignalEnd(t)
    BY <1>5 DEF DisconnectTell, RemovePortOld, RemoveSignalDisconnect, RemoveSignalClear,
           RemoveSignalForget, RemoveSignalEnd, signalVars, told
<1>6. CASE SetDomainSignalUnref(t) \/ SetDomainSignalRef(t)
    BY <1>6 DEF SetDomainSignalUnref, SetDomainSignalRef, signalVars, told
<1> QED
    BY <1>1, <1>2, <1>3, <1>4, <1>5, <1>6 DEF Continue

(* A signal whose mutex another thread holds keeps its descriptor and its  *)
(* domain signal, and no connection joins its list.                        *)
LEMMA GuardedSignal ==
    ASSUME PathTypes, CallsApart, LocksFull, NEW t \in Threads, NewCall(t) \/ Continue(t),
           NEW s \in Signals, owner[s] \notin {t, None}
    PROVE  /\ dataDescriptor'[s] = dataDescriptor[s] /\ domainSignal'[s] = domainSignal[s]
           /\ \A x : ListedIn(x, connections'[s]) => ListedIn(x, connections[s])
<1>0. PICK k \in Call : k = thread[t] /\ CallOK(k, Len(made)) /\ HoldsFully(t)
    BY CallFields DEF LocksFull
<1>1. dataDescriptor \in [Signals -> Descriptors] /\ domainSignal \in [Signals -> DomainSignals \cup {None}]
    BY DEF PathTypes, TreeTypes
<1>2. dataDescriptor'[s] = dataDescriptor[s]
    BY <1>0, <1>1, BeginFields, FrameStep
<1>3. domainSignal'[s] = domainSignal[s]
  <2>1. SetDomainSignalUnref(t) => owner[k.s] = t
      BY <1>0, DomainFields DEF HoldsFully
  <2>2. CASE SetDomainSignalUnref(t)
      BY <1>0, <1>1, <2>1, <2>2, DomainFields
  <2>3. CASE RemoveSignalForget(t)
      BY <1>0, <1>1, <2>3, DomainFields
  <2> QED
      BY <2>2, <2>3, FrameStep
<1>4. ConnectDescribe(t) => owner[k.s] = t
    BY <1>0, DescribeFields DEF HoldsFully
<1> QED
    BY <1>0, <1>2, <1>3, <1>4, ListMoves

---------------------------------------------------------------------------------
(***************************************************************************)
(* A domain signal knows the value signals it is the domain of.  Between   *)
(* the two halves of setDomainSignal the new domain signal does not know   *)
(* yet; the connections of the value signal count as misled by then.       *)
(***************************************************************************)
Between(v) == \E t \in Threads : thread[t].at = "ref" /\ thread[t].s = v

KnowsItsDomain(v) ==
    domainSignal[v] # None => v \in domainSignalReferences[domainSignal[v]] \/ Between(v)
ChangesDomain(t) ==
    thread[t].at = "ref" =>
        /\ domainSignal[thread[t].s] = IF thread[t].rest = << >> THEN None ELSE Head(thread[t].rest)
        /\ \A c : ListedIn(c, connections[thread[t].s]) => c \in misled
ForgetsDomain(t) ==
    thread[t].at = "forget" =>
        \A v \in domainSignalReferences[thread[t].s] :
            ListedIn(v, thread[t].rest) \/ domainSignal[v] # thread[t].s \/ Between(v)
DomainsKnown ==
    /\ \A v \in ValueSignals : KnowsItsDomain(v)
    /\ \A t \in Threads : ChangesDomain(t)
    /\ \A t \in Threads : ForgetsDomain(t)

(* What is listed in a list of signals is first in it or after the first.  *)
LEMMA RestLists ==
    ASSUME NEW q \in Seq(Signals), q # << >>, NEW x, ListedIn(x, q)
    PROVE  x = Head(q) \/ ListedIn(x, Tail(q))
<1> DEFINE r == Tail(q)
<1>1. /\ Len(q) \in Nat /\ Len(q) >= 1 /\ DOMAIN q = 1 .. Len(q)
      /\ DOMAIN r = 1 .. Len(q) - 1 /\ \A i \in 1 .. Len(q) - 1 : r[i] = q[i + 1]
      /\ Head(q) = q[1]
    OBVIOUS
<1> HIDE DEF r
<1>2. PICK i \in 1 .. Len(q) : q[i] = x
    BY <1>1 DEF ListedIn
<1>3. CASE i > 1
  <2>1. i - 1 \in DOMAIN r /\ r[i - 1] = x
      BY <1>1, <1>2, <1>3
  <2>2. ListedIn(x, r)
      BY <2>1 DEF ListedIn
  <2> QED
      BY <2>2 DEF r
<1> QED
    BY <1>1, <1>2, <1>3

(* The value signals that note a domain signal are all in its list.        *)
LEMMA ReferencesListed ==
    ASSUME PathTypes, NEW s \in Signals, NEW v \in domainSignalReferences[s]
    PROVE  ListedIn(v, InSequence(domainSignalReferences[s]))
<1>1. domainSignalReferences[s] \subseteq ValueSignals
    BY DEF PathTypes, TreeTypes
<1>2. IsFiniteSet(domainSignalReferences[s])
    BY <1>1, SignalPathAssumption, FS_Subset
<1> QED
    BY <1>2, InSequenceType

(* A thread that steps is between the halves only before the second.       *)
LEMMA BetweenStays ==
    ASSUME PathTypes, NEW t \in Threads, NewCall(t) \/ Continue(t), NEW v, Between(v)
    PROVE  Between(v)' \/ (SetDomainSignalRef(t) /\ v = thread[t].s)
<1>1. PICK u \in Threads : thread[u].at = "ref" /\ thread[u].s = v
    BY DEF Between
<1>2. CASE u # t
  <2>1. thread'[u] = thread[u]
      BY <1>2, StepFacts
  <2> QED
      BY <1>1, <2>1 DEF Between
<1>3. CASE u = t
    BY <1>1, <1>3, StageSteps, CallFields
<1> QED
    BY <1>2, <1>3

(* What the domain signals know is kept by every step.                     *)
LEMMA NextKnows ==
    ASSUME PathTypes, LocksFull, DomainsKnown, NEW t \in Threads, NewCall(t) \/ Continue(t),
           NEW v \in ValueSignals
    PROVE  KnowsItsDomain(v)'
<1>0. PICK k, j : k \in Call /\ k = thread[t] /\ j = thread'[t] /\ CallOK(k, Len(made))
    BY CallFields
<1>1. /\ domainSignal \in [Signals -> DomainSignals \cup {None}] /\ v \in Signals
      /\ domainSignalReferences \in [Signals -> SUBSET ValueSignals]
      /\ DomainSignals \subseteq Signals
    BY DEF PathTypes, TreeTypes, Signals
<1>2. domainSignal[v] # None => v \in domainSignalReferences[domainSignal[v]] \/ Between(v)
    BY DEF DomainsKnown, KnowsItsDomain
<1>3. CASE SetDomainSignalUnref(t)
  <2>1. /\ k.at = "unref" /\ j.at = "ref" /\ j.s = k.s
        /\ domainSignal' = [domainSignal EXCEPT
               ![k.s] = IF k.rest = << >> THEN None ELSE Head(k.rest)]
        /\ \A d \in Signals : \A w \in domainSignalReferences[d] :
               w # k.s => w \in domainSignalReferences'[d]
      BY <1>0, <1>3, DomainFields
  <2>2. CASE v = k.s
      BY <1>0, <2>1, <2>2 DEF KnowsItsDomain, Between
  <2>3. CASE v # k.s
    <3>1. domainSignal'[v] = domainSignal[v]
        BY <1>1, <2>1, <2>3
    <3>2. Between(v) => Between(v)'
        BY <1>0, <2>3, BetweenStays
    <3> QED
        BY <1>1, <1>2, <2>1, <2>3, <3>1, <3>2 DEF KnowsItsDomain
  <2> QED
      BY <2>2, <2>3
<1>4. CASE RemoveSignalForget(t)
  <2>1. /\ k.at = "forget" /\ domainSignal' = [domainSignal EXCEPT ![Head(k.rest)] = None]
        /\ domainSignalReferences' = domainSignalReferences
      BY <1>0, <1>4, DomainFields
  <2>2. Between(v) => Between(v)'
      BY <1>0, <2>1, BetweenStays, DomainFields
  <2>3. domainSignal'[v] = None \/ domainSignal'[v] = domainSignal[v]
      BY <1>1, <2>1
  <2> QED
      BY <1>2, <2>1, <2>2, <2>3 DEF KnowsItsDomain
<1>5. CASE RemoveSignalEnd(t)
  <2>1. /\ k.at = "forget" /\ k.rest = << >> /\ domainSignal' = domainSignal
        /\ domainSignalReferences' = [domainSignalReferences EXCEPT ![k.s] = {}]
      BY <1>0, <1>5, DomainFields
  <2>2. Between(v) => Between(v)'
      BY <1>0, <2>1, BetweenStays, DomainFields
  <2>3. v \in domainSignalReferences[k.s] => domainSignal[v] # k.s \/ Between(v)
    <3>1. ~ListedIn(v, k.rest)
        BY <2>1 DEF ListedIn
    <3> QED
        BY <1>0, <2>1, <3>1 DEF DomainsKnown, ForgetsDomain
  <2> QED
      BY <1>1, <1>2, <2>1, <2>2, <2>3 DEF KnowsItsDomain
<1>6. CASE SetDomainSignalRef(t)
  <2>1. /\ k.at = "ref" /\ domainSignal' = domainSignal
        /\ k.rest = << >> => domainSignalReferences' = domainSignalReferences
        /\ k.rest # << >> => domainSignalReferences' = [domainSignalReferences EXCEPT
                                 ![Head(k.rest)] = @ \cup {k.s}]
      BY <1>0, <1>6, DomainFields
  <2>2. domainSignal[k.s] = IF k.rest = << >> THEN None ELSE Head(k.rest)
      BY <1>0, <2>1 DEF DomainsKnown, ChangesDomain
  <2>3. \A d \in Signals : domainSignalReferences[d] \subseteq domainSignalReferences'[d]
      BY <1>1, <2>1
  <2>4. CASE v = k.s
    <3>1. k.rest # << >> => Head(k.rest) \in Signals
        BY <1>0, CallFields
    <3> QED
        BY <1>1, <2>1, <2>2, <2>4, <3>1 DEF KnowsItsDomain
  <2>5. CASE v # k.s
    <3>1. Between(v) => Between(v)'
        BY <1>0, <2>5, BetweenStays
    <3> QED
        BY <1>1, <1>2, <2>1, <2>3, <3>1 DEF KnowsItsDomain
  <2> QED
      BY <2>4, <2>5
<1>7. CASE ~(SetDomainSignalUnref(t) \/ RemoveSignalForget(t) \/ RemoveSignalEnd(t) \/ SetDomainSignalRef(t))
  <2>1. domainSignal' = domainSignal /\ domainSignalReferences' = domainSignalReferences
      BY <1>7, FrameStep
  <2>2. Between(v) => Between(v)'
      BY <1>7, BetweenStays
  <2> QED
      BY <1>2, <2>1, <2>2 DEF KnowsItsDomain
<1> QED
    BY <1>3, <1>4, <1>5, <1>6, <1>7

(* A call that changes a domain signal knows what it changed it to.        *)
LEMMA NextChanges ==
    ASSUME PathTypes, LocksFull, CallsApart, DomainsKnown, NEW t \in Threads, NewCall(t) \/ Continue(t),
           NEW u \in Threads
    PROVE  ChangesDomain(u)'
<1>1. CASE u = t
  <2>1. PICK k, j : k \in Call /\ k = thread[t] /\ j = thread'[t] /\ CallOK(k, Len(made))
      BY CallFields
  <2>2. SUFFICES ASSUME j.at = "ref"
                 PROVE  /\ domainSignal'[j.s] = IF j.rest = << >> THEN None ELSE Head(j.rest)
                        /\ \A c : ListedIn(c, connections'[j.s]) => c \in misled'
      BY <1>1, <2>1 DEF ChangesDomain
  <2>3. SetDomainSignalUnref(t)
      BY <2>1, <2>2, StageSteps
  <2>4. /\ k.at = "unref" /\ j.s = k.s /\ j.rest = k.rest
        /\ domainSignal' = [domainSignal EXCEPT
               ![k.s] = IF k.rest = << >> THEN None ELSE Head(k.rest)]
        /\ \A c : ListedIn(c, connections[k.s]) => c \in misled'
      BY <2>1, <2>3, DomainFields
  <2>c. connections' = connections
      BY <2>3 DEF SetDomainSignalUnref
  <2>5. k.s \in Signals /\ domainSignal \in [Signals -> DomainSignals \cup {None}]
    <3>1. k.method = "setDomainSignal"
        BY <2>1, <2>4 DEF CallOK
    <3> QED
        BY <2>1, <3>1 DEF CallOK, PathTypes, TreeTypes, Signals
  <2> QED
      BY <2>4, <2>5, <2>c
<1>2. CASE u # t
  <2>1. PICK k \in Call : k = thread[u] /\ CallOK(k, Len(made)) /\ HoldsFully(u)
      BY CallFields DEF LocksFull
  <2>2. thread'[u] = k
      BY <1>2, <2>1, StepFacts
  <2>3. SUFFICES ASSUME k.at = "ref"
                 PROVE  /\ domainSignal'[k.s] = IF k.rest = << >> THEN None ELSE Head(k.rest)
                        /\ \A c : ListedIn(c, connections'[k.s]) => c \in misled'
      BY <2>2 DEF ChangesDomain
  <2>4. /\ domainSignal[k.s] = IF k.rest = << >> THEN None ELSE Head(k.rest)
        /\ \A c : ListedIn(c, connections[k.s]) => c \in misled
      BY <2>1, <2>3 DEF DomainsKnown, ChangesDomain
  <2>5. owner[k.s] = u /\ u # None /\ k.s \in Signals
    <3>1. k.method = "setDomainSignal"
        BY <2>1, <2>3 DEF CallOK
    <3> QED
        BY <2>1, <2>3, <3>1, SignalPathAssumption DEF CallOK, HoldsFully, Signals
  <2>6. domainSignal'[k.s] = domainSignal[k.s]
        /\ \A x : ListedIn(x, connections'[k.s]) => ListedIn(x, connections[k.s])
      BY <1>2, <2>5, GuardedSignal
  <2> QED
      BY <2>4, <2>6, FrameStep
<1> QED
    BY <1>1, <1>2

(* A removed domain signal still has to visit the value signals it is the  *)
(* domain of.                                                              *)
LEMMA NextForgets ==
    ASSUME PathTypes, LocksFull, CallsApart, DomainsKnown, NEW t \in Threads, NewCall(t) \/ Continue(t),
           NEW u \in Threads
    PROVE  ForgetsDomain(u)'
<1>0. PICK k, j : k \in Call /\ k = thread[t] /\ j = thread'[t] /\ CallOK(k, Len(made))
    BY CallFields
<1>a. /\ domainSignal \in [Signals -> DomainSignals \cup {None}]
      /\ domainSignalReferences \in [Signals -> SUBSET ValueSignals]
      /\ None \notin Signals /\ ValueSignals \subseteq Signals
    BY SignalPathAssumption DEF PathTypes, TreeTypes, Signals, Components
<1>1. CASE u = t
  <2>1. SUFFICES ASSUME j.at = "forget", NEW v \in domainSignalReferences'[j.s]
                 PROVE  ListedIn(v, j.rest) \/ domainSignal'[v] # j.s \/ Between(v)'
      BY <1>0, <1>1 DEF ForgetsDomain
  <2>2. RemoveSignalForget(t) \/ RemoveSignalClear(t)
      BY <1>0, <2>1, StageSteps
  <2>3. domainSignalReferences' = domainSignalReferences /\ j.s = k.s /\ k.s \in Signals
    <3>1. j.s = k.s /\ k.at \in {"clear", "forget"}
        BY <1>0, <2>2, DomainFields
    <3>2. RemoveSignalClear(t) => domainSignalReferences' = domainSignalReferences
        BY DEF RemoveSignalClear, signalVars
    <3>3. RemoveSignalForget(t) => domainSignalReferences' = domainSignalReferences
        BY <1>0, DomainFields
    <3> QED
        BY <1>0, <2>2, <3>1, <3>2, <3>3, HandsFull
  <2>4. CASE RemoveSignalClear(t)
    <3>1. j.rest = InSequence(domainSignalReferences[k.s])
        BY <1>0, <2>4, DomainFields
    <3> QED
        BY <2>1, <2>3, <3>1, ReferencesListed
  <2>5. CASE RemoveSignalForget(t)
    <3>1. /\ k.at = "forget" /\ k.rest # << >> /\ j.rest = Tail(k.rest)
          /\ domainSignal' = [domainSignal EXCEPT ![Head(k.rest)] = None]
        BY <1>0, <2>5, DomainFields
    <3>2. ListedIn(v, k.rest) \/ domainSignal[v] # k.s \/ Between(v)
        BY <1>0, <2>1, <2>3, <3>1 DEF DomainsKnown, ForgetsDomain
    <3>3. k.rest \in Seq(Signals) /\ v \in Signals
        BY <1>0, <1>a, <2>1, <2>3, CallFields
    <3>4. Between(v) => Between(v)'
        BY <1>0, <3>1, BetweenStays, DomainFields
    <3>5. ListedIn(v, k.rest) => v = Head(k.rest) \/ ListedIn(v, j.rest)
        BY <3>1, <3>3, RestLists
    <3>6. domainSignal'[v] = IF v = Head(k.rest) THEN None ELSE domainSignal[v]
        BY <1>a, <3>1, <3>3
    <3> QED
        BY <1>a, <2>3, <3>2, <3>4, <3>5, <3>6
  <2> QED
      BY <2>2, <2>4, <2>5
<1>2. CASE u # t
  <2>1. PICK i \in Call : i = thread[u] /\ CallOK(i, Len(made)) /\ HoldsFully(u)
      BY CallFields DEF LocksFull
  <2>2. thread'[u] = i
      BY <1>2, <2>1, StepFacts
  <2>3. SUFFICES ASSUME i.at = "forget", NEW v \in domainSignalReferences'[i.s]
                 PROVE  ListedIn(v, i.rest) \/ domainSignal'[v] # i.s \/ Between(v)'
      BY <2>2 DEF ForgetsDomain
  <2>4. owner[i.s] = u /\ u # None /\ i.s \in Signals
      BY <2>1, <2>3, HandsFull, SignalPathAssumption DEF HoldsFully
  <2>5. v \in domainSignalReferences[i.s]
    <3>1. CASE SetDomainSignalRef(t)
        BY <1>0, <1>a, <2>3, <2>4, <3>1, DomainFields
    <3>2. CASE SetDomainSignalUnref(t)
        BY <1>0, <2>3, <2>4, <3>2, DomainFields
    <3>3. CASE RemoveSignalEnd(t)
        BY <1>0, <1>a, <2>3, <2>4, <3>3, DomainFields
    <3> QED
        BY <2>3, <3>1, <3>2, <3>3, FrameStep
  <2>6. ListedIn(v, i.rest) \/ domainSignal[v] # i.s \/ Between(v)
      BY <2>1, <2>3, <2>5 DEF DomainsKnown, ForgetsDomain
  <2>v. v \in Signals
      BY <1>a, <2>4, <2>5
  <2>7. CASE Between(v)
    <3>1. CASE SetDomainSignalRef(t) /\ v = k.s
      <4>1. /\ k.at = "ref" /\ domainSignal' = domainSignal
            /\ k.rest # << >> => owner[Head(k.rest)] = None
          BY <1>0, <3>1, DomainFields
      <4>2. domainSignal[k.s] = IF k.rest = << >> THEN None ELSE Head(k.rest)
          BY <1>0, <4>1 DEF DomainsKnown, ChangesDomain
      <4> QED
          BY <1>a, <2>4, <3>1, <4>1, <4>2
    <3> QED
        BY <1>0, <2>7, <3>1, BetweenStays
  <2>8. CASE domainSignal[v] # i.s
    <3>1. CASE SetDomainSignalUnref(t)
      <4>1. /\ j.at = "ref" /\ j.s = k.s
            /\ domainSignal' = [domainSignal EXCEPT
                   ![k.s] = IF k.rest = << >> THEN None ELSE Head(k.rest)]
          BY <1>0, <3>1, DomainFields
      <4>2. CASE v = k.s
          BY <1>0, <4>1, <4>2 DEF Between
      <4>3. CASE v # k.s
          BY <1>a, <2>8, <2>v, <4>1, <4>3
      <4> QED
          BY <4>2, <4>3
    <3>2. CASE RemoveSignalForget(t)
        BY <1>0, <1>a, <2>4, <2>8, <2>v, <3>2, DomainFields
    <3> QED
        BY <2>8, <3>1, <3>2, FrameStep
  <2> QED
      BY <2>6, <2>7, <2>8
<1> QED
    BY <1>1, <1>2

(* Together.                                                               *)
LEMMA NextDomains ==
    ASSUME PathTypes, LocksFull, CallsApart, DomainsKnown, NEW t \in Threads, NewCall(t) \/ Continue(t)
    PROVE  DomainsKnown'
BY NextKnows, NextChanges, NextForgets DEF DomainsKnown

---------------------------------------------------------------------------------
(***************************************************************************)
(* The invariant behind DataUnderItsDescriptors.  Thread a is the only one *)
(* that sends packets and changes descriptors; all threads do the rest.    *)
(***************************************************************************)
Acquisition == {"sendPacket", "setDescriptor"}
OneAcquirer(a) == \A t \in Threads : thread[t].method \in Acquisition => t = a

(* setDescriptor goes through two phases: the connections of its signal,   *)
(* under the mutex, and then those of the value signals it is the domain   *)
(* of.                                                                     *)
SetsDescriptor(a) == thread[a].method = "setDescriptor"
Changing(a) == SetsDescriptor(a) /\ thread[a].at \in Late /\ owner[thread[a].s] = a
Announcing(a) == SetsDescriptor(a) /\ thread[a].at \in Late /\ owner[thread[a].s] # a

(* Thread a has still to announce the change of the domain of signal v.    *)
Announces(a, v) ==
    /\ SetsDescriptor(a) /\ thread[a].s = domainSignal[v]
    /\ Changing(a) \/ ListedIn(v, thread[a].rest)

(* x is the domain descriptor of v, or v will be told of another.          *)
DomainNews(a, v, x) == x = DescriptorOf(domainSignal[v]) \/ Announces(a, v)

(* The first event of a connection, while the call that makes it has       *)
(* listed it and holds the mutex of its signal.                            *)
Introduces(t, c) == Connects(t, c) /\ thread[t].at \in Late /\ thread[t].todo # << >>
FirstEvent(a, t) ==
    Introduces(t, thread[t].c) =>
        /\ thread[t].todo = <<thread[t].c>>
        /\ thread[t].packet.kind = "event" /\ thread[t].packet.value = dataDescriptor[thread[t].s]
        /\ thread[t].packet.domain # "same"
        /\ DomainNews(a, thread[t].s, thread[t].packet.domain)
FirstEvents(a) == \A t \in Threads : FirstEvent(a, t)

(* The packet thread a has in hand, and the connections it still goes to.  *)
WalksApart(a) ==
    thread[a].method \in Acquisition =>
        \A c : ListedIn(c, thread[a].todo) => \A u \in Threads : ~Connects(u, c)
Sends(a) ==
    thread[a].method = "sendPacket" =>
        /\ thread[a].packet.kind = "data"
        /\ \A c : ListedIn(c, thread[a].todo) =>
               /\ Told(c, "value") = thread[a].packet.value
               /\ c \in misled \/ Told(c, "domain") = thread[a].packet.domain
Changes(a) ==
    Changing(a) =>
        /\ thread[a].packet = DescriptorChanged(dataDescriptor[thread[a].s], "same")
        /\ \A c : ListedIn(c, thread[a].todo) => made[c].signal = thread[a].s
AnnouncesRight(a) ==
    /\ Announcing(a) \/ thread[a].at = "announce" =>
           thread[a].packet = DescriptorChanged("same", dataDescriptor[thread[a].s])
    /\ Announcing(a) => \A c : ListedIn(c, thread[a].todo) =>
           c \in misled \/ ~Listed(c) \/ domainSignal[made[c].signal] = thread[a].s
Walking(a) == WalksApart(a) /\ Sends(a) /\ Changes(a) /\ AnnouncesRight(a)

(* A connection that is listed was told the descriptors of its signal and  *)
(* of the domain of its signal, or will be.                                *)
ValueTold(a, c) ==
    \/ Told(c, "value") = dataDescriptor[made[c].signal]
    \/ Changing(a) /\ thread[a].s = made[c].signal /\ ListedIn(c, thread[a].todo)
DomainTold(a, c) ==
    \/ c \in misled
    \/ DomainNews(a, made[c].signal, Told(c, "domain"))
    \/ /\ Announcing(a) /\ thread[a].s = domainSignal[made[c].signal]
       /\ ListedIn(c, thread[a].todo)
ListedTold(a) ==
    \A c \in 1 .. Len(made) : Listed(c) =>
        \/ \E t \in Threads : Introduces(t, c)
        \/ ValueTold(a, c) /\ DomainTold(a, c)

DescriptorInv(a) ==
    /\ OneAcquirer(a) /\ DomainsKnown /\ FirstEvents(a) /\ Walking(a) /\ ListedTold(a)
    /\ DataUnderItsDescriptors

(* A step of one thread takes and gives back no mutex of another.          *)
LEMMA SameOwner ==
    ASSUME PathTypes, LocksFull, NEW t \in Threads, NewCall(t) \/ Continue(t),
           NEW u \in Threads, u # t, NEW x \in Components
    PROVE  owner'[x] = u <=> owner[x] = u
<1>1. u # None /\ owner \in [Components -> Threads \cup {None}]
    BY SignalPathAssumption DEF PathTypes, TreeTypes
<1>2. owner[x] = u => owner'[x] = u
    BY <1>1, OwnersKept DEF LocksFull
<1>3. \/ owner' = owner
      \/ \E y : owner' = [owner EXCEPT ![y] = t] \/ owner' = [owner EXCEPT ![y] = None]
    BY DEF NewCall, Continue, SendPacket, SetDescriptor, Connect, Disconnect, RemovePort,
           RemoveSignal, SetActive, SetDomainSignal, EnqueueCheckActive, EnqueuePush,
           SendPacketEnd, SetDescriptorUnlock, SetDescriptorRead, SetDescriptorAnnounce,
           SetDescriptorNext, SetDescriptorEnd, ConnectPort, ConnectOld, ConnectListener,
           ConnectRegister, ConnectDescribe, ConnectEnd, DisconnectTell, RemovePortOld,
           RemoveSignalDisconnect, RemoveSignalClear, RemoveSignalForget, RemoveSignalEnd,
           SetDomainSignalUnref, SetDomainSignalRef, Take, Release
<1> QED
    BY <1>1, <1>2, <1>3

(* Only the acquisition thread comes to send or to set a descriptor.       *)
LEMMA NextAcquirer ==
    ASSUME PathTypes, NEW a \in Threads, OneAcquirer(a),
           \A t \in Threads \ {a} : Operations[t] \cap Acquisition = {},
           NEW t \in Threads, NewCall(t) \/ Continue(t)
    PROVE  OneAcquirer(a)'
<1>1. SUFFICES ASSUME NEW u \in Threads, thread'[u].method \in Acquisition PROVE u = a
    BY DEF OneAcquirer
<1>2. CASE u # t
    BY <1>1, <1>2, StepFacts DEF OneAcquirer
<1>3. CASE u = t
  <2>1. PICK k, j : k \in Call /\ k = thread[t] /\ j = thread'[t]
      BY CallFields
  <2>2. \/ k.method \in Acquisition
        \/ \E s \in Signals : SendPacket(t, s)
        \/ \E s \in Signals, x \in Descriptors : SetDescriptor(t, s, x)
    <3>1. CASE EnqueueCheckActive(t) \/ EnqueuePush(t)
        BY <1>1, <1>3, <2>1, <3>1, WalkFields DEF SameCall
    <3>2. CASE SetDescriptorUnlock(t) \/ SetDescriptorRead(t) \/ SetDescriptorAnnounce(t)
                 \/ SetDescriptorNext(t)
        BY <2>1, <3>2, SetFields DEF Acquisition
    <3> QED
        BY <1>1, <1>3, <2>1, <3>1, <3>2, StageSteps DEF Acquisition
  <2>3. k.method \in Acquisition \/ "sendPacket" \in Operations[t] \/ "setDescriptor" \in Operations[t]
      BY <2>1, <2>2, BeginFields
  <2> QED
      BY <1>3, <2>1, <2>3 DEF OneAcquirer, Acquisition
<1> QED
    BY <1>2, <1>3

(* A signal with a domain signal is a value signal.                        *)
LEMMA DomainOf ==
    ASSUME PathTypes, NEW v \in Signals, domainSignal[v] # None
    PROVE  v \in ValueSignals /\ domainSignal[v] \in Signals
BY DEF PathTypes, TreeTypes, Signals

(* What a value signal was told of its domain, or will be, stays so until  *)
(* it is its turn, unless its domain signal is just being changed.         *)
LEMMA NewsKept ==
    ASSUME PathTypes, LocksFull, DomainsKnown, NEW a \in Threads, OneAcquirer(a), OneAcquirer(a)',
           NEW t \in Threads, NewCall(t) \/ Continue(t),
           NEW v \in Signals, domainSignal'[v] = domainSignal[v], NEW x, DomainNews(a, v, x)
    PROVE  \/ DomainNews(a, v, x)'
           \/ t = a /\ SetDescriptorAnnounce(a) /\ v = Head(thread[a].rest)
           \/ Between(v)
<1>0. PICK k, j : k \in Call /\ k = thread[a] /\ j = thread'[a] /\ CallOK(k, Len(made))
    BY CallFields
<1>1. CASE x = DescriptorOf(domainSignal[v])
  <2>1. CASE dataDescriptor' = dataDescriptor
      BY <1>1, <2>1 DEF DomainNews, DescriptorOf
  <2>2. CASE \E s \in Signals, y \in Descriptors : SetDescriptor(t, s, y)
    <3>1. PICK s \in Signals, y \in Descriptors : SetDescriptor(t, s, y)
        BY <2>2
    <3>2. PICK i : i = thread'[t] /\ i.method = "setDescriptor" /\ i.at = "enqueue" /\ i.s = s
        BY <3>1, BeginFields, CallFields
    <3>3. owner' = [owner EXCEPT ![s] = t] /\ dataDescriptor' = [dataDescriptor EXCEPT ![s] = y]
        BY <3>1, BeginFields, CallFields
    <3>4. t = a
        BY <3>2 DEF OneAcquirer, Acquisition
    <3>5. dataDescriptor \in [Signals -> Descriptors] /\ owner \in [Components -> Threads \cup {None}]
          /\ s \in Components
        BY DEF PathTypes, TreeTypes, Components
    <3>6. CASE domainSignal[v] = s
      <4>1. owner'[s] = a
          BY <3>3, <3>4, <3>5
      <4> QED
          BY <3>2, <3>4, <3>6, <4>1 DEF DomainNews, Announces, SetsDescriptor, Changing, Late
    <3>7. CASE domainSignal[v] # s
      <4>1. domainSignal[v] # None => dataDescriptor'[domainSignal[v]] = dataDescriptor[domainSignal[v]]
          BY <3>3, <3>5, <3>7, DomainOf
      <4> QED
          BY <1>1, <4>1 DEF DomainNews, DescriptorOf
    <3> QED
        BY <3>6, <3>7
  <2> QED
      BY <2>1, <2>2, FrameStep
<1>2. CASE Announces(a, v)
  <2>1. /\ k.method = "setDescriptor" /\ k.s = domainSignal[v]
        /\ (k.at \in Late /\ owner[k.s] = a) \/ ListedIn(v, k.rest)
      BY <1>0, <1>2 DEF Announces, SetsDescriptor, Changing
  <2>2. k.s \in Signals /\ k.s \in Components /\ v \in ValueSignals
    <3>1. k.s \in Signals
        BY <1>0, <2>1 DEF CallOK
    <3>2. k.s # None
        BY <3>1, SignalPathAssumption DEF Components
    <3> QED
        BY <2>1, <3>1, <3>2, DomainOf DEF Components
  <2>3. SUFFICES \/ /\ j.method = "setDescriptor" /\ j.s = k.s
                    /\ (j.at \in Late /\ owner'[j.s] = a) \/ ListedIn(v, j.rest)
                 \/ t = a /\ SetDescriptorAnnounce(a) /\ v = Head(k.rest)
                 \/ Between(v)
      BY <1>0, <2>1 DEF DomainNews, Announces, SetsDescriptor, Changing
  <2>4. CASE t # a
    <3>1. j = k
        BY <1>0, <2>4, StepFacts
    <3>2. owner'[k.s] = a <=> owner[k.s] = a
        BY <2>2, <2>4, SameOwner
    <3> QED
        BY <2>1, <3>1, <3>2
  <2>5. CASE t = a /\ (EnqueueCheckActive(a) \/ EnqueuePush(a))
    <3>1. SameCall(k, j) /\ j.at \in Late
        BY <1>0, <2>5, WalkFields DEF Late
    <3>2. owner' = owner
        BY <2>5 DEF EnqueueCheckActive, EnqueuePush
    <3> QED
        BY <2>1, <3>1, <3>2 DEF SameCall
  <2>6. CASE t = a /\ SetDescriptorUnlock(a)
    <3>1. j.method = "setDescriptor" /\ j.s = k.s /\ j.rest = InSequence(domainSignalReferences[k.s])
        BY <1>0, <2>6, SetFields
    <3>2. v \in domainSignalReferences[k.s] \/ Between(v)
      <4>1. domainSignal[v] # None
          BY <2>1, <2>2, SignalPathAssumption DEF Components
      <4> QED
          BY <2>1, <2>2, <4>1 DEF DomainsKnown, KnowsItsDomain
    <3> QED
        BY <2>2, <3>1, <3>2, ReferencesListed
  <2>7. CASE t = a /\ (SetDescriptorRead(a) \/ SetDescriptorNext(a))
    <3>1. /\ j.method = "setDescriptor" /\ j.s = k.s /\ j.rest = k.rest
          /\ k.at \notin Late \/ owner[k.s] # a
        BY <1>0, <2>7, SetFields DEF Late
    <3> QED
        BY <2>1, <3>1
  <2>8. CASE t = a /\ SetDescriptorAnnounce(a)
    <3>1. /\ j.method = "setDescriptor" /\ j.s = k.s /\ j.rest = Tail(k.rest)
          /\ k.at \notin Late /\ k.rest # << >>
        BY <1>0, <2>8, SetFields DEF Late
    <3>2. k.rest \in Seq(Signals)
        BY <1>0, CallFields
    <3> QED
        BY <2>1, <2>8, <3>1, <3>2, RestLists
  <2>9. CASE t = a /\ SetDescriptorEnd(a)
    <3>1. k.at \notin Late /\ k.rest = << >>
        BY <1>0, <2>9, SetFields DEF Late
    <3> QED
        BY <2>1, <3>1 DEF ListedIn
  <2> QED
      BY <1>0, <2>1, <2>4, <2>5, <2>6, <2>7, <2>8, <2>9, StageSteps
<1> QED
    BY <1>1, <1>2 DEF DomainNews

(* Nobody is between the halves of setDomainSignal of a signal whose mutex *)
(* connect holds.                                                          *)
LEMMA NotBetween ==
    ASSUME PathTypes, LocksFull, NEW u \in Threads, thread[u].at # "ref", NEW v,
           owner[v] = u
    PROVE  ~Between(v)
BY DEF Between, LocksFull, HoldsFully

(* The first event is kept.                                                *)
LEMMA NextFirst ==
    ASSUME PathTypes, LocksFull, CallsApart, DomainsKnown, NEW a \in Threads, OneAcquirer(a),
           OneAcquirer(a)', FirstEvents(a), NEW t \in Threads, NewCall(t) \/ Continue(t),
           NEW u \in Threads
    PROVE  FirstEvent(a, u)'
<1>0. PICK k, j : k \in Call /\ k = thread[u] /\ j = thread'[u] /\ CallOK(k, Len(made))
              /\ HoldsFully(u)
    BY CallFields DEF LocksFull
<1>1. SUFFICES ASSUME j.method = "connect", j.at \in Late, j.todo # << >>
               PROVE  /\ j.todo = <<j.c>> /\ j.packet.kind = "event"
                      /\ j.packet.value = dataDescriptor'[j.s] /\ j.packet.domain # "same"
                      /\ DomainNews(a, j.s, j.packet.domain)'
    BY <1>0 DEF FirstEvent, Introduces, Connects
<1>2. ASSUME k.method = "connect", k.at \in Late, k.todo # << >>
      PROVE  /\ k.todo = <<k.c>> /\ k.packet.kind = "event"
             /\ k.packet.value = dataDescriptor[k.s] /\ k.packet.domain # "same"
             /\ DomainNews(a, k.s, k.packet.domain)
             /\ owner[k.s] = u /\ k.s \in Signals /\ ~Between(k.s) /\ u # None
  <2>1. /\ k.todo = <<k.c>> /\ k.packet.kind = "event"
        /\ k.packet.value = dataDescriptor[k.s] /\ k.packet.domain # "same"
        /\ DomainNews(a, k.s, k.packet.domain)
      BY <1>0, <1>2 DEF FirstEvents, FirstEvent, Introduces, Connects
  <2>2. owner[k.s] = u /\ k.s \in Signals /\ u # None /\ k.at # "ref"
      BY <1>0, <1>2, SignalPathAssumption DEF HoldsFully, Late, CallOK
  <2>3. ~Between(k.s)
      BY <1>0, <2>2, NotBetween
  <2> QED
      BY <2>1, <2>2, <2>3
<1>3. CASE u # t
  <2>1. j = k
      BY <1>0, <1>3, StepFacts
  <2>2. /\ k.todo = <<k.c>> /\ k.packet.kind = "event"
        /\ k.packet.value = dataDescriptor[k.s] /\ k.packet.domain # "same"
        /\ DomainNews(a, k.s, k.packet.domain)
        /\ owner[k.s] = u /\ k.s \in Signals /\ ~Between(k.s) /\ u # None
      BY <1>1, <1>2, <2>1
  <2>3. dataDescriptor'[k.s] = dataDescriptor[k.s] /\ domainSignal'[k.s] = domainSignal[k.s]
      BY <1>3, <2>2, GuardedSignal
  <2>4. t = a /\ SetDescriptorAnnounce(a) => k.s # Head(thread[a].rest)
    <3>1. t = a /\ SetDescriptorAnnounce(a) => owner[Head(thread[a].rest)] = None
        BY SetFields, CallFields
    <3> QED
        BY <2>2, <3>1
  <2>5. DomainNews(a, k.s, k.packet.domain)'
    <3>1. PICK x : x = k.packet.domain
        OBVIOUS
    <3>2. DomainNews(a, k.s, x)'
        BY <2>2, <2>3, <2>4, <3>1, NewsKept
    <3> QED
        BY <3>1, <3>2
  <2> QED
      BY <2>1, <2>2, <2>3, <2>5
<1>4. CASE u = t /\ ConnectDescribe(t)
  <2>1. /\ j.c = k.c /\ j.s = k.s /\ j.todo = <<k.c>>
        /\ j.packet = DescriptorChanged(dataDescriptor[k.s], DescriptorOf(domainSignal[k.s]))
        /\ k.method = "connect"
    <3>1. k = thread[t] /\ j = thread'[t]
        BY <1>0, <1>4
    <3> QED
        BY <1>0, <1>4, <3>1, DescribeFields
  <2>2. dataDescriptor' = dataDescriptor /\ domainSignal' = domainSignal
      BY <1>4 DEF ConnectDescribe, signalVars
  <2>3. DescriptorOf(domainSignal[k.s]) # "same" /\ k.s \in Signals
    <3>1. k.s \in Signals
        BY <1>0, <2>1 DEF CallOK
    <3>2. dataDescriptor \in [Signals -> Descriptors] /\ "same" \notin Descriptors
        BY SignalPathAssumption DEF PathTypes, TreeTypes
    <3> QED
        BY <3>1, <3>2, DomainOf DEF DescriptorOf
  <2> QED
      BY <2>1, <2>2, <2>3 DEF DescriptorChanged, DomainNews, DescriptorOf
<1>5. CASE u = t /\ (EnqueueCheckActive(t) \/ EnqueuePush(t))
  <2>1. SameCall(k, j) /\ k.at \in Late /\ k.todo # << >>
      BY <1>0, <1>5, WalkFields DEF Late
  <2>2. /\ k.todo = <<k.c>> /\ k.packet.kind = "event"
        /\ k.packet.value = dataDescriptor[k.s] /\ k.packet.domain # "same"
        /\ DomainNews(a, k.s, k.packet.domain)
        /\ owner[k.s] = u /\ k.s \in Signals /\ ~Between(k.s) /\ u # None
      BY <1>1, <1>2, <2>1 DEF SameCall
  <2>3. j.todo = k.todo
    <3>1. Tail(<<k.c>>) = << >>
        OBVIOUS
    <3>2. k = thread[t] /\ j = thread'[t]
        BY <1>0, <1>5
    <3>3. j.todo = k.todo \/ j.todo = Tail(k.todo)
        BY <1>0, <1>5, <3>2, WalkFields
    <3> QED
        BY <1>1, <2>2, <3>1, <3>3
  <2>4. dataDescriptor' = dataDescriptor /\ domainSignal' = domainSignal
      BY <1>5 DEF EnqueueCheckActive, EnqueuePush, signalVars
  <2>5. DomainNews(a, k.s, k.packet.domain)'
    <3>1. PICK x : x = k.packet.domain
        OBVIOUS
    <3>2. ~(t = a /\ SetDescriptorAnnounce(a))
        BY <1>0, <1>1, <1>5, <2>1, SetFields DEF SameCall
    <3>3. DomainNews(a, k.s, x)'
        BY <2>2, <2>4, <3>1, <3>2, NewsKept
    <3> QED
        BY <3>1, <3>3
  <2> QED
      BY <2>1, <2>2, <2>3, <2>4, <2>5 DEF SameCall
<1> QED
    BY <1>0, <1>1, <1>3, <1>4, <1>5, StageSteps

(* A connection in the list of a signal whose mutex is free is not being   *)
(* made any more.                                                          *)
LEMMA FreeApart ==
    ASSUME PathTypes, LocksFull, CallsApart, NEW s \in Signals, owner[s] = None,
           NEW c, ListedIn(c, connections[s]), NEW u \in Threads
    PROVE  c \in 1 .. Len(made) /\ made[c].signal = s /\ ~Connects(u, c)
<1>1. c \in 1 .. Len(made) /\ made[c].signal = s
    BY DEF ListedIn, CallsApart, PathTypes, ConnectionTypes
<1>2. ASSUME Connects(u, c) PROVE FALSE
  <2>1. thread[u].method = "connect" /\ thread[u].c = c
      BY <1>2 DEF Connects
  <2>2. thread[u].s = s /\ (thread[u].at \notin Late => ~Listed(c))
      BY <1>1, <2>1 DEF CallsApart
  <2>3. thread[u].at \in Late
      BY <1>1, <2>2 DEF Listed
  <2>4. owner[s] = u
      BY <2>1, <2>2, <2>3 DEF LocksFull, HoldsFully, Late
  <2> QED
      BY <2>4, SignalPathAssumption
<1> QED
    BY <1>1, <1>2

(* No call comes to make a connection that was made before.                *)
LEMMA ConnectsBefore ==
    ASSUME PathTypes, NEW t \in Threads, NewCall(t) \/ Continue(t),
           NEW c \in 1 .. Len(made), NEW u \in Threads, Connects(u, c)'
    PROVE  Connects(u, c)
<1>1. CASE u # t
    BY <1>1, StepFacts DEF Connects
<1>2. CASE u = t
  <2>1. PICK k, j : k \in Call /\ k = thread[t] /\ j = thread'[t] /\ Len(made) \in Nat
      BY CallFields
  <2>2. j.method = "connect" /\ j.c = c
      BY <1>2, <2>1 DEF Connects
  <2>3. ~(\E p \in Ports, s \in Signals : Connect(t, p, s))
      BY <2>1, <2>2, AfterNewCall
  <2>4. k.method = "connect" /\ SameConnect(k, j)
      BY <2>1, <2>2, <2>3, RoleStep
  <2> QED
      BY <1>2, <2>1, <2>2, <2>4 DEF Connects, SameConnect
<1> QED
    BY <1>1, <1>2

(* What a thread pushes: the first event of a connection it makes, or, in  *)
(* the acquisition thread, what is in its hand.                            *)
LEMMA Pushes ==
    ASSUME PathTypes, NEW a \in Threads, OneAcquirer(a), FirstEvents(a), Walking(a),
           NEW t \in Threads, EnqueuePush(t), NEW k \in Call, k = thread[t]
    PROVE  /\ k.at = "push" /\ k.todo # << >>
           /\ \/ /\ Introduces(t, k.c) /\ k.todo = <<k.c>> /\ Head(k.todo) = k.c
                 /\ k.method = "connect" /\ k.packet.kind = "event"
              \/ t = a /\ k.method = "sendPacket" /\ k.packet.kind = "data"
              \/ t = a /\ Changing(a) /\ k.method = "setDescriptor"
                 /\ k.packet = DescriptorChanged(dataDescriptor[k.s], "same")
              \/ t = a /\ Announcing(a) /\ k.method = "setDescriptor"
                 /\ k.packet = DescriptorChanged("same", dataDescriptor[k.s])
<1>1. k.at = "push" /\ k.at \in Late /\ k.todo # << >>
    BY WalkFields DEF Late
<1>2. k.method \in {"sendPacket", "setDescriptor", "connect"}
    BY <1>1, CallFields DEF CallOK
<1>3. CASE k.method = "connect"
  <2>1. Introduces(t, k.c)
      BY <1>1, <1>3 DEF Introduces, Connects
  <2>2. k.todo = <<k.c>> /\ k.packet.kind = "event"
      BY <2>1 DEF FirstEvents, FirstEvent
  <2> QED
      BY <1>1, <1>3, <2>1, <2>2
<1>4. CASE k.method = "sendPacket"
    BY <1>1, <1>4 DEF OneAcquirer, Acquisition, Walking, Sends
<1>5. CASE k.method = "setDescriptor"
    BY <1>1, <1>5 DEF OneAcquirer, Acquisition, Walking, Changes, AnnouncesRight, Changing,
                      Announcing, SetsDescriptor
<1> QED
    BY <1>2, <1>3, <1>4, <1>5

(* What is listed after the first place is listed.                         *)
LEMMA TailListed ==
    ASSUME NEW q \in Seq(Nat), q # << >>, NEW c, ListedIn(c, Tail(q))
    PROVE  ListedIn(c, q)
<1>1. PICK i \in DOMAIN Tail(q) : Tail(q)[i] = c
    BY DEF ListedIn
<1> QED
    BY <1>1, TailLists

(* The connections a step of the acquisition thread goes on to.            *)
LEMMA TodoStep ==
    ASSUME PathTypes, NEW a \in Threads, NewCall(a) \/ Continue(a),
           NEW k \in Call, k = thread[a], NEW j, j = thread'[a],
           j.method \in Acquisition, NEW c, ListedIn(c, j.todo)
    PROVE  \/ k.method = j.method /\ ListedIn(c, k.todo)
           \/ \E s \in Signals : owner[s] = None /\ ListedIn(c, connections[s])
<1>1. CASE EnqueueCheckActive(a) \/ EnqueuePush(a)
  <2>1. k.method = j.method /\ k.todo # << >> /\ (j.todo = k.todo \/ j.todo = Tail(k.todo))
      BY <1>1, WalkFields DEF SameCall
  <2>2. k.todo \in Seq(Nat)
      BY CallFields
  <2>3. ListedIn(c, Tail(k.todo)) => ListedIn(c, k.todo)
      BY <2>1, <2>2, TailListed
  <2> QED
      BY <2>1, <2>3
<1>2. CASE SetDescriptorUnlock(a) \/ SetDescriptorNext(a)
  <2>1. j.todo = << >>
      BY <1>2, SetFields
  <2> QED
      BY <2>1 DEF ListedIn
<1>3. CASE SetDescriptorRead(a)
    BY <1>3, SetFields
<1>4. CASE SetDescriptorAnnounce(a)
  <2>1. /\ k.rest # << >> /\ owner[Head(k.rest)] = None
        /\ j.todo = connections[Head(k.rest)] \/ j.todo = << >>
      BY <1>4, SetFields
  <2>2. Head(k.rest) \in Signals
      BY <2>1, CallFields
  <2>3. ~ListedIn(c, << >>)
      BY DEF ListedIn
  <2> QED
      BY <2>1, <2>2, <2>3
<1>5. CASE \/ \E s \in Signals : SendPacket(a, s)
           \/ \E s \in Signals, x \in Descriptors : SetDescriptor(a, s, x)
  <2>1. \E s \in Signals : owner[s] = None /\ j.todo = connections[s]
      BY <1>5, BeginFields
  <2> QED
      BY <2>1
<1> QED
    BY <1>1, <1>2, <1>3, <1>4, <1>5, StageSteps DEF Acquisition

(* The walk of the acquisition thread stays apart from the calls that make *)
(* connections.                                                            *)
LEMMA NextWalksApart ==
    ASSUME PathTypes, LocksFull, CallsApart, NEW a \in Threads, WalksApart(a),
           NEW t \in Threads, NewCall(t) \/ Continue(t)
    PROVE  WalksApart(a)'
<1>0. PICK k, j : k \in Call /\ k = thread[a] /\ j = thread'[a] /\ CallOK(k, Len(made))
    BY CallFields
<1>1. SUFFICES ASSUME j.method \in Acquisition, NEW c, ListedIn(c, j.todo), NEW u \in Threads
               PROVE  ~Connects(u, c)'
    BY <1>0 DEF WalksApart
<1>2. CASE k.method \in Acquisition /\ ListedIn(c, k.todo)
  <2>1. c \in 1 .. Len(made)
      BY <1>0, <1>2 DEF CallOK, ListedIn
  <2>2. ~Connects(u, c)
      BY <1>0, <1>2 DEF WalksApart
  <2> QED
      BY <2>1, <2>2, ConnectsBefore
<1>3. CASE \E s \in Signals : owner[s] = None /\ ListedIn(c, connections[s])
  <2>1. c \in 1 .. Len(made) /\ ~Connects(u, c)
      BY <1>3, FreeApart
  <2> QED
      BY <2>1, ConnectsBefore
<1>4. CASE t # a
  <2>1. j = k
      BY <1>0, <1>4, StepFacts
  <2> QED
      BY <1>1, <1>2, <2>1
<1>5. CASE t = a
    BY <1>0, <1>1, <1>2, <1>3, <1>5, TodoStep
<1> QED
    BY <1>4, <1>5

(* A connection of a walk is told nothing by another thread.               *)
LEMMA WalkedUntold ==
    ASSUME PathTypes, NEW a \in Threads, OneAcquirer(a), FirstEvents(a), Walking(a),
           NEW t \in Threads, t # a, NewCall(t) \/ Continue(t),
           thread[a].method \in Acquisition, NEW c, ListedIn(c, thread[a].todo), NEW f
    PROVE  c \in 1 .. Len(made) /\ Told(c, f)' = Told(c, f)
<1>1. PICK k \in Call : k = thread[t]
    BY CallFields
<1>2. c \in 1 .. Len(made)
    BY CallFields DEF CallOK, ListedIn
<1>3. ~Connects(t, c)
    BY DEF Walking, WalksApart
<1>4. EnqueuePush(t) => Head(k.todo) = k.c /\ k.method = "connect"
    BY <1>1, Pushes
<1> QED
    BY <1>1, <1>2, <1>3, <1>4, ToldNext DEF Connects

(* When the mutex of a signal is free and thread a idle, the connections   *)
(* of the signal were told the descriptors.                                *)
LEMMA ToldWhenFree ==
    ASSUME PathTypes, LocksFull, CallsApart, NEW a \in Threads, ListedTold(a), thread[a] = Idle,
           NEW s \in Signals, owner[s] = None, NEW c, ListedIn(c, connections[s])
    PROVE  /\ Told(c, "value") = dataDescriptor[s]
           /\ c \in misled \/ Told(c, "domain") = DescriptorOf(domainSignal[s])
<1>1. c \in 1 .. Len(made) /\ made[c].signal = s /\ \A u \in Threads : ~Connects(u, c)
    BY FreeApart
<1>2. Listed(c)
    BY <1>1 DEF Listed
<1>3. ValueTold(a, c) /\ DomainTold(a, c)
    BY <1>1, <1>2 DEF ListedTold, Introduces
<1>4. ~SetsDescriptor(a)
    BY IdleFields DEF SetsDescriptor
<1> QED
    BY <1>1, <1>3, <1>4 DEF ValueTold, DomainTold, DomainNews, Announces, Changing, Announcing

(* What is sent is sent under the descriptors told last.                   *)
LEMMA NextSends ==
    ASSUME PathTypes, LocksFull, CallsApart, NEW a \in Threads, OneAcquirer(a), FirstEvents(a),
           Walking(a), ListedTold(a), NEW t \in Threads, NewCall(t) \/ Continue(t)
    PROVE  Sends(a)'
<1>0. PICK k, j : k \in Call /\ k = thread[a] /\ j = thread'[a] /\ CallOK(k, Len(made))
    BY CallFields
<1>1. SUFFICES ASSUME j.method = "sendPacket"
               PROVE  /\ j.packet.kind = "data"
                      /\ \A c : ListedIn(c, j.todo) =>
                             /\ Told(c, "value")' = j.packet.value
                             /\ c \in misled' \/ Told(c, "domain")' = j.packet.domain
    BY <1>0 DEF Sends
<1>2. k.method = "sendPacket" =>
          /\ k.packet.kind = "data"
          /\ \A c : ListedIn(c, k.todo) => /\ Told(c, "value") = k.packet.value
                                           /\ c \in misled \/ Told(c, "domain") = k.packet.domain
    BY <1>0 DEF Walking, Sends
<1>3. misled \subseteq misled'
    BY FrameStep
<1>4. CASE t # a
  <2>1. j = k
      BY <1>0, <1>4, StepFacts
  <2>2. \A c : ListedIn(c, k.todo) => /\ Told(c, "value")' = Told(c, "value")
                                      /\ Told(c, "domain")' = Told(c, "domain")
      BY <1>0, <1>1, <1>4, <2>1, WalkedUntold DEF Acquisition
  <2> QED
      BY <1>1, <1>2, <1>3, <2>1, <2>2
<1>5. CASE t = a /\ (EnqueueCheckActive(a) \/ EnqueuePush(a))
  <2>1. j.packet = k.packet /\ k.method = "sendPacket" /\ k.at \in Late
      BY <1>0, <1>1, <1>5, WalkFields DEF SameCall, Late
  <2>2. ASSUME NEW c, ListedIn(c, j.todo) PROVE ListedIn(c, k.todo)
    <3>1. \/ j.todo = k.todo
          \/ j.todo = Tail(k.todo) /\ k.todo # << >>
        BY <1>0, <1>5, WalkFields
    <3>2. k.todo \in Seq(Nat)
        BY <1>0, CallFields
    <3> QED
        BY <2>2, <3>1, <3>2, TailListed
  <2>3. ASSUME NEW c, ListedIn(c, k.todo), NEW f PROVE Told(c, f)' = Told(c, f)
    <3>1. c \in 1 .. Len(made)
        BY <1>0, <2>3 DEF CallOK, ListedIn
    <3> QED
        BY <1>0, <1>2, <1>5, <2>1, <3>1, ToldNext
  <2>4. \A c : ListedIn(c, j.todo) => /\ Told(c, "value")' = k.packet.value
                                      /\ c \in misled' \/ Told(c, "domain")' = k.packet.domain
      BY <1>2, <1>3, <2>1, <2>2, <2>3
  <2> QED
      BY <1>2, <2>1, <2>4
<1>6. CASE t = a /\ \E s \in Signals : SendPacket(a, s)
  <2>1. PICK s \in Signals : SendPacket(a, s)
      BY <1>6
  <2>2. /\ k = Idle /\ owner[s] = None /\ j.todo = connections[s]
        /\ j.packet = Data(dataDescriptor[s], DescriptorOf(domainSignal[s]))
      BY <1>0, <2>1, BeginFields
  <2>3. made' = made
      BY <2>1 DEF SendPacket
  <2>4. \A c : Told(c, "value")' = Told(c, "value") /\ Told(c, "domain")' = Told(c, "domain")
      BY <2>3 DEF Told
  <2>5. \A c : ListedIn(c, j.todo) =>
            /\ Told(c, "value") = dataDescriptor[s]
            /\ c \in misled \/ Told(c, "domain") = DescriptorOf(domainSignal[s])
      BY <1>0, <2>2, ToldWhenFree
  <2>6. /\ j.packet.kind = "data" /\ j.packet.value = dataDescriptor[s]
        /\ j.packet.domain = DescriptorOf(domainSignal[s])
      BY <2>2 DEF Data
  <2> QED
      BY <1>3, <2>4, <2>5, <2>6
<1> QED
    BY <1>0, <1>1, <1>4, <1>5, <1>6, StageSteps

(* The descriptor of a signal is changed by the acquisition thread only.   *)
LEMMA OthersSetNothing ==
    ASSUME PathTypes, NEW a \in Threads, OneAcquirer(a)', NEW t \in Threads, t # a,
           NewCall(t) \/ Continue(t)
    PROVE  dataDescriptor' = dataDescriptor
<1>1. ASSUME NEW s \in Signals, NEW x \in Descriptors, SetDescriptor(t, s, x) PROVE FALSE
  <2>1. thread'[t].method = "setDescriptor"
      BY <1>1, AfterNewCall
  <2> QED
      BY <2>1 DEF OneAcquirer, Acquisition
<1> QED
    BY <1>1, FrameStep

(* The event of the changed signal itself.                                 *)
LEMMA NextChangesRight ==
    ASSUME PathTypes, LocksHeld, LocksFull, CallsApart, NEW a \in Threads, OneAcquirer(a)', Changes(a),
           NEW t \in Threads, NewCall(t) \/ Continue(t)
    PROVE  Changes(a)'
<1>0. PICK k, j : k \in Call /\ k = thread[a] /\ j = thread'[a] /\ CallOK(k, Len(made))
              /\ HoldsRightly(a)
    BY CallFields DEF LocksHeld
<1>1. SUFFICES ASSUME j.method = "setDescriptor", j.at \in Late, owner'[j.s] = a
               PROVE  /\ j.packet = DescriptorChanged(dataDescriptor'[j.s], "same")
                      /\ \A c : ListedIn(c, j.todo) => made'[c].signal = j.s
    BY <1>0 DEF Changes, Changing, SetsDescriptor
<1>2. ASSUME k.method = "setDescriptor", k.at \in Late, owner[k.s] = a
      PROVE  /\ k.packet = DescriptorChanged(dataDescriptor[k.s], "same")
             /\ k.s \in Signals
             /\ \A c : ListedIn(c, k.todo) => made'[c].signal = k.s
  <2>1. /\ k.packet = DescriptorChanged(dataDescriptor[k.s], "same")
        /\ \A c : ListedIn(c, k.todo) => made[c].signal = k.s
      BY <1>0, <1>2 DEF Changes, Changing, SetsDescriptor
  <2>2. \A c : ListedIn(c, k.todo) => made'[c].signal = made[c].signal
    <3>1. \A c : ListedIn(c, k.todo) => c \in 1 .. Len(made)
        BY <1>0 DEF CallOK, ListedIn
    <3> QED
        BY <3>1, StepFacts
  <2> QED
      BY <1>0, <1>2, <2>1, <2>2 DEF CallOK
<1>3. CASE t # a
  <2>1. j = k /\ dataDescriptor' = dataDescriptor
      BY <1>0, <1>3, StepFacts, OthersSetNothing
  <2>2. owner[k.s] = a
    <3>1. k.s \in Components
        BY <1>0, <1>1, <2>1 DEF CallOK, Components
    <3> QED
        BY <1>1, <1>3, <2>1, <3>1, SameOwner
  <2> QED
      BY <1>1, <1>2, <2>1, <2>2
<1>4. CASE t = a /\ (EnqueueCheckActive(a) \/ EnqueuePush(a))
  <2>1. SameCall(k, j) /\ k.at \in Late
      BY <1>0, <1>4, WalkFields DEF Late
  <2>2. owner' = owner /\ dataDescriptor' = dataDescriptor
      BY <1>4 DEF EnqueueCheckActive, EnqueuePush, signalVars
  <2>3. \A c : ListedIn(c, j.todo) => ListedIn(c, k.todo)
    <3>1. \/ j.todo = k.todo
          \/ j.todo = Tail(k.todo) /\ k.todo # << >>
        BY <1>0, <1>4, WalkFields
    <3>2. k.todo \in Seq(Nat)
        BY <1>0, CallFields
    <3> QED
        BY <3>1, <3>2, TailListed
  <2> QED
      BY <1>1, <1>2, <2>1, <2>2, <2>3 DEF SameCall
<1>5. CASE t = a /\ \E s \in Signals, x \in Descriptors : SetDescriptor(a, s, x)
  <2>1. PICK s \in Signals, x \in Descriptors : SetDescriptor(a, s, x)
      BY <1>5
  <2>2. /\ owner[s] = None /\ dataDescriptor' = [dataDescriptor EXCEPT ![s] = x] /\ j.s = s
        /\ j.todo = connections[s] /\ j.packet = DescriptorChanged(x, "same")
      BY <1>0, <2>1, BeginFields
  <2>3. made' = made
      BY <2>1 DEF SetDescriptor
  <2>4. dataDescriptor'[s] = x
      BY <2>2 DEF PathTypes, TreeTypes
  <2> QED
      BY <2>2, <2>3, <2>4, FreeApart
<1>6. CASE t = a /\ SetDescriptorAnnounce(a)
  <2>1. j.s = k.s /\ k.at = "announce" /\ k.method = "setDescriptor"
      BY <1>0, <1>6, SetFields
  <2>2. owner' = owner
      BY <1>6 DEF SetDescriptorAnnounce
  <2>3. k.s \in Signals
      BY <1>0, <2>1 DEF CallOK
  <2>4. owner[k.s] # a
      BY <1>0, <2>1, <2>3 DEF HoldsRightly, UnderSignalLock
  <2> QED
      BY <1>1, <2>1, <2>2, <2>4
<1>7. CASE t = a /\ (SetDescriptorUnlock(a) \/ SetDescriptorRead(a) \/ SetDescriptorNext(a))
    BY <1>0, <1>1, <1>7, SetFields DEF Late
<1> QED
    BY <1>0, <1>1, <1>3, <1>4, <1>5, <1>6, <1>7, StageSteps

(* A connection that is listed was listed, or is being made.               *)
LEMMA ListedBefore ==
    ASSUME PathTypes, CallsApart, NEW t \in Threads, NewCall(t) \/ Continue(t),
           NEW c \in 1 .. Len(made), Listed(c)'
    PROVE  Listed(c) \/ (ConnectDescribe(t) /\ Connects(t, c))
<1>1. made'[c].signal = made[c].signal /\ made[c].signal \in Signals
  <2>1. made[c] \in Made
      BY DEF PathTypes, ConnectionTypes
  <2> QED
      BY <2>1, StepFacts DEF Made
<1>2. ListedIn(c, connections[made[c].signal]) \/ (ConnectDescribe(t) /\ c = thread[t].c)
    BY <1>1, ListMoves DEF Listed
<1>3. ConnectDescribe(t) => thread[t].method = "connect"
    BY DescribeFields, CallFields
<1> QED
    BY <1>2, <1>3 DEF Listed, Connects

(* When the domain signal of a listed connection changes the connection is *)
(* misled.                                                                 *)
LEMMA MisledOrSame ==
    ASSUME PathTypes, NEW t \in Threads, NewCall(t) \/ Continue(t), NEW c \in 1 .. Len(made), Listed(c)
    PROVE  c \in misled' \/ domainSignal'[made[c].signal] = domainSignal[made[c].signal]
<1>0. PICK k, j : k \in Call /\ k = thread[t] /\ j = thread'[t]
    BY CallFields
<1>1. domainSignal \in [Signals -> DomainSignals \cup {None}]
    BY DEF PathTypes, TreeTypes
<1>2. CASE SetDomainSignalUnref(t)
  <2>1. /\ \A x : ListedIn(x, connections[k.s]) => x \in misled'
        /\ domainSignal' = [domainSignal EXCEPT
               ![k.s] = IF k.rest = << >> THEN None ELSE Head(k.rest)]
      BY <1>0, <1>2, DomainFields
  <2>2. PICK y : domainSignal' = [domainSignal EXCEPT ![k.s] = y]
      BY <2>1
  <2> QED
      BY <1>1, <2>1, <2>2 DEF Listed
<1>3. CASE RemoveSignalForget(t)
  <2>1. /\ \A x : ListedIn(x, connections[Head(k.rest)]) => x \in misled'
        /\ domainSignal' = [domainSignal EXCEPT ![Head(k.rest)] = None]
      BY <1>0, <1>3, DomainFields
  <2> QED
      BY <1>1, <2>1 DEF Listed
<1> QED
    BY <1>2, <1>3, FrameStep

(* The connections of the value signal whose turn it is.                   *)
LEMMA AnnounceMisled ==
    ASSUME NEW a \in Threads, SetDescriptorAnnounce(a),
           NEW c, ListedIn(c, connections[Head(thread[a].rest)])
    PROVE  \/ c \in misled'
           \/ active[Head(thread[a].rest)] /\ domainSignal[Head(thread[a].rest)] = thread[a].s
<1>1. PICK v : v = Head(thread[a].rest)
    OBVIOUS
<1>2. misled' = IF active[v] /\ domainSignal[v] = thread[a].s THEN misled
                ELSE misled \cup {connections[v][i] : i \in DOMAIN connections[v]}
    BY <1>1 DEF SetDescriptorAnnounce
<1> QED
    BY <1>1, <1>2 DEF ListedIn

(* The events of the value signals.                                        *)
LEMMA NextAnnouncesRight ==
    ASSUME PathTypes, PathTypes', LocksHeld, LocksFull, CallsApart, NEW a \in Threads, OneAcquirer(a)',
           WalksApart(a), AnnouncesRight(a), NEW t \in Threads, NewCall(t) \/ Continue(t)
    PROVE  AnnouncesRight(a)'
<1>0. PICK k, j : k \in Call /\ k = thread[a] /\ j = thread'[a] /\ CallOK(k, Len(made))
    BY CallFields
<1> DEFINE Apart(i) == i.method = "setDescriptor" /\ i.at \in Late /\ owner[i.s] # a
           Right(c, i) == c \in misled \/ ~Listed(c) \/ domainSignal[made[c].signal] = i.s
<1>1. SUFFICES ASSUME Apart(j)' \/ j.at = "announce"
               PROVE  /\ j.packet = DescriptorChanged("same", dataDescriptor'[j.s])
                      /\ Apart(j)' => \A c : ListedIn(c, j.todo) => Right(c, j)'
    BY <1>0 DEF AnnouncesRight, Announcing, SetsDescriptor
<1>2. /\ Apart(k) \/ k.at = "announce" => k.packet = DescriptorChanged("same", dataDescriptor[k.s])
      /\ Apart(k) => \A c : ListedIn(c, k.todo) => Right(c, k)
    BY <1>0 DEF AnnouncesRight, Announcing, SetsDescriptor
<1>m. j.method = "setDescriptor"
  <2>1. CallOK(j, Len(made'))
      BY <1>0 DEF PathTypes, ThreadTypes
  <2>2. j.at = "announce" => j.method = "setDescriptor"
      BY <2>1 DEF CallOK
  <2> QED
      BY <1>1, <2>2
<1> HIDE DEF Apart, Right
<1>3. ASSUME Apart(k), NEW c, ListedIn(c, k.todo) PROVE Right(c, k)'
  <2>1. c \in 1 .. Len(made) /\ made'[c].signal = made[c].signal
      BY <1>0, <1>3, StepFacts DEF CallOK, ListedIn
  <2>2. k.method = "setDescriptor"
      BY <1>3 DEF Apart
  <2>3. ~Connects(t, c)
      BY <1>0, <1>3, <2>2 DEF WalksApart, Acquisition
  <2>4. c \in misled \/ ~Listed(c) \/ domainSignal[made[c].signal] = k.s
      BY <1>2, <1>3 DEF Right
  <2>5. ~Listed(c) => ~Listed(c)'
      BY <2>1, <2>3, ListedBefore
  <2>6. Listed(c) => c \in misled' \/ domainSignal'[made[c].signal] = domainSignal[made[c].signal]
      BY <2>1, MisledOrSame
  <2>7. misled \subseteq misled'
      BY FrameStep
  <2> QED
      BY <2>1, <2>4, <2>5, <2>6, <2>7 DEF Right
<1>4. CASE t # a
  <2>1. j = k /\ dataDescriptor' = dataDescriptor
      BY <1>0, <1>4, StepFacts, OthersSetNothing
  <2>2. Apart(k)' => Apart(k)
    <3>1. k.method = "setDescriptor" => k.s \in Components
        BY <1>0 DEF CallOK, Components
    <3> QED
        BY <1>4, <3>1, SameOwner DEF Apart
  <2> QED
      BY <1>1, <1>2, <1>3, <2>1, <2>2
<1>5. CASE t = a /\ (EnqueueCheckActive(a) \/ EnqueuePush(a))
  <2>1. SameCall(k, j) /\ k.at \in Late /\ j.at \in Late
      BY <1>0, <1>5, WalkFields DEF Late
  <2>2. owner' = owner /\ dataDescriptor' = dataDescriptor
      BY <1>5 DEF EnqueueCheckActive, EnqueuePush, signalVars
  <2>3. \A c : ListedIn(c, j.todo) => ListedIn(c, k.todo)
    <3>1. \/ j.todo = k.todo
          \/ j.todo = Tail(k.todo) /\ k.todo # << >>
        BY <1>0, <1>5, WalkFields
    <3>2. k.todo \in Seq(Nat)
        BY <1>0, CallFields
    <3> QED
        BY <3>1, <3>2, TailListed
  <2>4. Apart(k)
      BY <1>1, <2>1, <2>2 DEF Apart, SameCall, Late
  <2>5. \A c : Right(c, k)' => Right(c, j)'
      BY <2>1 DEF Right, SameCall
  <2> QED
      BY <1>2, <1>3, <2>1, <2>2, <2>3, <2>4, <2>5 DEF SameCall
<1>6. CASE t = a /\ \E s \in Signals, x \in Descriptors : SetDescriptor(a, s, x)
  <2>1. PICK s \in Signals : j.s = s /\ j.at = "enqueue" /\ owner' = [owner EXCEPT ![s] = a]
      BY <1>0, <1>6, BeginFields
  <2>2. owner'[j.s] = a
      BY <2>1 DEF PathTypes, TreeTypes, Components
  <2> QED
      BY <1>1, <2>1, <2>2 DEF Apart
<1>7. CASE t = a /\ SetDescriptorUnlock(a)
    BY <1>0, <1>1, <1>7, SetFields DEF Apart, Late
<1>8. CASE t = a /\ SetDescriptorRead(a)
  <2>1. /\ j.at = "announce" /\ j.s = k.s
        /\ j.packet = DescriptorChanged("same", dataDescriptor[k.s])
      BY <1>0, <1>8, SetFields
  <2>2. dataDescriptor' = dataDescriptor
      BY <1>8 DEF SetDescriptorRead, signalVars
  <2> QED
      BY <2>1, <2>2 DEF Apart, Late
<1>9. CASE t = a /\ SetDescriptorNext(a)
  <2>1. /\ j.at = "announce" /\ j.s = k.s /\ j.packet = k.packet
        /\ k.method = "setDescriptor" /\ k.at = "enqueue" /\ owner[k.s] # a
      BY <1>0, <1>9, SetFields
  <2>2. dataDescriptor' = dataDescriptor
      BY <1>9 DEF SetDescriptorNext, signalVars
  <2>3. Apart(k)
      BY <2>1 DEF Apart, Late
  <2> QED
      BY <1>2, <2>1, <2>2, <2>3 DEF Apart, Late
<1>10. CASE t = a /\ SetDescriptorAnnounce(a)
  <2>1. /\ k.at = "announce" /\ j.s = k.s /\ j.packet = k.packet /\ k.rest # << >>
        /\ owner[Head(k.rest)] = None
        /\ j.todo = connections[Head(k.rest)] \/ j.todo = << >>
      BY <1>0, <1>10, SetFields
  <2>2. dataDescriptor' = dataDescriptor /\ domainSignal' = domainSignal /\ made' = made
      BY <1>10 DEF SetDescriptorAnnounce, signalVars
  <2>3. Head(k.rest) \in Signals
      BY <1>0, <2>1, CallFields
  <2>4. ASSUME NEW c, ListedIn(c, j.todo) PROVE Right(c, j)'
    <3>1. ListedIn(c, connections[Head(k.rest)])
        BY <2>1, <2>4 DEF ListedIn
    <3>2. made[c].signal = Head(k.rest)
        BY <2>1, <2>3, <3>1, FreeApart
    <3>3. c \in misled' \/ domainSignal[Head(k.rest)] = k.s
        BY <1>0, <1>10, <3>1, AnnounceMisled
    <3> QED
        BY <2>1, <2>2, <3>2, <3>3 DEF Right
  <2> QED
      BY <1>2, <2>1, <2>2, <2>4
<1> QED
    BY <1>0, <1>m, <1>4, <1>5, <1>6, <1>7, <1>8, <1>9, <1>10, StageSteps

(* A new connection comes with a connect and an empty log.                 *)
LEMMA MadeNext ==
    ASSUME PathTypes, NEW t \in Threads, NewCall(t) \/ Continue(t), NEW c \in 1 .. Len(made')
    PROVE  \/ c \in 1 .. Len(made)
           \/ \E p \in Ports, s \in Signals :
                  /\ Connect(t, p, s) /\ c = Len(made) + 1
                  /\ made'[c] = [signal |-> s, port |-> p, log |-> << >>]
<1>0. made \in Seq(Made) /\ Len(made) \in Nat
    BY DEF PathTypes, ConnectionTypes
<1>1. CASE \E p \in Ports, s \in Signals : Connect(t, p, s)
  <2>1. PICK p \in Ports, s \in Signals : Connect(t, p, s)
      BY <1>1
  <2>2. PICK z : /\ z = [signal |-> s, port |-> p, log |-> << >>]
                 /\ made' = Append(made, z)
      BY <2>1 DEF Connect
  <2>3. Len(made') = Len(made) + 1 /\ made'[Len(made) + 1] = z
      BY <1>0, <2>2
  <2> QED
      BY <1>0, <2>1, <2>2, <2>3
<1>2. CASE EnqueuePush(t)
  <2>1. PICK b, x : made' = [made EXCEPT ![b].log = Append(@, x)]
      BY <1>2 DEF EnqueuePush
  <2>2. DOMAIN made' = DOMAIN made /\ made' \in Seq(Made)
      BY <2>1, MadeStep
  <2> QED
      BY <1>0, <2>2
<1>3. \/ \E p \in Ports, s \in Signals : Connect(t, p, s)
      \/ EnqueuePush(t)
      \/ made' = made
    BY DEF NewCall, Continue, SendPacket, SetDescriptor, Disconnect, RemovePort, RemoveSignal,
         SetActive, SetDomainSignal, EnqueueCheckActive, SendPacketEnd, SetDescriptorUnlock,
         SetDescriptorRead, SetDescriptorAnnounce, SetDescriptorNext, SetDescriptorEnd,
         ConnectPort, ConnectOld, ConnectListener, ConnectRegister, ConnectDescribe, ConnectEnd,
         DisconnectTell, RemovePortOld, RemoveSignalDisconnect, RemoveSignalClear,
         RemoveSignalForget, RemoveSignalEnd, SetDomainSignalUnref, SetDomainSignalRef
<1> QED
    BY <1>1, <1>2, <1>3

(* Only a connection made before is listed after a step.                   *)
LEMMA ListedMade ==
    ASSUME PathTypes, NEW t \in Threads, NewCall(t) \/ Continue(t), NEW c \in 1 .. Len(made'),
           Listed(c)'
    PROVE  c \in 1 .. Len(made)
<1>1. ASSUME NEW p \in Ports, NEW s \in Signals, Connect(t, p, s), c = Len(made) + 1,
             made'[c] = [signal |-> s, port |-> p, log |-> << >>]
      PROVE  FALSE
  <2>1. made'[c].signal = s /\ connections' = connections
      BY <1>1 DEF Connect
  <2>2. ListedIn(c, connections[s])
      BY <2>1 DEF Listed
  <2>3. c \in 1 .. Len(made) /\ Len(made) \in Nat
      BY <2>2 DEF ListedIn, PathTypes, ConnectionTypes
  <2> QED
      BY <1>1, <2>3
<1> QED
    BY <1>1, MadeNext

(* A first event waits until it is pushed.                                 *)
LEMMA IntroducesUntilPushed ==
    ASSUME PathTypes, NEW a \in Threads, FirstEvents(a), NEW t \in Threads, NewCall(t) \/ Continue(t),
           NEW c, NEW u \in Threads, Introduces(u, c)
    PROVE  Introduces(u, c)' \/ (u = t /\ EnqueuePush(t))
<1>1. CASE u # t
    BY <1>1, StepFacts DEF Introduces, Connects
<1>2. CASE u = t
  <2>0. PICK k, j : k \in Call /\ k = thread[t] /\ j = thread'[t]
      BY CallFields
  <2>1. k.method = "connect" /\ k.c = c /\ k.at \in Late /\ k.todo # << >>
      BY <1>2, <2>0 DEF Introduces, Connects
  <2>2. k.packet.kind = "event"
    <3>1. Introduces(t, thread[t].c)
        BY <1>2, <2>0, <2>1
    <3> QED
        BY <2>0, <3>1 DEF FirstEvents, FirstEvent
  <2>3. CASE EnqueueCheckActive(t)
    <3>1. SameCall(k, j) /\ j.at \in Late /\ j.todo = k.todo
        BY <2>0, <2>2, <2>3, WalkFields
    <3> QED
        BY <1>2, <2>0, <2>1, <3>1 DEF SameCall, Introduces, Connects
  <2>4. CASE ConnectEnd(t)
      BY <2>0, <2>1, <2>4 DEF ConnectEnd
  <2> QED
      BY <1>2, <2>0, <2>1, <2>3, <2>4, StageSteps
<1> QED
    BY <1>1, <1>2

(* What the first event of a connection tells it.                          *)
LEMMA IntroducedTold ==
    ASSUME PathTypes, LocksFull, CallsApart, DomainsKnown, NEW a \in Threads, OneAcquirer(a),
           OneAcquirer(a)', FirstEvents(a), NEW t \in Threads, EnqueuePush(t),
           NEW c \in 1 .. Len(made), Introduces(t, c)
    PROVE  ValueTold(a, c)' /\ DomainTold(a, c)'
<1>0. PICK k \in Call : k = thread[t] /\ CallOK(k, Len(made))
    BY CallFields
<1>n. NewCall(t) \/ Continue(t)
    BY DEF Continue
<1>1. k.method = "connect" /\ k.c = c /\ k.at = "push"
    BY <1>0 DEF Introduces, Connects, EnqueuePush
<1>2. /\ k.todo = <<c>> /\ k.packet.kind = "event" /\ k.packet.value = dataDescriptor[k.s]
      /\ k.packet.domain # "same" /\ DomainNews(a, k.s, k.packet.domain)
  <2>1. Introduces(t, thread[t].c)
      BY <1>0, <1>1
  <2> QED
      BY <1>0, <1>1, <2>1 DEF FirstEvents, FirstEvent
<1>3. made[c].signal = k.s /\ k.s \in Signals /\ made'[c].signal = k.s
  <2>1. made[c].signal = k.s
      BY <1>0, <1>1 DEF CallsApart
  <2>2. k.s \in Signals
      BY <1>0, <1>1 DEF CallOK
  <2> QED
      BY <1>n, <2>1, <2>2, StepFacts
<1>4. dataDescriptor' = dataDescriptor /\ domainSignal' = domainSignal
    BY DEF EnqueuePush, signalVars
<1>5. dataDescriptor[k.s] # "same"
    BY <1>3, SignalPathAssumption DEF PathTypes, TreeTypes
<1>6. Head(k.todo) = c
    BY <1>2
<1>7. ASSUME NEW f, k.packet[f] # "same" PROVE Told(c, f)' = k.packet[f]
    BY <1>0, <1>2, <1>6, <1>7, PushTold
<1>8. Told(c, "value")' = dataDescriptor[k.s] /\ Told(c, "domain")' = k.packet.domain
    BY <1>2, <1>5, <1>7
<1>9. DomainNews(a, k.s, k.packet.domain)'
  <2>1. owner[k.s] = t
      BY <1>0, <1>1 DEF LocksFull, HoldsFully
  <2>2. ~Between(k.s)
      BY <1>0, <1>1, <2>1, NotBetween
  <2>3. ~(t = a /\ SetDescriptorAnnounce(a))
      BY <1>0, <1>1 DEF SetDescriptorAnnounce
  <2>4. PICK x : x = k.packet.domain
      OBVIOUS
  <2>5. PICK v \in Signals : v = k.s /\ domainSignal'[v] = domainSignal[v]
      BY <1>3, <1>4
  <2>6. DomainNews(a, v, x)
      BY <1>2, <2>4, <2>5
  <2>7. DomainNews(a, v, x)' \/ Between(v)
      BY <1>n, <2>3, <2>5, <2>6, NewsKept
  <2> QED
      BY <2>2, <2>4, <2>5, <2>7, <1>0
<1> QED
    BY <1>3, <1>4, <1>8, <1>9 DEF ValueTold, DomainTold

(* What a push that is no first event tells a connection.                  *)
LEMMA PushTells ==
    ASSUME PathTypes, NEW a \in Threads, OneAcquirer(a), FirstEvents(a), Walking(a),
           NEW t \in Threads, EnqueuePush(t), NEW k \in Call, k = thread[t],
           NEW c \in 1 .. Len(made), c = Head(k.todo), ~Introduces(t, c)
    PROVE  /\ t = a /\ ListedIn(c, k.todo) /\ k.method \in Acquisition
           /\ \/ k.method = "sendPacket" /\ \A f : Told(c, f)' = Told(c, f)
              \/ /\ k.method = "setDescriptor" /\ Changing(a)
                 /\ Told(c, "value")' = dataDescriptor[k.s] /\ Told(c, "domain")' = Told(c, "domain")
              \/ /\ k.method = "setDescriptor" /\ Announcing(a)
                 /\ Told(c, "value")' = Told(c, "value") /\ Told(c, "domain")' = dataDescriptor[k.s]
<1>1. k.todo # << >> /\ k.todo \in Seq(Nat) /\ CallOK(k, Len(made))
    BY Pushes, CallFields
<1>2. ListedIn(c, k.todo)
    BY <1>1, TailLists
<1>3. \A f : Told(c, f)' = IF k.packet.kind = "event" /\ k.packet[f] # "same"
                           THEN k.packet[f] ELSE Told(c, f)
    BY PushTold
<1>4. k.method = "setDescriptor" => k.s \in Signals
    BY <1>1 DEF CallOK
<1>5. k.s \in Signals => dataDescriptor[k.s] # "same"
    BY SignalPathAssumption DEF PathTypes, TreeTypes
<1>6. CASE t = a /\ k.method = "sendPacket" /\ k.packet.kind = "data"
    BY <1>2, <1>3, <1>6 DEF Acquisition
<1>7. CASE t = a /\ Changing(a) /\ k.method = "setDescriptor"
                 /\ k.packet = DescriptorChanged(dataDescriptor[k.s], "same")
  <2>1. k.packet.kind = "event" /\ k.packet.value = dataDescriptor[k.s] /\ k.packet.domain = "same"
      BY <1>7 DEF DescriptorChanged
  <2> QED
      BY <1>2, <1>3, <1>4, <1>5, <1>7, <2>1 DEF Acquisition
<1>8. CASE t = a /\ Announcing(a) /\ k.method = "setDescriptor"
                 /\ k.packet = DescriptorChanged("same", dataDescriptor[k.s])
  <2>1. k.packet.kind = "event" /\ k.packet.value = "same" /\ k.packet.domain = dataDescriptor[k.s]
      BY <1>8 DEF DescriptorChanged
  <2> QED
      BY <1>2, <1>3, <1>4, <1>5, <1>8, <2>1 DEF Acquisition
<1>9. ~(Introduces(t, k.c) /\ Head(k.todo) = k.c)
    OBVIOUS
<1> QED
    BY <1>6, <1>7, <1>8, <1>9, Pushes

(* A connection that waits for an event of the acquisition thread goes on  *)
(* waiting, or is told by it.                                              *)
LEMMA WaitsOrTold ==
    ASSUME PathTypes, LocksFull, NEW a \in Threads, NEW t \in Threads, NewCall(t) \/ Continue(t),
           SetsDescriptor(a), thread[a].at \in Late, thread[a].packet.kind = "event",
           NEW c, ListedIn(c, thread[a].todo)
    PROVE  \/ /\ thread'[a].method = "setDescriptor" /\ thread'[a].s = thread[a].s
              /\ thread'[a].at \in Late /\ ListedIn(c, thread'[a].todo)
              /\ owner'[thread[a].s] = a <=> owner[thread[a].s] = a
           \/ t = a /\ EnqueuePush(t) /\ c = Head(thread[a].todo)
<1>k. PICK k, j : /\ k \in Call /\ k = thread[a] /\ j = thread'[a] /\ k.method = "setDescriptor"
                /\ k.at \in Late /\ k.packet.kind = "event" /\ ListedIn(c, k.todo)
    BY CallFields DEF SetsDescriptor
<1> SUFFICES \/ /\ j.method = k.method /\ j.s = k.s /\ j.at \in Late /\ ListedIn(c, j.todo)
                /\ owner'[k.s] = a <=> owner[k.s] = a
             \/ t = a /\ EnqueuePush(t) /\ c = Head(k.todo)
    BY <1>k
<1>0. CallOK(k, Len(made)) /\ k.todo \in Seq(Nat) /\ k.todo # << >>
    BY <1>k, CallFields DEF ListedIn
<1>s. k.s \in Components
    BY <1>k, <1>0 DEF CallOK, Components
<1>1. CASE t # a
  <2>1. j = k
      BY <1>k, <1>1, StepFacts
  <2> QED
      BY <1>k, <1>1, <1>s, <2>1, SameOwner
<1>2. CASE t = a /\ EnqueueCheckActive(t)
  <2>1. SameCall(k, j) /\ j.at \in Late /\ j.todo = k.todo
      BY <1>2, <1>k, WalkFields
  <2>2. owner' = owner
      BY <1>2 DEF EnqueueCheckActive
  <2> QED
      BY <1>k, <2>1, <2>2 DEF SameCall
<1>3. CASE t = a /\ EnqueuePush(t)
  <2>1. SameCall(k, j) /\ j.at \in Late /\ j.todo = Tail(k.todo)
      BY <1>3, <1>k, WalkFields DEF Late
  <2>2. owner' = owner
      BY <1>3 DEF EnqueuePush
  <2>3. c = Head(k.todo) \/ ListedIn(c, Tail(k.todo))
      BY <1>k, <1>0, TailLists
  <2> QED
      BY <1>3, <2>1, <2>2, <2>3 DEF SameCall
<1>4. CASE t = a /\ (SetDescriptorUnlock(t) \/ SetDescriptorNext(t))
    BY <1>0, <1>4, <1>k, SetFields
<1>5. CASE t = a /\ (SetDescriptorRead(t) \/ SetDescriptorAnnounce(t) \/ SetDescriptorEnd(t))
    BY <1>5, <1>k, SetFields DEF Late
<1> QED
    BY <1>k, <1>1, <1>2, <1>3, <1>4, <1>5, StageSteps

(* A connection told of the descriptor of its signal stays so, unless the  *)
(* descriptor is changed; then it waits for the event.                     *)
LEMMA NextValueTold ==
    ASSUME PathTypes, LocksFull, NEW a \in Threads, OneAcquirer(a), OneAcquirer(a)',
           FirstEvents(a), Walking(a), NEW t \in Threads, NewCall(t) \/ Continue(t),
           NEW c \in 1 .. Len(made), Listed(c), ~Introduces(t, c), ValueTold(a, c)
    PROVE  ValueTold(a, c)'
<1>0. PICK k, j : k \in Call /\ k = thread[a] /\ j = thread'[a] /\ CallOK(k, Len(made))
    BY CallFields
<1>s. PICK s \in Signals : made[c].signal = s /\ made'[c].signal = s
  <2>0. made[c] \in Made
      BY DEF PathTypes, ConnectionTypes
  <2>1. made[c].signal \in Signals
      BY <2>0 DEF Made
  <2>2. made'[c].signal = made[c].signal
      BY StepFacts
  <2> QED
      BY <2>1, <2>2
<1> DEFINE Waits(i) == i.method = "setDescriptor" /\ i.at \in Late /\ owner[i.s] = a
                       /\ i.s = s /\ ListedIn(c, i.todo)
<1>1. SUFFICES Told(c, "value")' = dataDescriptor'[s] \/ Waits(j)'
    BY <1>0, <1>s DEF ValueTold, Changing, SetsDescriptor
<1>2. Told(c, "value") = dataDescriptor[s] \/ Waits(k)
    BY <1>0, <1>s DEF ValueTold, Changing, SetsDescriptor
<1> HIDE DEF Waits
<1>3. CASE \E r \in Signals, x \in Descriptors : SetDescriptor(t, r, x)
  <2>1. t = a
    <3>1. thread'[t].method = "setDescriptor"
        BY <1>3, AfterNewCall
    <3> QED
        BY <3>1 DEF OneAcquirer, Acquisition
  <2>2. PICK r \in Signals, x \in Descriptors :
            /\ k = Idle /\ owner' = [owner EXCEPT ![r] = a]
            /\ dataDescriptor' = [dataDescriptor EXCEPT ![r] = x]
            /\ j.method = "setDescriptor" /\ j.at = "enqueue" /\ j.s = r /\ j.todo = connections[r]
      BY <1>0, <1>3, <2>1, BeginFields
  <2>3. ~Waits(k)
      BY <2>2, IdleFields DEF Waits
  <2>4. CASE r = s
    <3>1. owner'[r] = a
        BY <2>2 DEF PathTypes, TreeTypes, Components
    <3>2. ListedIn(c, j.todo)
        BY <1>s, <2>2, <2>4 DEF Listed
    <3> QED
        BY <2>2, <2>4, <3>1, <3>2 DEF Waits, Late
  <2>5. CASE r # s
    <3>1. dataDescriptor'[s] = dataDescriptor[s]
        BY <2>2, <2>5 DEF PathTypes, TreeTypes
    <3>2. ~EnqueuePush(t)
        BY <1>0, <2>1, <2>2, IdleFields DEF EnqueuePush
    <3>3. Told(c, "value")' = Told(c, "value")
        BY <3>2, ToldNext
    <3> QED
        BY <1>2, <2>3, <3>1, <3>3
  <2> QED
      BY <2>4, <2>5
<1>4. CASE dataDescriptor' = dataDescriptor
  <2>1. ASSUME EnqueuePush(t), c = Head(thread[t].todo), Told(c, "value") = dataDescriptor[s]
        PROVE  Told(c, "value")' = dataDescriptor[s]
    <3>1. PICK i \in Call : i = thread[t]
        BY CallFields
    <3>2. /\ t = a /\ ListedIn(c, i.todo)
          /\ \/ Told(c, "value")' = Told(c, "value")
             \/ Changing(a) /\ Told(c, "value")' = dataDescriptor[i.s]
        BY <2>1, <3>1, PushTells
    <3>3. Changing(a) => made[c].signal = i.s
        BY <3>1, <3>2 DEF Walking, Changes
    <3> QED
        BY <1>s, <2>1, <3>2, <3>3
  <2>2. CASE Told(c, "value") = dataDescriptor[s]
      BY <1>4, <2>1, <2>2, ToldNext
  <2>3. CASE Waits(k)
    <3>1. /\ k.method = "setDescriptor" /\ k.at \in Late /\ owner[k.s] = a /\ k.s = s
          /\ ListedIn(c, k.todo)
        BY <2>3 DEF Waits
    <3>2. k.packet = DescriptorChanged(dataDescriptor[s], "same")
        BY <1>0, <3>1 DEF Walking, Changes, Changing, SetsDescriptor
    <3>3. /\ k.packet.kind = "event" /\ k.packet.value = dataDescriptor[s]
          /\ dataDescriptor[s] # "same"
        BY <3>2, SignalPathAssumption DEF DescriptorChanged, PathTypes, TreeTypes
    <3>4. CASE /\ j.method = k.method /\ j.s = k.s /\ j.at \in Late /\ ListedIn(c, j.todo)
               /\ owner'[k.s] = a
        BY <3>1, <3>4 DEF Waits
    <3>5. CASE t = a /\ EnqueuePush(t) /\ c = Head(k.todo)
      <4>1. Told(c, "value")' = k.packet.value
          BY <1>0, <3>3, <3>5, PushTold
      <4> QED
          BY <1>4, <3>3, <4>1
    <3>6. \/ /\ j.method = k.method /\ j.s = k.s /\ j.at \in Late /\ ListedIn(c, j.todo)
             /\ owner'[k.s] = a <=> owner[k.s] = a
          \/ t = a /\ EnqueuePush(t) /\ c = Head(k.todo)
      <4>1. k \in Call /\ k = thread[a] /\ j = thread'[a] /\ k.packet.kind = "event"
          BY <1>0, <3>3
      <4>2. k.method = "setDescriptor" /\ k.at \in Late /\ ListedIn(c, k.todo)
          BY <3>1
      <4> QED
          BY <4>1, <4>2, WaitsOrTold DEF SetsDescriptor
    <3> QED
        BY <3>1, <3>4, <3>5, <3>6
  <2> QED
      BY <1>2, <2>2, <2>3
<1> QED
    BY <1>3, <1>4, FrameStep

(* A connection told of the domain descriptor of its signal stays so, until *)
(* that is changed: then it waits for the event, or was not told.          *)
LEMMA NextDomainTold ==
    ASSUME PathTypes, LocksHeld, LocksFull, DomainsKnown, NEW a \in Threads, OneAcquirer(a),
           OneAcquirer(a)', FirstEvents(a), Walking(a), NEW t \in Threads, NewCall(t) \/ Continue(t),
           NEW c \in 1 .. Len(made), Listed(c), ~Introduces(t, c), DomainTold(a, c)
    PROVE  DomainTold(a, c)'
<1>0. PICK k, j : k \in Call /\ k = thread[a] /\ j = thread'[a] /\ CallOK(k, Len(made))
    BY CallFields
<1>s. PICK v \in Signals : made[c].signal = v /\ made'[c].signal = v
  <2>0. made[c] \in Made
      BY DEF PathTypes, ConnectionTypes
  <2>1. made[c].signal \in Signals
      BY <2>0 DEF Made
  <2>2. made'[c].signal = made[c].signal
      BY StepFacts
  <2> QED
      BY <2>1, <2>2
<1> DEFINE Waits(i) == i.method = "setDescriptor" /\ i.at \in Late /\ owner[i.s] # a
                       /\ i.s = domainSignal[v] /\ ListedIn(c, i.todo)
<1>1. SUFFICES c \in misled' \/ DomainNews(a, v, Told(c, "domain"))' \/ Waits(j)'
    BY <1>0, <1>s DEF DomainTold, Announcing, SetsDescriptor
<1>2. c \in misled \/ DomainNews(a, v, Told(c, "domain")) \/ Waits(k)
    BY <1>0, <1>s DEF DomainTold, Announcing, SetsDescriptor
<1> HIDE DEF Waits
<1>3. SUFFICES ASSUME c \notin misled'
               PROVE  DomainNews(a, v, Told(c, "domain"))' \/ Waits(j)'
    OBVIOUS
<1>4. c \notin misled /\ domainSignal'[v] = domainSignal[v] /\ ListedIn(c, connections[v])
    BY <1>3, <1>s, FrameStep, MisledOrSame DEF Listed
<1>5. ~Between(v)
    BY <1>4 DEF Between, DomainsKnown, ChangesDomain
<1>6. CASE DomainNews(a, v, Told(c, "domain")) /\ Told(c, "domain")' = Told(c, "domain")
  <2>1. PICK x : x = Told(c, "domain") /\ DomainNews(a, v, x)
      BY <1>6
  <2>2. CASE DomainNews(a, v, x)'
      BY <1>6, <2>1, <2>2 DEF DomainNews, Announces, Changing, SetsDescriptor, DescriptorOf
  <2>3. CASE t = a /\ SetDescriptorAnnounce(a) /\ v = Head(thread[a].rest)
    <3>1. active[v] /\ domainSignal[v] = k.s
        BY <1>0, <1>3, <1>4, <2>3, AnnounceMisled
    <3>2. /\ k.at = "announce" /\ j.method = "setDescriptor" /\ j.at = "enqueue" /\ j.s = k.s
          /\ j.todo = connections[v]
        BY <1>0, <2>3, <3>1, SetFields
    <3>3. k.s \in Signals
        BY <1>0, <3>2 DEF CallOK
    <3>4. owner[k.s] # a
        BY <1>0, <3>2, <3>3 DEF LocksHeld, HoldsRightly, UnderSignalLock
    <3>5. owner' = owner
        BY <2>3 DEF SetDescriptorAnnounce
    <3> QED
        BY <1>4, <3>1, <3>2, <3>4, <3>5 DEF Waits, Late
  <2> QED
      BY <1>4, <1>5, <2>1, <2>2, <2>3, NewsKept
<1>7. CASE Waits(k)
  <2>1. /\ k.method = "setDescriptor" /\ k.at \in Late /\ owner[k.s] # a /\ k.s = domainSignal[v]
        /\ ListedIn(c, k.todo)
      BY <1>7 DEF Waits
  <2>2. k.packet = DescriptorChanged("same", dataDescriptor[k.s]) /\ k.s \in Signals
      BY <1>0, <2>1 DEF Walking, AnnouncesRight, Announcing, SetsDescriptor, CallOK
  <2>3. /\ k.packet.kind = "event" /\ k.packet.domain = dataDescriptor[k.s]
        /\ dataDescriptor[k.s] # "same"
      BY <2>2, SignalPathAssumption DEF DescriptorChanged, PathTypes, TreeTypes
  <2>4. CASE /\ j.method = "setDescriptor" /\ j.s = k.s /\ j.at \in Late /\ ListedIn(c, j.todo)
             /\ owner'[k.s] # a
      BY <1>4, <2>1, <2>4 DEF Waits
  <2>5. CASE t = a /\ EnqueuePush(t) /\ c = Head(k.todo)
    <3>1. Told(c, "domain")' = dataDescriptor[k.s]
        BY <1>0, <2>3, <2>5, PushTold
    <3>2. dataDescriptor' = dataDescriptor /\ k.s # None
        BY <2>2, <2>5, SignalPathAssumption DEF EnqueuePush, signalVars, Components
    <3>3. Told(c, "domain")' = DescriptorOf(domainSignal[v])'
        BY <1>4, <2>1, <3>1, <3>2 DEF DescriptorOf
    <3> QED
        BY <3>3 DEF DomainNews
  <2>6. \/ /\ j.method = "setDescriptor" /\ j.s = k.s /\ j.at \in Late /\ ListedIn(c, j.todo)
           /\ owner'[k.s] = a <=> owner[k.s] = a
        \/ t = a /\ EnqueuePush(t) /\ c = Head(k.todo)
    <3>1. k = thread[a] /\ j = thread'[a] /\ k.packet.kind = "event"
        BY <1>0, <2>3
    <3>2. k.method = "setDescriptor" /\ k.at \in Late /\ ListedIn(c, k.todo)
        BY <2>1
    <3> QED
        BY <3>1, <3>2, WaitsOrTold DEF SetsDescriptor
  <2> QED
      BY <2>1, <2>4, <2>5, <2>6
<1>8. CASE EnqueuePush(t) /\ c = Head(thread[t].todo) /\ Told(c, "domain")' # Told(c, "domain")
  <2>1. PICK i \in Call : i = thread[t]
      BY CallFields
  <2>2. /\ t = a /\ ListedIn(c, i.todo) /\ Announcing(a) /\ i.method = "setDescriptor"
        /\ Told(c, "domain")' = dataDescriptor[i.s]
      BY <1>8, <2>1, PushTells
  <2>3. domainSignal[v] = i.s /\ i.s \in Signals
    <3>1. domainSignal[v] = i.s
        BY <1>s, <1>4, <2>1, <2>2 DEF Walking, AnnouncesRight
    <3> QED
        BY <1>0, <2>1, <2>2, <3>1 DEF CallOK
  <2>4. dataDescriptor' = dataDescriptor /\ i.s # None
      BY <1>8, <2>3, SignalPathAssumption DEF EnqueuePush, signalVars, Components
  <2>5. Told(c, "domain")' = DescriptorOf(domainSignal[v])'
      BY <1>4, <2>2, <2>3, <2>4 DEF DescriptorOf
  <2> QED
      BY <2>5 DEF DomainNews
<1> QED
    BY <1>2, <1>4, <1>6, <1>7, <1>8, ToldNext

(* A connection that is listed was told its descriptors, or will be.       *)
LEMMA NextListedTold ==
    ASSUME PathTypes, LocksHeld, LocksFull, CallsApart, DomainsKnown,
           NEW a \in Threads, OneAcquirer(a), OneAcquirer(a)', FirstEvents(a), Walking(a),
           ListedTold(a), NEW t \in Threads, NewCall(t) \/ Continue(t)
    PROVE  ListedTold(a)'
<1>1. SUFFICES ASSUME NEW c \in 1 .. Len(made'), Listed(c)', ~\E u \in Threads : Introduces(u, c)'
               PROVE  ValueTold(a, c)' /\ DomainTold(a, c)'
    BY DEF ListedTold
<1>2. c \in 1 .. Len(made)
    BY <1>1, ListedMade
<1>3. CASE ConnectDescribe(t) /\ Connects(t, c)
  <2>1. PICK k, j : k \in Call /\ k = thread[t] /\ j = thread'[t]
      BY CallFields
  <2>2. j.at = "enqueue" /\ j.method = "connect" /\ j.c = k.c /\ j.todo = <<k.c>>
    <3>1. ConnectDescribe(t)
        BY <1>3
    <3> QED
        BY <2>1, <3>1, DescribeFields
  <2>3. Introduces(t, c)'
      BY <1>3, <2>1, <2>2 DEF Introduces, Connects, Late
  <2> QED
      BY <1>1, <2>3
<1>4. CASE Listed(c)
  <2>1. CASE \E u \in Threads : Introduces(u, c)
    <3>1. Introduces(t, c) /\ EnqueuePush(t)
        BY <1>1, <2>1, IntroducesUntilPushed
    <3> QED
        BY <1>2, <3>1, IntroducedTold
  <2>2. CASE ~\E u \in Threads : Introduces(u, c)
    <3>1. ValueTold(a, c) /\ DomainTold(a, c) /\ ~Introduces(t, c)
        BY <1>2, <1>4, <2>2 DEF ListedTold
    <3>2. ValueTold(a, c)'
        BY <1>2, <1>4, <3>1, NextValueTold
    <3>3. DomainTold(a, c)'
        BY <1>2, <1>4, <3>1, NextDomainTold
    <3> QED
        BY <3>2, <3>3
  <2> QED
      BY <2>1, <2>2
<1> QED
    BY <1>1, <1>2, <1>3, <1>4, ListedBefore

(* A data packet is pushed under the descriptors it carries.               *)
LEMMA NextData ==
    ASSUME PathTypes, NEW a \in Threads, OneAcquirer(a), FirstEvents(a), Walking(a),
           DataUnderItsDescriptors, NEW t \in Threads, NewCall(t) \/ Continue(t), PathTypes'
    PROVE  DataUnderItsDescriptors'
<1> DEFINE Right(log, i, ok) == /\ LastTold(log, i, "value") = log[i].value
                                /\ ok \/ LastTold(log, i, "domain") = log[i].domain
<1>1. SUFFICES ASSUME NEW c \in DOMAIN made', NEW i \in DOMAIN made'[c].log,
                      made'[c].log[i].kind = "data"
               PROVE  Right(made'[c].log, i, c \in misled')
    BY DEF DataUnderItsDescriptors
<1>2. misled \subseteq misled'
    BY FrameStep
<1>3. c \in 1 .. Len(made')
    BY DEF PathTypes, ConnectionTypes
<1>4. ASSUME NEW b \in 1 .. Len(made), NEW n \in DOMAIN made[b].log, made[b].log[n].kind = "data"
      PROVE  Right(made[b].log, n, b \in misled)
  <2>1. b \in DOMAIN made
      BY DEF PathTypes, ConnectionTypes
  <2> QED
      BY <1>4, <2>1 DEF DataUnderItsDescriptors
<1> HIDE DEF Right
<1>5. CASE c \notin 1 .. Len(made)
  <2>1. PICK p \in Ports, s \in Signals : made'[c] = [signal |-> s, port |-> p, log |-> << >>]
      BY <1>3, <1>5, MadeNext
  <2>2. made'[c].log = << >>
      BY <2>1
  <2> QED
      BY <1>1, <2>2
<1>6. CASE c \in 1 .. Len(made) /\ made'[c].log = made[c].log
  <2>1. Right(made[c].log, i, c \in misled)
      BY <1>1, <1>4, <1>6
  <2> QED
      BY <1>2, <1>6, <2>1 DEF Right
<1>7. CASE /\ c \in 1 .. Len(made) /\ EnqueuePush(t) /\ c = Head(thread[t].todo)
           /\ made'[c].log = Append(made[c].log, thread[t].packet)
  <2>1. PICK p \in Seq(Packet), x \in Packet : p = made[c].log /\ x = thread[t].packet
      BY <1>7, LogStep, CallFields
  <2>2. PICK n \in Nat : n = Len(p) /\ DOMAIN p = 1 .. n
      BY <2>1
  <2>3. PICK q : q = Append(p, x) /\ made'[c].log = q
      BY <1>7, <2>1
  <2>4. DOMAIN q = 1 .. n + 1 /\ q[n + 1] = x /\ \A m \in 1 .. n : q[m] = p[m]
    <3>1. p \in Seq(Packet) /\ x \in Packet
        BY <2>1
    <3> QED
        BY <2>2, <2>3, <3>1
  <2>5. ASSUME NEW m \in 0 .. n, NEW f PROVE LastTold(q, m, f) = LastTold(p, m, f)
    <3>1. p \in Seq(Packet) /\ x \in Packet /\ m \in 0 .. Len(p)
        BY <2>1, <2>2
    <3>2. LastTold(Append(p, x), m, f) = LastTold(p, m, f)
        BY <3>1, LastToldSame
    <3> QED
        BY <2>3, <3>2, Zenon
  <2>6. SUFFICES Right(q, i, c \in misled')
      BY <2>3
  <2>7. i \in 1 .. n + 1 /\ q[i].kind = "data"
      BY <1>1, <2>3, <2>4
  <2>8. CASE i \in 1 .. n
    <3>1. q[i] = p[i] /\ i \in DOMAIN p /\ p[i].kind = "data" /\ i \in 0 .. n
        BY <2>2, <2>4, <2>7, <2>8
    <3>2. Right(p, i, c \in misled)
        BY <1>4, <1>7, <2>1, <3>1
    <3>3. LastTold(q, i, "value") = LastTold(p, i, "value") /\ LastTold(q, i, "domain") = LastTold(p, i, "domain")
        BY <2>5, <3>1
    <3> QED
        BY <1>2, <3>1, <3>2, <3>3 DEF Right
  <2>9. CASE i = n + 1
    <3>1. x.kind = "data" /\ q[i] = x
        BY <2>4, <2>7, <2>9
    <3>2. PICK k \in Call : k = thread[t] /\ k.packet = x
        BY <2>1, CallFields
    <3>3. t = a /\ k.method = "sendPacket" /\ k.todo # << >>
      <4>1. x # DescriptorChanged(dataDescriptor[k.s], "same") /\ x # DescriptorChanged("same", dataDescriptor[k.s])
          BY <3>1 DEF DescriptorChanged
      <4> QED
          BY <1>7, <3>1, <3>2, <4>1, Pushes
    <3>4. ListedIn(c, k.todo)
        BY <1>7, <3>2, <3>3, CallFields, TailLists
    <3>5. Told(c, "value") = x.value /\ (c \in misled \/ Told(c, "domain") = x.domain)
        BY <3>2, <3>3, <3>4 DEF Walking, Sends
    <3>6. ASSUME NEW f PROVE LastTold(q, n + 1, f) = Told(c, f)
      <4>1. LastTold(q, n + 1, f) = IF q[n + 1].kind = "event" /\ q[n + 1][f] # "same"
                                    THEN q[n + 1][f] ELSE LastTold(q, n, f)
          BY LastToldNext, Zenon
      <4>2. q[n + 1].kind # "event" /\ n \in 0 .. n
          BY <3>1, <2>9
      <4>3. LastTold(q, n, f) = LastTold(p, n, f)
          BY <2>5, <4>2
      <4> QED
          BY <2>1, <2>2, <4>1, <4>2, <4>3 DEF Told
    <3> QED
        BY <1>2, <2>9, <3>1, <3>5, <3>6 DEF Right
  <2> QED
      BY <2>7, <2>8, <2>9
<1> QED
    BY <1>5, <1>6, <1>7, LogStep

(* At first there are no calls and no connections.                         *)
LEMMA InitDescriptors ==
    ASSUME PathInit, NEW a \in Threads
    PROVE  DescriptorInv(a)
<1>1. /\ \A t \in Threads : thread[t] = Idle
      /\ made = << >> /\ domainSignal = [s \in Signals |-> IF s \in ValueSignals THEN FirstDomain ELSE None]
      /\ domainSignalReferences = [s \in Signals |-> IF s = FirstDomain THEN ValueSignals ELSE {}]
    BY DEF PathInit
<1>2. \A t \in Threads : /\ thread[t].method = "none" /\ thread[t].at = "idle"
                         /\ thread[t].todo = << >>
    BY <1>1, IdleFields
<1>3. OneAcquirer(a)
    BY <1>2 DEF OneAcquirer, Acquisition
<1>4. DomainsKnown
  <2>1. \A v \in ValueSignals : KnowsItsDomain(v)
      BY <1>1, SignalPathAssumption DEF KnowsItsDomain, Signals
  <2>2. \A t \in Threads : ChangesDomain(t) /\ ForgetsDomain(t)
      BY <1>2 DEF ChangesDomain, ForgetsDomain
  <2> QED
      BY <2>1, <2>2 DEF DomainsKnown
<1>5. FirstEvents(a)
    BY <1>2 DEF FirstEvents, FirstEvent, Introduces
<1>6. Walking(a)
    BY <1>2 DEF Walking, WalksApart, Sends, Changes, AnnouncesRight, Changing, Announcing,
                SetsDescriptor, Acquisition
<1>7. ListedTold(a) /\ DataUnderItsDescriptors
  <2>1. 1 .. Len(made) = {} /\ DOMAIN made = {}
      BY <1>1
  <2> QED
      BY <2>1 DEF ListedTold, DataUnderItsDescriptors
<1> QED
    BY <1>3, <1>4, <1>5, <1>6, <1>7 DEF DescriptorInv

(* Every step keeps what the descriptors rest on.                          *)
LEMMA NextDescriptors ==
    ASSUME PathTypes, PathTypes', LocksHeld, LocksFull, CallsApart, NEW a \in Threads,
           \A t \in Threads \ {a} : Operations[t] \cap Acquisition = {},
           DescriptorInv(a), [PathNext]_pathVars
    PROVE  DescriptorInv(a)'
<1>1. CASE UNCHANGED pathVars
    BY <1>1 DEF pathVars, signalVars, told, tree, DescriptorInv, OneAcquirer, DomainsKnown,
         KnowsItsDomain, ChangesDomain, ForgetsDomain, Between, FirstEvents, FirstEvent, Introduces,
         Connects, DomainNews, DescriptorOf, Announces, Changing, SetsDescriptor, Walking,
         WalksApart, Sends, Changes, AnnouncesRight, Announcing, Told, Listed, ListedTold,
         ValueTold, DomainTold, DataUnderItsDescriptors
<1>2. ASSUME NEW t \in Threads, NewCall(t) \/ Continue(t) PROVE DescriptorInv(a)'
  <2>0. /\ OneAcquirer(a) /\ DomainsKnown /\ FirstEvents(a) /\ Walking(a) /\ ListedTold(a)
        /\ DataUnderItsDescriptors
      BY DEF DescriptorInv
  <2>1. OneAcquirer(a)'
      BY <1>2, <2>0, NextAcquirer
  <2>2. DomainsKnown'
      BY <1>2, <2>0, NextDomains
  <2>3. FirstEvents(a)'
    <3>1. ASSUME NEW u \in Threads PROVE FirstEvent(a, u)'
        BY <1>2, <2>0, <2>1, NextFirst
    <3> QED
        BY <3>1 DEF FirstEvents
  <2>4. Walking(a)'
    <3>0. WalksApart(a) /\ Changes(a) /\ AnnouncesRight(a)
        BY <2>0 DEF Walking
    <3>1. WalksApart(a)'
        BY <1>2, <3>0, NextWalksApart
    <3>2. Sends(a)'
        BY <1>2, <2>0, NextSends
    <3>3. Changes(a)'
        BY <1>2, <2>1, <3>0, NextChangesRight
    <3>4. AnnouncesRight(a)'
        BY <1>2, <2>1, <3>0, NextAnnouncesRight
    <3> QED
        BY <3>1, <3>2, <3>3, <3>4 DEF Walking
  <2>5. ListedTold(a)'
      BY <1>2, <2>0, <2>1, NextListedTold
  <2>6. DataUnderItsDescriptors'
      BY <1>2, <2>0, NextData
  <2> QED
      BY <2>1, <2>2, <2>3, <2>4, <2>5, <2>6 DEF DescriptorInv
<1> QED
    BY <1>1, <1>2 DEF PathNext

(* Data comes under its descriptors when thread a alone acquires.          *)
LEMMA DescribedByOne ==
    ASSUME NEW a \in Threads,
           \A t \in Threads \ {a} : Operations[t] \cap {"sendPacket", "setDescriptor"} = {}
    PROVE  PathSpec => []DataUnderItsDescriptors
<1> DEFINE Inv == PathTypes /\ LocksHeld /\ LocksFull /\ EndsInv /\ DescriptorInv(a)
<1>0. \A t \in Threads \ {a} : Operations[t] \cap Acquisition = {}
    BY DEF Acquisition
<1>1. PathInit => Inv
    BY InitPathTypes, InitLocks, InitLocksFull, InitEnds, InitDescriptors
<1>2. Inv /\ [PathNext]_pathVars => Inv'
  <2> SUFFICES ASSUME Inv, [PathNext]_pathVars PROVE Inv'
      OBVIOUS
  <2>1. PathTypes' /\ LocksHeld' /\ LocksFull' /\ EndsInv'
      BY NextPathTypes, NextLocks, NextLocksFull, NextEnds
  <2>2. CallsApart
      BY DEF EndsInv
  <2>3. DescriptorInv(a)'
      BY <1>0, <2>1, <2>2, NextDescriptors
  <2> QED
      BY <2>1, <2>3
<1>3. Inv => DataUnderItsDescriptors
    BY DEF DescriptorInv
<1> QED
    BY <1>1, <1>2, <1>3, PTL DEF PathSpec

(* Whatever the interleaving of acquisition and reconfiguration, a data    *)
(* packet reaches a connection under the descriptors it carries, when one  *)
(* thread acquires: sends the packets and sets the descriptors.            *)
THEOREM DataAlwaysDescribed ==
    ASSUME OneAcquisitionThread
    PROVE  PathSpec => []DataUnderItsDescriptors
<1>1. PICK a \in Threads :
          \A t \in Threads \ {a} : Operations[t] \cap {"sendPacket", "setDescriptor"} = {}
    BY DEF OneAcquisitionThread
<1> QED
    BY <1>1, DescribedByOne
=============================================================================
