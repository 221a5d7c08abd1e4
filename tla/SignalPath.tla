------------------------------ MODULE SignalPath ------------------------------
(***************************************************************************)
(* Signals, input ports and the connections between them: SignalBase and   *)
(* GenericInputPortImpl of core/opendaq/signal, with the mutex of every    *)
(* component.  A thread that runs one of their methods is in a stage of    *)
(* its own; a step ends where the code takes a lock, gives one back, calls *)
(* a listener or leaves a window another thread can enter.                 *)
(*                                                                         *)
(* A connection is held by the list of its signal (and by the threads that *)
(* use it); the port keeps a weak reference.  What a connection does with  *)
(* its packets is module Connection: here a connection is the log of the   *)
(* packets it accepted.                                                    *)
(***************************************************************************)
EXTENDS Integers, Sequences, FiniteSets

CONSTANTS
    ValueSignals,       \* signals with a domain signal
    DomainSignals,      \* the domain signals
    FirstDomain,        \* the domain signal every value signal starts with
    Ports,
    Descriptors, FirstDescriptor,
    Threads,
    Operations,         \* thread -> the methods it calls
    MaxCalls,           \* bound: thread -> number of calls it makes
    MaxConnections,     \* bound: connections made in one behaviour
    None                \* no thread, no signal, no component

Signals == ValueSignals \cup DomainSignals
Components == Signals \cup Ports

Methods == {"sendPacket", "setDescriptor", "setDomainSignal", "setActive",
            "connect", "disconnect", "removeSignal", "removePort"}

ASSUME SignalPathAssumption ==
    /\ ValueSignals \cap DomainSignals = {} /\ Signals \cap Ports = {}
    /\ IsFiniteSet(ValueSignals)
    /\ FirstDomain \in DomainSignals /\ FirstDescriptor \in Descriptors
    /\ Operations \in [Threads -> SUBSET Methods]
    /\ MaxCalls \in [Threads -> Nat] /\ MaxConnections \in Nat
    /\ None \notin Components \cup Threads
    /\ {"same", "null"} \cap Descriptors = {}

VARIABLES
    owner,                      \* component -> the thread that holds its mutex
    active, isComponentRemoved, \* of every component
    dataDescriptor, domainSignal, domainSignalReferences, connections,  \* of a signal
    connectionRef,              \* port -> connection, weakly; 0 is none
    made,                       \* the connections made: signal, port and log
    thread,                     \* thread -> the call it is in
    calls,                      \* thread -> number of calls made
    fate,                       \* history: connection -> what came of it
    raced,                      \* history: connections touched before they were registered
    misled,                     \* history: connections not told of a domain change
    listener,                   \* history: port -> its listener takes it for connected
    unheard                     \* history: ports whose listener missed a loss

tree == <<active, isComponentRemoved>>
signalVars == <<dataDescriptor, domainSignal, domainSignalReferences>>
told == <<raced, misled, listener, unheard>>
pathVars == <<owner, tree, signalVars, connections, connectionRef, made, thread,
              calls, fate, told>>

--------------------------------------------------------------------------------
(* Packets.  In an event "same" is a parameter left out (not changed) and  *)
(* "null" the null descriptor; a data packet carries its own descriptors.  *)
Params == Descriptors \cup {"same", "null"}
Packet == [kind : {"data", "event"}, value : Params, domain : Params]
Data(v, d) == [kind |-> "data", value |-> v, domain |-> d]
DescriptorChanged(v, d) == [kind |-> "event", value |-> v, domain |-> d]
NoPacket == DescriptorChanged("same", "same")

DescriptorOf(s) == IF s = None THEN "null" ELSE dataDescriptor[s]

(* The call a thread is in: the method, the stage, its arguments and the   *)
(* lists it walks.  todo holds connections, rest signals.                  *)
Stages == {"idle", "enqueue", "push", "read", "announce", "port", "old", "listener",
           "register", "describe", "tell", "clear", "forget", "unref", "ref"}
Call == [method : Methods \cup {"none"}, at : Stages, s : Signals \cup {None},
         p : Ports \cup {None}, c : Nat, todo : Seq(Nat), rest : Seq(Signals),
         packet : Packet]
Idle == [method |-> "none", at |-> "idle", s |-> None, p |-> None, c |-> 0,
         todo |-> <<>>, rest |-> <<>>, packet |-> NoPacket]

Free(x) == owner[x] = None
Take(t, x) == owner' = [owner EXCEPT ![x] = t]
Release(x) == owner' = [owner EXCEPT ![x] = None]
Goto(t, call) == thread' = [thread EXCEPT ![t] = call]
Return(t) == Goto(t, Idle)
Begin(t, m) ==
    /\ thread[t] = Idle
    /\ m \in Operations[t]
    /\ calls[t] < MaxCalls[t]
    /\ calls' = [calls EXCEPT ![t] = @ + 1]

ListedIn(c, seq) == \E i \in DOMAIN seq : seq[i] = c

(* std::find, and erase of the place it found.                             *)
Erased(seq, c) ==
    IF ~ListedIn(c, seq) THEN seq
    ELSE LET found == CHOOSE i \in DOMAIN seq :
                          seq[i] = c /\ \A j \in DOMAIN seq : seq[j] = c => i <= j
         IN  [i \in 1 .. Len(seq) - 1 |-> IF i < found THEN seq[i] ELSE seq[i + 1]]

(* A weak reference gives its connection while somebody holds it.          *)
Held(c) ==
    /\ c # 0
    /\ \/ ListedIn(c, connections[made[c].signal])
       \/ \E t \in Threads : thread[t].c = c \/ ListedIn(c, thread[t].todo)
GetConnectionNoLock(p) == IF Held(connectionRef[p]) THEN connectionRef[p] ELSE 0

(* Connections a thread still has to register when they lose their port:   *)
(* connectInternal is past the lock of the port and before listenerConnected. *)
Unregistered(c) == \E t \in Threads : thread[t].c = c /\ thread[t].method = "connect"
                                      /\ thread[t].at \in {"listener", "register", "describe"}

--------------------------------------------------------------------------------
PathInit ==
    /\ owner = [x \in Components |-> None]
    /\ active = [x \in Components |-> TRUE]
    /\ isComponentRemoved = [x \in Components |-> FALSE]
    /\ dataDescriptor = [s \in Signals |-> FirstDescriptor]
    /\ domainSignal = [s \in Signals |-> IF s \in ValueSignals THEN FirstDomain ELSE None]
    /\ domainSignalReferences = [s \in Signals |->
            IF s = FirstDomain THEN ValueSignals ELSE {}]
    /\ connections = [s \in Signals |-> <<>>]
    /\ connectionRef = [p \in Ports |-> 0]
    /\ made = <<>> /\ fate = <<>>
    /\ thread = [t \in Threads |-> Idle]
    /\ calls = [t \in Threads |-> 0]
    /\ raced = {} /\ misled = {} /\ unheard = {}
    /\ listener = [p \in Ports |-> FALSE]

(***************************************************************************)
(* Enqueueing.  Every enqueue first asks the port whether it is active,    *)
(* under the mutex of the port, and pushes later, under the mutex of the   *)
(* connection; an inactive port still takes events.                        *)
(***************************************************************************)
EnqueueCheckActive(t) ==
    LET call == thread[t]
        p == made[Head(call.todo)].port
    IN  /\ call.at = "enqueue" /\ call.todo # <<>>
        /\ Free(p)
        /\ IF active[p] \/ call.packet.kind = "event"
           THEN Goto(t, [call EXCEPT !.at = "push"])
           ELSE Goto(t, [call EXCEPT !.todo = Tail(@)])
        /\ UNCHANGED <<owner, tree, signalVars, connections, connectionRef, made,
                       calls, fate, told>>

EnqueuePush(t) ==
    LET call == thread[t]
    IN  /\ call.at = "push"
        /\ made' = [made EXCEPT ![Head(call.todo)].log = Append(@, call.packet)]
        /\ Goto(t, [call EXCEPT !.at = "enqueue", !.todo = Tail(@)])
        /\ UNCHANGED <<owner, tree, signalVars, connections, connectionRef, calls,
                       fate, told>>

Enqueuing(call, conns, packet) ==
    [call EXCEPT !.at = "enqueue", !.todo = conns, !.packet = packet]

--------------------------------------------------------------------------------
(***************************************************************************)
(* sendPacket: the connections are copied under the mutex of the signal    *)
(* and walked after it.                                                    *)
(***************************************************************************)
SendPacket(t, s) ==
    /\ Begin(t, "sendPacket")
    /\ Free(s) /\ active[s]
    /\ Goto(t, Enqueuing([Idle EXCEPT !.method = "sendPacket", !.s = s], connections[s],
                         Data(dataDescriptor[s], DescriptorOf(domainSignal[s]))))
    /\ UNCHANGED <<owner, tree, signalVars, connections, connectionRef, made, fate, told>>

SendPacketEnd(t) ==
    /\ thread[t].method = "sendPacket" /\ thread[t].at = "enqueue" /\ thread[t].todo = <<>>
    /\ Return(t)
    /\ UNCHANGED <<owner, tree, signalVars, connections, connectionRef, made, calls,
                   fate, told>>

(***************************************************************************)
(* setDescriptor: the event goes to the connections of the signal under    *)
(* its mutex, also when the signal is inactive; the value signals it is    *)
(* the domain of are noted there and told one by one after the unlock, by  *)
(* sendPacketRecursiveLock, which an inactive value signal ignores.        *)
(***************************************************************************)
SetDescriptor(t, s, x) ==
    /\ Begin(t, "setDescriptor")
    /\ Free(s)
    /\ Take(t, s)
    /\ dataDescriptor' = [dataDescriptor EXCEPT ![s] = x]
    /\ Goto(t, Enqueuing([Idle EXCEPT !.method = "setDescriptor", !.s = s],
                         connections[s], DescriptorChanged(x, "same")))
    /\ UNCHANGED <<tree, domainSignal, domainSignalReferences, connections,
                   connectionRef, made, fate, told>>

InSequence(S) == CHOOSE q \in [1 .. Cardinality(S) -> S] : \A x \in S : \E i \in DOMAIN q : q[i] = x

SetDescriptorUnlock(t) ==
    LET call == thread[t]
    IN  /\ call.method = "setDescriptor" /\ call.at = "enqueue" /\ call.todo = <<>>
        /\ owner[call.s] = t
        /\ Release(call.s)
        /\ Goto(t, [call EXCEPT !.at = "read",
                                !.rest = InSequence(domainSignalReferences[call.s])])
        /\ UNCHANGED <<tree, signalVars, connections, connectionRef, made, calls,
                       fate, told>>

(* The descriptor to announce is read after the unlock.                    *)
SetDescriptorRead(t) ==
    LET call == thread[t]
    IN  /\ call.at = "read"
        /\ Goto(t, [call EXCEPT !.at = "announce",
                                !.packet = DescriptorChanged("same", dataDescriptor[call.s])])
        /\ UNCHANGED <<owner, tree, signalVars, connections, connectionRef, made, calls,
                       fate, told>>

SetDescriptorAnnounce(t) ==
    LET call == thread[t]
        v == Head(call.rest)
        conns == {connections[v][i] : i \in DOMAIN connections[v]}
    IN  /\ call.at = "announce" /\ call.rest # <<>>
        /\ Free(v)
        /\ Goto(t, [Enqueuing(call, IF active[v] THEN connections[v] ELSE <<>>, call.packet)
                        EXCEPT !.rest = Tail(@)])
        /\ misled' = IF active[v] /\ domainSignal[v] = call.s THEN misled
                                                             ELSE misled \cup conns
        /\ UNCHANGED <<owner, tree, signalVars, connections, connectionRef, made, calls,
                       fate, raced, listener, unheard>>

SetDescriptorNext(t) ==
    LET call == thread[t]
    IN  /\ call.method = "setDescriptor" /\ owner[call.s] # t
        /\ call.at = "enqueue" /\ call.todo = <<>>
        /\ Goto(t, [call EXCEPT !.at = "announce"])
        /\ UNCHANGED <<owner, tree, signalVars, connections, connectionRef, made, calls,
                       fate, told>>

SetDescriptorEnd(t) ==
    /\ thread[t].at = "announce" /\ thread[t].rest = <<>>
    /\ Return(t)
    /\ UNCHANGED <<owner, tree, signalVars, connections, connectionRef, made, calls,
                   fate, told>>

--------------------------------------------------------------------------------
(***************************************************************************)
(* connect (connectInternal).  canConnectSignal reads the removal of the   *)
(* signal without a lock; the connection is made; under the mutex of the   *)
(* port the old connection is given up and its signal told; after it the   *)
(* listener is asked, and the signal registers the connection.             *)
(***************************************************************************)
Connect(t, p, s) ==
    /\ Begin(t, "connect")
    /\ ~isComponentRemoved[s]
    /\ Len(made) < MaxConnections
    /\ made' = Append(made, [signal |-> s, port |-> p, log |-> <<>>])
    /\ fate' = Append(fate, "made")
    /\ Goto(t, [Idle EXCEPT !.method = "connect", !.at = "port", !.s = s, !.p = p,
                            !.c = Len(made) + 1])
    /\ UNCHANGED <<owner, tree, signalVars, connections, connectionRef, told>>

(* The port gives up connection c, which is 0 when it has none.            *)
GivenUp(f, c) == IF c = 0 THEN f ELSE [f EXCEPT ![c] = "dropped"]

ConnectPort(t) ==
    LET call == thread[t]
        old == GetConnectionNoLock(call.p)
        refused == isComponentRemoved[call.p]
    IN  /\ call.at = "port"
        /\ Free(call.p)
        /\ \/ /\ refused
              /\ fate' = [fate EXCEPT ![call.c] = "failed"]
              /\ Return(t)
              /\ UNCHANGED <<owner, connectionRef, raced>>
           \/ /\ ~refused /\ old = 0
              /\ connectionRef' = [connectionRef EXCEPT ![call.p] = call.c]
              /\ Goto(t, [call EXCEPT !.at = "listener"])
              /\ UNCHANGED <<owner, fate, raced>>
           \/ /\ ~refused /\ old # 0
              /\ connectionRef' = [connectionRef EXCEPT ![call.p] = 0]
              /\ fate' = GivenUp(fate, old)
              /\ raced' = IF Unregistered(old) THEN raced \cup {old} ELSE raced
              /\ Take(t, call.p)
              /\ Goto(t, [call EXCEPT !.at = "old", !.todo = <<old>>])
        /\ UNCHANGED <<tree, signalVars, connections, made, calls, misled, listener, unheard>>

(* The old connection leaves its signal, under both mutexes.  A signal     *)
(* that does not know it throws, and so does connect.                      *)
ConnectOld(t) ==
    LET call == thread[t]
        old == Head(call.todo)
        s == made[old].signal
    IN  /\ call.method = "connect" /\ call.at = "old"
        /\ Free(s)
        /\ Release(call.p)
        /\ \/ /\ ListedIn(old, connections[s])
              /\ connections' = [connections EXCEPT ![s] = Erased(@, old)]
              /\ connectionRef' = [connectionRef EXCEPT ![call.p] = call.c]
              /\ Goto(t, [call EXCEPT !.at = "listener", !.todo = <<>>])
              /\ UNCHANGED <<fate, unheard>>
           \/ /\ ~ListedIn(old, connections[s])
              /\ fate' = [fate EXCEPT ![call.c] = "failed"]
              /\ unheard' = unheard \cup {call.p}
              /\ Return(t)
              /\ UNCHANGED <<connections, connectionRef>>
        /\ UNCHANGED <<tree, signalVars, made, calls, raced, misled, listener>>

(* The listener accepts, or refuses: then the port lets go of whatever it  *)
(* refers to, without a lock, and nobody is told of the old connection.    *)
ConnectListener(t) ==
    LET call == thread[t]
        now == connectionRef[call.p]
    IN  /\ call.at = "listener"
        /\ \/ /\ Goto(t, [call EXCEPT !.at = "register"])
              /\ listener' = [listener EXCEPT ![call.p] = TRUE]
              /\ UNCHANGED <<connectionRef, fate, raced, unheard>>
           \/ /\ connectionRef' = [connectionRef EXCEPT ![call.p] = 0]
              /\ fate' = [GivenUp(fate, now) EXCEPT ![call.c] = "failed"]
              /\ raced' = IF now \in {0, call.c} THEN raced ELSE raced \cup {now}
              /\ unheard' = IF listener[call.p] THEN unheard \cup {call.p} ELSE unheard
              /\ Return(t)
              /\ UNCHANGED listener
        /\ UNCHANGED <<owner, tree, signalVars, connections, made, calls, misled>>

(* Fault: the descriptors are read before the mutex of the signal is taken. *)
ConnectRegisterReadingEarly(t) ==
    LET call == thread[t]
    IN  /\ call.at = "register"
        /\ \/ /\ call.packet = NoPacket
              /\ Goto(t, [call EXCEPT !.packet = DescriptorChanged(dataDescriptor[call.s],
                                                     DescriptorOf(domainSignal[call.s]))])
              /\ UNCHANGED <<owner, connections>>
           \/ /\ call.packet # NoPacket /\ Free(call.s)
              /\ Take(t, call.s)
              /\ connections' = [connections EXCEPT ![call.s] = Append(@, call.c)]
              /\ Goto(t, Enqueuing(call, <<call.c>>, call.packet))
        /\ UNCHANGED <<tree, signalVars, connectionRef, made, calls, fate, told>>

(* listenerConnectedInternal: under the mutex of the signal the event with *)
(* both descriptors is made, which takes the mutex of the domain signal,   *)
(* the connection listed and the event enqueued.                           *)
ConnectRegister(t) ==
    LET call == thread[t]
    IN  /\ call.at = "register"
        /\ Free(call.s)
        /\ Take(t, call.s)
        /\ Goto(t, [call EXCEPT !.at = "describe"])
        /\ UNCHANGED <<tree, signalVars, connections, connectionRef, made, calls, fate, told>>

ConnectDescribe(t) ==
    LET call == thread[t]
        d == domainSignal[call.s]
    IN  /\ call.at = "describe"
        /\ d # None => Free(d)
        /\ connections' = [connections EXCEPT ![call.s] = Append(@, call.c)]
        /\ Goto(t, Enqueuing(call, <<call.c>>,
                             DescriptorChanged(dataDescriptor[call.s], DescriptorOf(d))))
        /\ UNCHANGED <<owner, tree, signalVars, connectionRef, made, calls, fate, told>>

ConnectEnd(t) ==
    LET call == thread[t]
    IN  /\ call.method = "connect" /\ call.at = "enqueue" /\ call.todo = <<>>
        /\ Release(call.s)
        /\ fate' = [fate EXCEPT ![call.c] = IF @ = "made" THEN "connected" ELSE @]
        /\ Return(t)
        /\ UNCHANGED <<tree, signalVars, connections, connectionRef, made, calls, told>>

--------------------------------------------------------------------------------
(***************************************************************************)
(* disconnect: the port lets go under its mutex; after it the signal is    *)
(* told, and throws when it does not know the connection; then the         *)
(* listener is told.                                                       *)
(***************************************************************************)
(* Fault: the mutex of the port is kept while the signal is told.          *)
DisconnectHoldingPort(t, p) ==
    LET c == GetConnectionNoLock(p)
    IN  /\ Begin(t, "disconnect")
        /\ Free(p) /\ c # 0
        /\ Take(t, p)
        /\ connectionRef' = [connectionRef EXCEPT ![p] = 0]
        /\ fate' = GivenUp(fate, c)
        /\ raced' = IF Unregistered(c) THEN raced \cup {c} ELSE raced
        /\ Goto(t, [Idle EXCEPT !.method = "disconnect", !.at = "tell", !.p = p,
                                !.todo = <<c>>])
        /\ UNCHANGED <<tree, signalVars, connections, made, misled, listener, unheard>>

Disconnect(t, p) ==
    LET c == GetConnectionNoLock(p)
    IN  /\ Begin(t, "disconnect")
        /\ Free(p) /\ c # 0
        /\ connectionRef' = [connectionRef EXCEPT ![p] = 0]
        /\ fate' = GivenUp(fate, c)
        /\ raced' = IF Unregistered(c) THEN raced \cup {c} ELSE raced
        /\ Goto(t, [Idle EXCEPT !.method = "disconnect", !.at = "tell", !.p = p,
                                !.todo = <<c>>])
        /\ UNCHANGED <<owner, tree, signalVars, connections, made, misled, listener, unheard>>

(* Fault: the listener is not told.                                        *)
ListenerToldNothing(p, c) == UNCHANGED <<listener, unheard>>

(* The listener of p is told disconnected; it is misinformed when the port *)
(* was connected anew in the meantime.                                     *)
ListenerTold(p, c) ==
    /\ listener' = [listener EXCEPT ![p] = FALSE]
    /\ unheard' = IF connectionRef[p] \in {0, c} THEN unheard ELSE unheard \cup {p}

DisconnectTell(t) ==
    LET call == thread[t]
        c == Head(call.todo)
        s == made[c].signal
    IN  /\ call.at = "tell"
        /\ Free(s)
        /\ \/ /\ ListedIn(c, connections[s])
              /\ connections' = [connections EXCEPT ![s] = Erased(@, c)]
              /\ ListenerTold(call.p, 0)
           \/ /\ ~ListedIn(c, connections[s])
              /\ unheard' = unheard \cup {call.p}
              /\ UNCHANGED <<connections, listener>>
        /\ Return(t)
        /\ UNCHANGED <<owner, tree, signalVars, connectionRef, made, calls, fate, raced, misled>>

--------------------------------------------------------------------------------
(***************************************************************************)
(* remove of a port and of a signal: ComponentImpl::remove holds the mutex *)
(* of the component over removed().                                        *)
(***************************************************************************)
Removed(x) ==
    /\ isComponentRemoved' = [isComponentRemoved EXCEPT ![x] = TRUE]
    /\ active' = [active EXCEPT ![x] = FALSE]

(* The port tells the signal of its connection and not its listener, from  *)
(* whom the call is expected to come.                                      *)
RemovePort(t, p) ==
    LET c == GetConnectionNoLock(p)
    IN  /\ Begin(t, "removePort")
        /\ Free(p) /\ ~isComponentRemoved[p]
        /\ Removed(p)
        /\ connectionRef' = [connectionRef EXCEPT ![p] = 0]
        /\ fate' = GivenUp(fate, c)
        /\ raced' = IF c # 0 /\ Unregistered(c) THEN raced \cup {c} ELSE raced
        /\ IF c = 0 THEN UNCHANGED <<owner, thread>>
                    ELSE /\ Take(t, p)
                         /\ Goto(t, [Idle EXCEPT !.method = "removePort", !.at = "old",
                                                 !.p = p, !.todo = <<c>>])
        /\ UNCHANGED <<signalVars, connections, made, misled, listener, unheard>>

RemovePortOld(t) ==
    LET call == thread[t]
        c == Head(call.todo)
        s == made[c].signal
    IN  /\ call.method = "removePort" /\ call.at = "old"
        /\ Free(s)
        /\ connections' = [connections EXCEPT ![s] = Erased(@, c)]
        /\ Release(call.p)
        /\ Return(t)
        /\ UNCHANGED <<tree, signalVars, connectionRef, made, calls, fate, told>>

(* The signal disconnects the port of every connection it lists, whatever  *)
(* the port refers to by now (disconnectWithoutSignalNotification), and    *)
(* then clears itself from the value signals it is the domain of.          *)
RemoveSignal(t, s) ==
    /\ Begin(t, "removeSignal")
    /\ Free(s) /\ ~isComponentRemoved[s]
    /\ Removed(s)
    /\ Take(t, s)
    /\ raced' = raced \cup {c \in DOMAIN made : made[c].signal = s /\ fate[c] = "made"}
    /\ Goto(t, [Idle EXCEPT !.method = "removeSignal", !.at = "clear", !.s = s,
                            !.todo = connections[s]])
    /\ UNCHANGED <<signalVars, connections, connectionRef, made, fate, misled, listener,
                   unheard>>

RemoveSignalDisconnect(t) ==
    LET call == thread[t]
        p == made[Head(call.todo)].port
        c == GetConnectionNoLock(p)
    IN  /\ call.at = "clear" /\ call.todo # <<>>
        /\ Free(p)
        /\ connectionRef' = [connectionRef EXCEPT ![p] = 0]
        /\ fate' = GivenUp(fate, c)
        /\ raced' = IF c \in {0, Head(call.todo)} THEN raced ELSE raced \cup {c}
        /\ IF c = 0 THEN UNCHANGED <<listener, unheard>> ELSE ListenerTold(p, c)
        /\ Goto(t, [call EXCEPT !.todo = Tail(@)])
        /\ UNCHANGED <<owner, tree, signalVars, connections, made, calls, misled>>

(* Fault: the connections stay in the list of the removed signal.          *)
RemoveSignalClearKept(t) ==
    LET call == thread[t]
    IN  /\ call.at = "clear" /\ call.todo = <<>>
        /\ Goto(t, [call EXCEPT !.at = "forget",
                                !.rest = InSequence(domainSignalReferences[call.s])])
        /\ UNCHANGED <<owner, tree, signalVars, connections, connectionRef, made, calls,
                       fate, told>>

RemoveSignalClear(t) ==
    LET call == thread[t]
    IN  /\ call.at = "clear" /\ call.todo = <<>>
        /\ connections' = [connections EXCEPT ![call.s] = <<>>]
        /\ Goto(t, [call EXCEPT !.at = "forget",
                                !.rest = InSequence(domainSignalReferences[call.s])])
        /\ UNCHANGED <<owner, tree, signalVars, connectionRef, made, calls, fate, told>>

RemoveSignalForget(t) ==
    LET call == thread[t]
        v == Head(call.rest)
    IN  /\ call.at = "forget" /\ call.rest # <<>>
        /\ Free(v)
        /\ domainSignal' = [domainSignal EXCEPT ![v] = None]
        /\ misled' = misled \cup {connections[v][i] : i \in DOMAIN connections[v]}
        /\ Goto(t, [call EXCEPT !.rest = Tail(@)])
        /\ UNCHANGED <<owner, tree, dataDescriptor, domainSignalReferences, connections,
                       connectionRef, made, calls, fate, raced, listener, unheard>>

RemoveSignalEnd(t) ==
    LET call == thread[t]
    IN  /\ call.at = "forget" /\ call.rest = <<>>
        /\ domainSignalReferences' = [domainSignalReferences EXCEPT ![call.s] = {}]
        /\ Release(call.s)
        /\ Return(t)
        /\ UNCHANGED <<tree, dataDescriptor, domainSignal, connections, connectionRef,
                       made, calls, fate, told>>

--------------------------------------------------------------------------------
SetActive(t, x) ==
    /\ Begin(t, "setActive")
    /\ Free(x) /\ ~isComponentRemoved[x]
    /\ active' = [active EXCEPT ![x] = ~@]
    /\ UNCHANGED <<owner, isComponentRemoved, signalVars, connections, connectionRef,
                   made, thread, fate, told>>

(***************************************************************************)
(* setDomainSignal: under the mutex of the value signal the old domain     *)
(* signal forgets it and the new one notes it.  No packet is sent.         *)
(***************************************************************************)
SetDomainSignal(t, s, d) ==
    /\ Begin(t, "setDomainSignal")
    /\ Free(s) /\ d # domainSignal[s]
    /\ Take(t, s)
    /\ Goto(t, [Idle EXCEPT !.method = "setDomainSignal", !.at = "unref", !.s = s,
                            !.rest = IF d = None THEN <<>> ELSE <<d>>])
    /\ UNCHANGED <<tree, signalVars, connections, connectionRef, made, fate, told>>

SetDomainSignalUnref(t) ==
    LET call == thread[t]
        old == domainSignal[call.s]
    IN  /\ call.at = "unref"
        /\ old # None => Free(old)
        /\ domainSignal' = [domainSignal EXCEPT
                ![call.s] = IF call.rest = <<>> THEN None ELSE Head(call.rest)]
        /\ domainSignalReferences' = [d \in Signals |->
                IF d = old THEN domainSignalReferences[d] \ {call.s}
                           ELSE domainSignalReferences[d]]
        /\ misled' = misled \cup {connections[call.s][i] : i \in DOMAIN connections[call.s]}
        /\ Goto(t, [call EXCEPT !.at = "ref"])
        /\ UNCHANGED <<owner, tree, dataDescriptor, connections, connectionRef, made,
                       calls, fate, raced, listener, unheard>>

(* Fault: the value signal notes its domain signal instead.                *)
SetDomainSignalRefSwapped(t) ==
    LET call == thread[t]
    IN  /\ call.at = "ref"
        /\ IF call.rest = <<>> THEN UNCHANGED domainSignalReferences
           ELSE /\ Free(Head(call.rest))
                /\ domainSignalReferences' = [domainSignalReferences EXCEPT
                        ![call.s] = @ \cup {Head(call.rest)}]
        /\ Release(call.s)
        /\ Return(t)
        /\ UNCHANGED <<tree, dataDescriptor, domainSignal, connections, connectionRef,
                       made, calls, fate, told>>

SetDomainSignalRef(t) ==
    LET call == thread[t]
    IN  /\ call.at = "ref"
        /\ IF call.rest = <<>> THEN UNCHANGED domainSignalReferences
           ELSE /\ Free(Head(call.rest))
                /\ domainSignalReferences' = [domainSignalReferences EXCEPT
                        ![Head(call.rest)] = @ \cup {call.s}]
        /\ Release(call.s)
        /\ Return(t)
        /\ UNCHANGED <<tree, dataDescriptor, domainSignal, connections, connectionRef,
                       made, calls, fate, told>>

--------------------------------------------------------------------------------
NewCall(t) ==
    \/ \E s \in Signals : SendPacket(t, s)
    \/ \E s \in Signals, x \in Descriptors : SetDescriptor(t, s, x)
    \/ \E p \in Ports, s \in Signals : Connect(t, p, s)
    \/ \E p \in Ports : Disconnect(t, p)
    \/ \E p \in Ports : RemovePort(t, p)
    \/ \E s \in Signals : RemoveSignal(t, s)
    \/ \E x \in Components : SetActive(t, x)
    \/ \E s \in ValueSignals, d \in DomainSignals \cup {None} : SetDomainSignal(t, s, d)

Continue(t) ==
    \/ EnqueueCheckActive(t) \/ EnqueuePush(t) \/ SendPacketEnd(t)
    \/ SetDescriptorUnlock(t) \/ SetDescriptorRead(t) \/ SetDescriptorAnnounce(t)
    \/ SetDescriptorNext(t) \/ SetDescriptorEnd(t)
    \/ ConnectPort(t) \/ ConnectOld(t) \/ ConnectListener(t)
    \/ ConnectRegister(t) \/ ConnectDescribe(t) \/ ConnectEnd(t)
    \/ DisconnectTell(t) \/ RemovePortOld(t)
    \/ RemoveSignalDisconnect(t) \/ RemoveSignalClear(t)
    \/ RemoveSignalForget(t) \/ RemoveSignalEnd(t)
    \/ SetDomainSignalUnref(t) \/ SetDomainSignalRef(t)

PathNext == \E t \in Threads : NewCall(t) \/ Continue(t)

PathSpec == PathInit /\ [][PathNext]_pathVars

--------------------------------------------------------------------------------
(* Every variable keeps its type.                                          *)
PathTypeOK ==
    /\ owner \in [Components -> Threads \cup {None}]
    /\ active \in [Components -> BOOLEAN] /\ isComponentRemoved \in [Components -> BOOLEAN]
    /\ dataDescriptor \in [Signals -> Descriptors]
    /\ domainSignal \in [Signals -> DomainSignals \cup {None}]
    /\ domainSignalReferences \in [Signals -> SUBSET ValueSignals]
    /\ \A s \in Signals : \A i \in DOMAIN connections[s] : connections[s][i] \in DOMAIN made
    /\ connectionRef \in [Ports -> 0 .. Len(made)]
    /\ DOMAIN fate = DOMAIN made
    /\ \A c \in DOMAIN made : made[c].signal \in Signals /\ made[c].port \in Ports
    /\ \A t \in Threads : thread[t] = Idle \/ thread[t].at # "idle"
    /\ raced \subseteq DOMAIN made /\ misled \subseteq DOMAIN made
    /\ unheard \subseteq Ports /\ listener \in [Ports -> BOOLEAN]

(* What the packets of a log up to place n announced last; "same" when     *)
(* nothing was announced.                                                  *)
LastTold(log, n, field) ==
    LET places == {i \in 1 .. n : log[i].kind = "event" /\ log[i][field] # "same"}
    IN  IF places = {} THEN "same"
        ELSE log[CHOOSE i \in places : \A j \in places : j <= i][field]

(* One thread acquires: it alone sends packets and sets descriptors.  With *)
(* two a packet can be pushed before the event of its descriptor, or after *)
(* that of the next, as sendPacket pushes without the mutex of the signal. *)
OneAcquisitionThread ==
    \E a \in Threads :
        \A t \in Threads \ {a} : Operations[t] \cap {"sendPacket", "setDescriptor"} = {}

(* Whatever the interleaving of acquisition and reconfiguration, a data    *)
(* packet reaches a connection only after an event that announced its      *)
(* descriptor, and no other since; the same holds of its domain            *)
(* descriptor, unless the domain of the signal was changed without an      *)
(* event (sendPacket after listenerConnectedInternal and setDescriptor).   *)
(* It is what a signal with one acquisition thread promises.               *)
DataUnderItsDescriptors ==
    \A c \in DOMAIN made : \A i \in DOMAIN made[c].log :
        LET log == made[c].log
        IN  log[i].kind = "data" =>
                /\ LastTold(log, i, "value") = log[i].value
                /\ c \in misled \/ LastTold(log, i, "domain") = log[i].domain

AtRest == \A t \in Threads : thread[t] = Idle

(* When no call is in progress the two ends of a connection agree: a       *)
(* connection whose connect succeeded and that nobody gave up is listed by *)
(* its signal and referred to by its port, and no other is, after refused  *)
(* and failed connects too.  Excepted are connections another call touched *)
(* between the unlock of the port and the registration with the signal.    *)
EndsAgree ==
    AtRest => \A c \in DOMAIN made \ raced :
        LET s == made[c].signal
            up == fate[c] = "connected"
        IN  /\ up <=> ListedIn(c, connections[s])
            /\ up <=> GetConnectionNoLock(made[c].port) = c
            /\ up => ~isComponentRemoved[s] /\ ~isComponentRemoved[made[c].port]

(* When no call is in progress the listener of a port knows whether the    *)
(* port is connected, unless it refused a connection that replaced another *)
(* (connectInternal drops the old one and calls no disconnected) or calls  *)
(* of two threads on its port crossed.                                     *)
ListenerKnows ==
    AtRest => \A p \in Ports :
        \/ isComponentRemoved[p] \/ p \in unheard
        \/ \E c \in raced : made[c].port = p
        \/ listener[p] <=> GetConnectionNoLock(p) # 0

(* The mutex the next step of a call waits for.                            *)
Needs(t) ==
    LET call == thread[t] IN
    CASE call.at \in {"enqueue", "clear"} /\ call.todo # <<>> -> made[Head(call.todo)].port
      [] call.at \in {"old", "tell"} -> made[Head(call.todo)].signal
      [] call.at \in {"announce", "forget", "ref"} /\ call.rest # <<>> -> Head(call.rest)
      [] call.at = "port" -> call.p
      [] call.at = "register" -> call.s
      [] call.at \in {"describe", "unref"} -> domainSignal[call.s]
      [] OTHER -> None

(* A set of threads each of which waits for a mutex another of them holds. *)
Stuck(T) ==
    /\ T # {}
    /\ \A t \in T : Needs(t) # None /\ owner[Needs(t)] \in T

(* The two places that take mutexes against the order value signal, domain *)
(* signal, port: a port that gives up its connection under its own mutex,  *)
(* and a removed domain signal that clears itself from its value signals.  *)
AgainstOrder(t) == thread[t].at \in {"old", "forget"}

(* No calls can block each other for good but those with a thread that     *)
(* replaces or removes a connected port, or removes a domain signal:       *)
(* sending, changing descriptors and domain signals, connecting a free     *)
(* port, disconnecting and removing a value signal are free of deadlock.   *)
DeadlockOnlyAgainstOrder ==
    \A T \in SUBSET Threads : Stuck(T) => \E t \in T : AgainstOrder(t)

(* When no call is in progress every connection of a signal was told the   *)
(* descriptor of the signal's domain signal last, as the documentation of  *)
(* setDomainSignal says: a new domain signal triggers a descriptor changed *)
(* event to all connections.                                               *)
DomainAnnounced ==
    AtRest => \A s \in Signals : \A i \in DOMAIN connections[s] :
        LET log == made[connections[s][i]].log
        IN  domainSignal[s] # None =>
                LastTold(log, Len(log), "domain") = DescriptorOf(domainSignal[s])
=============================================================================
