-------------------------- MODULE StreamingSession --------------------------
(***************************************************************************)
(* The subscriptions of a client to the signals of a device over native    *)
(* streaming, across lost connections and reconnections.                   *)
(*                                                                         *)
(* On the client three threads meet: users of mirrored signals             *)
(* (mirrored_signal_impl.h, streaming_impl.h), the transport thread        *)
(* (native_streaming_client_handler.cpp) and the processing thread, which  *)
(* runs what the transport thread posts to it (native_streaming_impl.cpp). *)
(* On the device the handlers of native_streaming_server_handler.cpp and   *)
(* streaming_manager.cpp run under one mutex, next to the thread that      *)
(* reads the subscribed signals (native_streaming_server_impl.cpp).        *)
(*                                                                         *)
(* A connection is a session with a number; 0 stands for no session and,   *)
(* among the clients of the device, for a second client that stays         *)
(* connected.  A session delivers in order and can be lost at any time:    *)
(* what the device has sent is lost with it, what the client has sent may  *)
(* still be handled until the device notices.                              *)
(*                                                                         *)
(* Left out: payloads (module PacketStreaming), acknowledgements (they     *)
(* only raise user events), adding and removing mirrored signals, devices  *)
(* that turn out not to speak the protocol, client-to-device streaming.    *)
(***************************************************************************)
EXTENDS Integers, FiniteSets, Sequences, SequencesExt

CONSTANTS Signals,          \* the public signals of the device
          NoSignal,
          DomainOf,         \* [Signals -> Signals \cup {NoSignal}]
          ChangingSignals,  \* the signals the device removes and adds again
          OtherSignals,     \* the signals the second client subscribes to
          MaxSessions,      \* connections ever made
          MaxEvents         \* calls of users, changes of the device and losses, together

ASSUME SessionAssumption ==
    /\ NoSignal \notin Signals /\ IsFiniteSet(Signals)
    /\ DomainOf \in [Signals -> Signals \cup {NoSignal}]
    /\ \A s \in Signals : DomainOf[s] # s
    /\ ChangingSignals \subseteq Signals /\ OtherSignals \subseteq Signals
    /\ MaxSessions \in Nat \ {0} /\ MaxEvents \in Nat

VARIABLES
    listened, streamed, active,  \* of each mirrored signal; active: it has an active source
    op,            \* what a mirrored signal has yet to ask of the streaming
    count,         \* subscribers of each signal (streamingSignalsItems)
    available,     \* availableSignalIds
    reconnecting,  \* isReconnecting
    status,        \* connectionStatus
    initReady,     \* protocolInitFuture is ready
    initTimer,     \* protocolInitTimer is running
    tasks,         \* posted to the processing thread
    failed,        \* the exception that ended the processing thread
    session,       \* sessionHandler of the client: number of its session, or 0
    lastSession,
    attempt,       \* connectedFuture; "none" when no attempt is being checked
    signalIds,     \* signals with a known numeric id
    toServer, toClient,  \* what is on its way in each session
    sessions,      \* sessions the device holds
    named,         \* the session registered under the id of the client, or 0
    clients,       \* streamingClientsIds
    registered,    \* registeredSignals
    subscribers,   \* subscribedClientsIds of each registered signal
    described,     \* lastDataDescriptorParam is assigned
    reader,        \* of each signal: "none", "new" (initial event unread), "read"
    told,          \* history: subscribers that were sent a descriptor
    threw,         \* a thread of the device ended by an exception
    late,          \* history: sent in a session whose start was not yet processed
    staleTimer,    \* history: the init timer outlived the session it was started for
    events         \* of those MaxEvents bounds

mirror == <<listened, streamed, active, op>>
streaming == <<count, available, reconnecting, status, initReady>>
timer == <<initTimer, staleTimer>>
link == <<session, lastSession, attempt>>
managed == <<registered, subscribers, described, reader, told>>
device == <<sessions, named, clients, managed, threw>>
vars == <<mirror, streaming, timer, tasks, failed, link, signalIds, toServer, toClient,
          device, late, events>>

Other == 0
SessionIds == 1 .. MaxSessions

Event == events < MaxEvents /\ events' = events + 1

Message(k, s) == [kind |-> k, signal |-> s]
Plain(k) == Message(k, NoSignal)

(***************************************************************************)
(* Sending from the client.  Nothing is sent without a session; a session  *)
(* the device has closed swallows what is written to it.                   *)
(***************************************************************************)
Sent(m) ==
    IF session \in sessions
        THEN [toServer EXCEPT ![session] = Append(@, m)]
        ELSE toServer

\* The processing thread has yet to hear of the loss before this session.
Unheard == \E i \in DOMAIN tasks : tasks[i].kind = "Reconnecting"

LateAfter(sends) == late \/ (sends /\ session # 0 /\ Unheard)

\* NativeStreamingClientImpl::subscribeSignal and unsubscribeSignal
Ask(k, s) ==
    /\ toServer' = IF s \in signalIds THEN Sent(Message(k, s)) ELSE toServer
    /\ late' = LateAfter(s \in signalIds)

AskNothing == UNCHANGED <<toServer, late>>

(***************************************************************************)
(* streaming_impl.h: the subscribers of a signal are counted; only the     *)
(* first and the last make a request, and only for an available signal.    *)
(***************************************************************************)
DoSubscribeSignal(s) ==
    /\ count' = [count EXCEPT ![s] = @ + 1]
    /\ IF s \in available /\ count[s] = 0 THEN Ask("subscribe", s) ELSE AskNothing

DoUnsubscribeSignal(s) ==
    /\ count' = [count EXCEPT ![s] = @ - 1]
    /\ IF s \in available /\ count[s] = 1 THEN Ask("unsubscribe", s) ELSE AskNothing

(***************************************************************************)
(* Mirrored signals.  Each call runs under the lock of its signal, so a    *)
(* signal has one call at a time; subscribeSignal and unsubscribeSignal    *)
(* lock the streaming once for the domain signal and once for the signal.  *)
(***************************************************************************)
Subscribed(s) == listened[s] /\ streamed[s] /\ active[s]

\* Fault: the domain signal is left out when a signal is unsubscribed.
RequestsForgettingDomain(s, k) ==
    IF DomainOf[s] = NoSignal \/ k = "unsubscribe"
        THEN << Message(k, s) >>
        ELSE << Message(k, DomainOf[s]), Message(k, s) >>

\* subscribeInternal and unsubscribeInternal: the calls they lead to, in order
Requests(s, k) ==
    IF DomainOf[s] = NoSignal
        THEN << Message(k, s) >>
        ELSE << Message(k, DomainOf[s]), Message(k, s) >>

\* The flags of signal s become those given; a change of their conjunction subscribes
\* or unsubscribes.
Call(s, l, t, a) ==
    /\ op[s] = << >>
    /\ Event
    /\ listened' = [listened EXCEPT ![s] = l]
    /\ streamed' = [streamed EXCEPT ![s] = t]
    /\ active' = [active EXCEPT ![s] = a]
    /\ op' = [op EXCEPT ![s] = IF Subscribed(s) = (l /\ t /\ a) THEN << >>
                               ELSE IF Subscribed(s) THEN Requests(s, "unsubscribe")
                               ELSE Requests(s, "subscribe")]
    /\ UNCHANGED <<streaming, timer, tasks, failed, link, signalIds, toServer, toClient, device,
                   late>>

\* The first connection was made or the last one dropped.
OnListenedStatusChanged(s) == Call(s, ~listened[s], streamed[s], active[s])

SetStreamed(s) == Call(s, listened[s], ~streamed[s], active[s])

SetActiveStreamingSource(s) == ~active[s] /\ Call(s, listened[s], streamed[s], TRUE)

DeactivateStreaming(s) == active[s] /\ Call(s, listened[s], streamed[s], FALSE)

\* One of the calls a mirrored signal makes on the streaming; to unsubscribe what has no
\* subscriber is refused, and ends the operation.
RequestStep(s) ==
    /\ op[s] # << >>
    /\ LET r == Head(op[s])
           refused == r.kind = "unsubscribe" /\ count[r.signal] = 0
       IN  /\ op' = [op EXCEPT ![s] = IF refused THEN << >> ELSE Tail(@)]
           /\ IF refused THEN UNCHANGED count /\ AskNothing
              ELSE IF r.kind = "subscribe" THEN DoSubscribeSignal(r.signal)
              ELSE DoUnsubscribeSignal(r.signal)
    /\ UNCHANGED <<listened, streamed, active, available, reconnecting, status, initReady,
                   timer, tasks, failed, link, signalIds, toClient, device, events>>

(***************************************************************************)
(* The transport thread of the client.                                     *)
(***************************************************************************)

\* Fault: the change of the connection status is not reported.
OnSessionErrorSilent ==
    /\ session # 0
    /\ lastSession < MaxSessions
    /\ IF session \in sessions THEN Event ELSE UNCHANGED events
    /\ session' = 0
    /\ attempt' = "pending"
    /\ toClient' = [toClient EXCEPT ![session] = << >>]
    /\ UNCHANGED <<mirror, streaming, timer, tasks, failed, lastSession, signalIds, toServer,
                   device, late>>

\* onSessionError, then tryReconnect.  MaxSessions bounds the losses.
OnSessionError ==
    /\ session # 0
    /\ lastSession < MaxSessions
    /\ IF session \in sessions THEN Event ELSE UNCHANGED events
    /\ session' = 0
    /\ tasks' = Append(tasks, Plain("Reconnecting"))
    /\ attempt' = "pending"
    /\ toClient' = [toClient EXCEPT ![session] = << >>]
    /\ UNCHANGED <<mirror, streaming, timer, failed, lastSession, signalIds, toServer, device,
                   late>>

\* initClientSessionHandler: the device accepts; the first thing sent names the client.
InitClientSessionHandler ==
    /\ attempt = "pending"
    /\ lastSession' = lastSession + 1
    /\ session' = lastSession'
    /\ attempt' = "connected"
    /\ sessions' = sessions \cup {lastSession'}
    /\ toServer' = [toServer EXCEPT ![lastSession'] = << Plain("properties") >>]
    /\ UNCHANGED <<mirror, streaming, timer, tasks, failed, signalIds, toClient, named, clients,
                   managed, threw, late, events>>

OnConnectionFailed ==
    /\ attempt = "pending"
    /\ attempt' = "failed"
    /\ UNCHANGED <<mirror, streaming, timer, tasks, failed, session, lastSession, signalIds,
                   toServer, toClient, device, late, events>>

\* The reconnection timer: report the connection, try again, or (no step) wait on.
CheckReconnectionResult ==
    /\ attempt \in {"connected", "failed"}
    /\ IF attempt = "connected"
         THEN /\ tasks' = Append(tasks, Plain("Connected"))
              /\ attempt' = "none"
         ELSE /\ attempt' = "pending"
              /\ tasks' = tasks
    /\ UNCHANGED <<mirror, streaming, timer, failed, session, lastSession, signalIds, toServer,
                   toClient, device, late, events>>

\* handleSignal and the init-done callback: note the signal, post the rest
Receive ==
    /\ session # 0
    /\ toClient[session] # << >>
    /\ LET m == Head(toClient[session]) IN
         /\ toClient' = [toClient EXCEPT ![session] = Tail(@)]
         /\ tasks' = Append(tasks, m)
         /\ signalIds' = CASE m.kind = "available" -> signalIds \cup {m.signal}
                           [] m.kind = "unavailable" -> signalIds \ {m.signal}
                           [] OTHER -> signalIds
    /\ UNCHANGED <<mirror, streaming, timer, failed, link, toServer, device, late, events>>

\* protocolInitTimer expires: its handler is posted to the processing thread.
InitTimerExpires ==
    /\ initTimer
    /\ initTimer' = FALSE
    /\ tasks' = Append(tasks, Plain("initTimer"))
    /\ UNCHANGED <<mirror, streaming, staleTimer, failed, link, signalIds, toServer, toClient,
                   device, late, events>>

(***************************************************************************)
(* The processing thread of the client; an exception that leaves a task    *)
(* ends it.                                                                *)
(***************************************************************************)
Task(k) ==
    /\ failed = "no"
    /\ tasks # << >>
    /\ Head(tasks).kind = k
    /\ tasks' = Tail(tasks)
    /\ UNCHANGED events

\* Fault: what had subscribers before the signal became available is not requested.
SignalAvailableNoResubscribe ==
    /\ Task("available")
    /\ LET s == Head(tasks).signal IN
         IF s \in available
           THEN failed' = "DuplicateItem" /\ UNCHANGED available /\ AskNothing
           ELSE failed' = failed /\ available' = available \cup {s} /\ AskNothing
    /\ UNCHANGED <<mirror, count, reconnecting, status, initReady, timer, link, signalIds, toClient,
                   device>>

\* addToAvailableSignals, with resubscribeAvailableSignal
SignalAvailable ==
    /\ Task("available")
    /\ LET s == Head(tasks).signal IN
         IF s \in available
           THEN failed' = "DuplicateItem" /\ UNCHANGED available /\ AskNothing
           ELSE /\ available' = available \cup {s}
                /\ IF count[s] > 0 THEN Ask("subscribe", s) ELSE AskNothing
                /\ UNCHANGED failed
    /\ UNCHANGED <<mirror, count, reconnecting, status, initReady, timer, link, signalIds, toClient,
                   device>>

\* removeFromAvailableSignals
SignalUnavailable ==
    /\ Task("unavailable")
    /\ available' = available \ {Head(tasks).signal}
    /\ failed' = IF Head(tasks).signal \in available THEN failed ELSE "NotFound"
    /\ UNCHANGED <<mirror, count, reconnecting, status, initReady, timer, link, signalIds, toServer,
                   toClient, device, late>>

\* Fault: the signals of the lost session are still taken for available.
StartReconnectionKeepingAvailable ==
    /\ Task("Reconnecting")
    /\ reconnecting' = TRUE
    /\ status' = "Reconnecting"
    /\ UNCHANGED <<mirror, count, available, initReady, timer, failed, link, signalIds, toServer,
                   toClient, device, late>>

\* updateConnectionStatus with "Reconnecting": startReconnection
StartReconnection ==
    /\ Task("Reconnecting")
    /\ available' = {}
    /\ reconnecting' = TRUE
    /\ status' = "Reconnecting"
    /\ staleTimer' = (staleTimer \/ initTimer \/ Plain("initTimer") \in ToSet(tasks))
    /\ UNCHANGED <<mirror, count, initReady, initTimer, failed, link, signalIds, toServer, toClient,
                   device, late>>

\* requestStreamingOnReconnection
RequestStreamingOnReconnection ==
    /\ Task("Connected")
    /\ signalIds' = {}
    /\ toServer' = Sent(Plain("init"))
    /\ late' = LateAfter(TRUE)
    /\ initReady' = FALSE
    /\ initTimer' = TRUE
    /\ UNCHANGED <<mirror, count, available, reconnecting, status, staleTimer, failed, link, toClient,
                   device>>

\* protocolInitPromise.set_value, which throws when the promise is satisfied
StreamingInitDone ==
    /\ Task("initDone")
    /\ initReady' = TRUE
    /\ failed' = IF initReady THEN "PromiseSatisfied" ELSE failed
    /\ UNCHANGED <<mirror, count, available, reconnecting, status, timer, link, signalIds, toServer,
                   toClient, device, late>>

\* The handler of protocolInitTimer: completeReconnection, or the end of the attempts
CompleteReconnection ==
    /\ Task("initTimer")
    /\ IF ~initReady
         THEN status' = "Unrecoverable" /\ UNCHANGED <<reconnecting, failed>>
         ELSE IF reconnecting
           THEN status' = "Connected" /\ reconnecting' = FALSE /\ UNCHANGED failed
           ELSE failed' = "InvalidState" /\ UNCHANGED <<status, reconnecting>>
    /\ UNCHANGED <<mirror, count, available, initReady, timer, link, signalIds, toServer, toClient,
                   device, late>>

(***************************************************************************)
(* The device: registeredSignals of the streaming manager and the readers. *)
(***************************************************************************)
Managed(r, subs, desc, rd, tl) ==
    /\ registered' = r
    /\ subscribers' = subs
    /\ described' = desc
    /\ reader' = rd
    /\ told' = tl

\* Fault: a later subscriber is not sent the descriptors.
RegisterSignalSubscriberSilently(s, c) ==
    LET subs == subscribers[s] IN
    IF s \in registered /\ c \notin subs
      THEN Managed(registered, [subscribers EXCEPT ![s] = @ \cup {c}], described,
                   [reader EXCEPT ![s] = IF subs = {} THEN "new" ELSE @], told)
      ELSE UNCHANGED managed

\* registerSignalSubscriber, and the reader made for the first subscriber.  A later one is sent
\* the last descriptors, if any were read: this fails for a client that has not asked for
\* streaming.
RegisterSignalSubscriber(s, c) ==
    LET subs == subscribers[s]
        catchUp == subs # {} /\ described[s]
    IN  IF s \in registered /\ c \notin subs /\ (catchUp => c \in clients)
          THEN Managed(registered, [subscribers EXCEPT ![s] = @ \cup {c}], described,
                       [reader EXCEPT ![s] = IF subs = {} THEN "new" ELSE @],
                       [told EXCEPT ![s] = IF catchUp THEN @ \cup {c} ELSE @])
          ELSE UNCHANGED managed

\* Fault: the reader outlives the last subscriber.
RemoveSubscriberKeepingReader(ss, c) ==
    LET subs == [s \in Signals |-> IF s \in ss THEN subscribers[s] \ {c} ELSE subscribers[s]] IN
    Managed(registered, subs, described, reader, [s \in Signals |-> told[s] \cap subs[s]])

\* removeSignalSubscriberNoLock for every signal of ss, and the readers that go with the last
\* subscriber
RemoveSubscriber(ss, c) ==
    LET subs == [s \in Signals |-> IF s \in ss THEN subscribers[s] \ {c} ELSE subscribers[s]] IN
    Managed(registered, subs, described,
            [s \in Signals |-> IF subs[s] = {} THEN "none" ELSE reader[s]],
            [s \in Signals |-> told[s] \cap subs[s]])

\* Fault: the subscriptions of a released client stay.
ReleaseKeepingSubscriptions(n) == clients' = clients \ {n} /\ UNCHANGED managed

\* releaseSessionHandlerInternal: a client that never asked for streaming has nothing to undo
Release(n) ==
    /\ clients' = clients \ {n}
    /\ IF n \in clients THEN RemoveSubscriber(Signals, n) ELSE UNCHANGED managed

OnServerSessionError(n) ==
    /\ ~threw
    /\ n \in sessions
    /\ IF n = session THEN lastSession < MaxSessions /\ Event ELSE UNCHANGED events
    /\ Release(n)
    /\ sessions' = sessions \ {n}
    /\ named' = IF named = n THEN 0 ELSE named
    /\ toServer' = [toServer EXCEPT ![n] = << >>]
    /\ UNCHANGED <<mirror, streaming, timer, tasks, failed, link, signalIds, toClient, threw, late>>

Handle(n, k) ==
    /\ ~threw
    /\ n \in sessions
    /\ toServer[n] # << >>
    /\ Head(toServer[n]).kind = k
    /\ UNCHANGED events

Handled(n) == [toServer EXCEPT ![n] = Tail(@)]

\* handleTransportLayerProps: the session takes the id of the client; an obsolete one that had it
\* is released.
HandleTransportLayerProps(n) ==
    /\ Handle(n, "properties")
    /\ named' = n
    /\ sessions' = sessions \ ({named} \ {n})
    /\ toServer' = [m \in SessionIds |-> IF m = n THEN Tail(toServer[m])
                                         ELSE IF m = named THEN << >> ELSE toServer[m]]
    /\ IF named \in SessionIds THEN Release(named) ELSE UNCHANGED <<clients, managed>>
    /\ UNCHANGED <<mirror, streaming, timer, tasks, failed, link, signalIds, toClient, threw, late>>

Send(n, ms) == [toClient EXCEPT ![n] = IF n = session THEN @ \o ms ELSE @]

\* handleStreamingInit; registering a client twice is an exception nobody catches
HandleStreamingInit(n) ==
    /\ Handle(n, "init")
    /\ toServer' = Handled(n)
    /\ IF n \in clients
         THEN threw' = TRUE /\ UNCHANGED <<clients, toClient>>
         ELSE /\ clients' = clients \cup {n}
              /\ toClient' = Send(n, SetToSeq({Message("available", s) : s \in registered})
                                       \o << Plain("initDone") >>)
              /\ UNCHANGED threw
    /\ UNCHANGED <<mirror, streaming, timer, tasks, failed, link, signalIds, sessions, named, managed,
                   late>>

\* handleSignalSubscription
HandleSubscribe(n) ==
    /\ Handle(n, "subscribe")
    /\ toServer' = Handled(n)
    /\ RegisterSignalSubscriber(Head(toServer[n]).signal, n)
    /\ UNCHANGED <<mirror, streaming, timer, tasks, failed, link, signalIds, toClient, sessions,
                   named, clients, threw, late>>

HandleUnsubscribe(n) ==
    /\ Handle(n, "unsubscribe")
    /\ toServer' = Handled(n)
    /\ RemoveSubscriber({Head(toServer[n]).signal}, n)
    /\ UNCHANGED <<mirror, streaming, timer, tasks, failed, link, signalIds, toClient, sessions,
                   named, clients, threw, late>>

\* The second client subscribes or unsubscribes.
OtherSubscribes(s) ==
    /\ ~threw
    /\ Event
    /\ s \in registered
    /\ IF Other \in subscribers[s] THEN RemoveSubscriber({s}, Other)
       ELSE RegisterSignalSubscriber(s, Other)
    /\ UNCHANGED <<mirror, streaming, timer, tasks, failed, link, signalIds, toServer, toClient,
                   sessions, named, clients, threw, late>>

\* A signal is announced to, or withdrawn from, every client that streams.
Announced(k, s) ==
    [n \in SessionIds |-> IF n \in clients /\ n = session
                          THEN Append(toClient[n], Message(k, s)) ELSE toClient[n]]

\* addSignal
AddSignal(s) ==
    /\ ~threw
    /\ Event
    /\ s \notin registered
    /\ Managed(registered \cup {s}, subscribers, described, reader, told)
    /\ toClient' = Announced("available", s)
    /\ UNCHANGED <<mirror, streaming, timer, tasks, failed, link, signalIds, toServer, sessions,
                   named, clients, threw, late>>

\* removeComponentSignals
RemoveComponentSignals(s) ==
    /\ ~threw
    /\ Event
    /\ s \in registered
    /\ Managed(registered \ {s}, [subscribers EXCEPT ![s] = {}], [described EXCEPT ![s] = FALSE],
               [reader EXCEPT ![s] = "none"], [told EXCEPT ![s] = {}])
    /\ toClient' = Announced("unavailable", s)
    /\ UNCHANGED <<mirror, streaming, timer, tasks, failed, link, signalIds, toServer, sessions,
                   named, clients, threw, late>>

\* startReadThread and processPackets: the first packet of a reader is the descriptor event, and
\* goes to all subscribers; a subscriber that is no streaming client is an exception.
ProcessPackets(s) ==
    /\ ~threw
    /\ reader[s] = "new" \/ ~(subscribers[s] \subseteq clients)
    /\ reader[s] # "none"
    /\ IF subscribers[s] \subseteq clients
         THEN /\ Managed(registered, subscribers, [described EXCEPT ![s] = TRUE],
                         [reader EXCEPT ![s] = "read"], [told EXCEPT ![s] = subscribers[s]])
              /\ UNCHANGED threw
         ELSE threw' = TRUE /\ UNCHANGED managed
    /\ UNCHANGED <<mirror, streaming, timer, tasks, failed, link, signalIds, toServer, toClient,
                   sessions, named, clients, late, events>>

-----------------------------------------------------------------------------
\* A connected client that streams and has every signal available, none subscribed
SessionInit ==
    /\ listened = [s \in Signals |-> FALSE]
    /\ streamed = [s \in Signals |-> TRUE]
    /\ active = [s \in Signals |-> TRUE]
    /\ op = [s \in Signals |-> << >>]
    /\ count = [s \in Signals |-> 0]
    /\ available = Signals
    /\ reconnecting = FALSE
    /\ status = "Connected"
    /\ initReady = TRUE
    /\ initTimer = FALSE
    /\ tasks = << >>
    /\ failed = "no"
    /\ session = 1 /\ lastSession = 1 /\ attempt = "none"
    /\ signalIds = Signals
    /\ toServer = [n \in SessionIds |-> << >>]
    /\ toClient = [n \in SessionIds |-> << >>]
    /\ sessions = {1} /\ named = 1 /\ clients = {Other, 1}
    /\ registered = Signals
    /\ subscribers = [s \in Signals |-> {}]
    /\ described = [s \in Signals |-> FALSE]
    /\ reader = [s \in Signals |-> "none"]
    /\ told = [s \in Signals |-> {}]
    /\ threw = FALSE /\ late = FALSE /\ staleTimer = FALSE
    /\ events = 0

Processing ==
    \/ SignalAvailable \/ SignalUnavailable
    \/ StartReconnection \/ RequestStreamingOnReconnection
    \/ StreamingInitDone \/ CompleteReconnection

Handler(n) ==
    \/ HandleTransportLayerProps(n) \/ HandleStreamingInit(n)
    \/ HandleSubscribe(n) \/ HandleUnsubscribe(n)

SessionNext ==
    \/ \E s \in Signals :
         \/ OnListenedStatusChanged(s) \/ SetStreamed(s)
         \/ SetActiveStreamingSource(s) \/ DeactivateStreaming(s)
         \/ RequestStep(s)
         \/ ProcessPackets(s)
    \/ \E s \in OtherSignals : OtherSubscribes(s)
    \/ \E s \in ChangingSignals : AddSignal(s) \/ RemoveComponentSignals(s)
    \/ OnSessionError \/ InitClientSessionHandler \/ OnConnectionFailed
    \/ CheckReconnectionResult \/ Receive \/ InitTimerExpires
    \/ Processing
    \/ \E n \in SessionIds : OnServerSessionError(n) \/ Handler(n)

\* A client notices a connection the device has closed.
NoticeLoss == session \notin sessions /\ OnSessionError

\* Threads and timers keep running; an attempt to connect does not fail for ever.
SessionFairness ==
    /\ \A s \in Signals : WF_vars(RequestStep(s)) /\ WF_vars(ProcessPackets(s))
    /\ WF_vars(NoticeLoss) /\ WF_vars(CheckReconnectionResult) /\ WF_vars(Receive)
    /\ WF_vars(InitTimerExpires) /\ WF_vars(Processing)
    /\ SF_vars(InitClientSessionHandler)
    /\ \A n \in SessionIds : WF_vars(Handler(n))

SessionSpec == SessionInit /\ [][SessionNext]_vars /\ SessionFairness

-----------------------------------------------------------------------------
\* The variables have the types their comments give.
SessionTypeOK ==
    /\ {listened, streamed, active, described} \subseteq [Signals -> BOOLEAN]
    /\ \A s \in Signals : Len(op[s]) <= 2 /\ count[s] \in 0 .. Cardinality(Signals)
    /\ available \subseteq Signals /\ signalIds \subseteq Signals /\ registered \subseteq Signals
    /\ status \in {"Connected", "Reconnecting", "Unrecoverable"}
    /\ attempt \in {"none", "pending", "connected", "failed"}
    /\ failed \in {"no", "DuplicateItem", "NotFound", "PromiseSatisfied", "InvalidState"}
    /\ session \in 0 .. lastSession /\ lastSession \in SessionIds
    /\ sessions \subseteq SessionIds /\ named \in sessions \cup {0}
    /\ Other \in clients /\ clients \subseteq sessions \cup {Other}
    /\ \A s \in Signals : /\ subscribers[s] \subseteq SessionIds \cup {Other}
                          /\ told[s] \subseteq subscribers[s]
                          /\ reader[s] \in {"none", "new", "read"}
                          /\ reader[s] = "none" <=> subscribers[s] = {}

Pending(s, k) ==
    Cardinality({t \in Signals : \E i \in DOMAIN op[t] : op[t][i] = Message(k, s)})

\* The subscriber count of a signal is the number of mirrored signals that are listened to,
\* streamed and active and are the signal itself or have it as domain signal, corrected by the
\* calls under way: no order of listening, streaming and source changes on signals that share a
\* domain signal leaves a subscription behind or takes one away too many
\* (doSubscribeSignal, doUnsubscribeSignal).
CountsExact ==
    \A s \in Signals :
        count[s] + Pending(s, "subscribe")
          = Cardinality({t \in Signals : Subscribed(t) /\ s \in {t, DomainOf[t]}})
            + Pending(s, "unsubscribe")

\* A signal the streaming takes for available has a numeric id in the transport layer, so that a
\* request for it is not silently dropped, unless news of its withdrawal or of a lost session is
\* on the way to the processing thread (subscribeSignal of the client handler).  A streaming
\* request that was overtaken by the next session clears ids that are in use: that is the
\* exception.
AvailableAskable ==
    \A s \in available \ signalIds :
        Unheard \/ late \/ Message("unavailable", s) \in ToSet(tasks)

\* The status says "Connected" only while there is a session or the news of its loss is on the
\* way, except after an init timer that was started for an earlier session
\* (updateConnectionStatus, requestStreamingOnReconnection).
StatusHonest ==
    status = "Connected" => session # 0 \/ Unheard \/ staleTimer

\* Once the reader of a signal has delivered its descriptor event, every subscriber has been sent
\* descriptors, whether it subscribed first, before or after the event was read, or after a
\* reconnection (registerSignalSubscriber, processPackets).
SubscribersDescribed ==
    \A s \in Signals : reader[s] = "read" => subscribers[s] \subseteq told[s]

\* No task ends the processing thread of the client, no handler or reader the device, however
\* messages, losses and calls interleave, except after an init timer that outlived its session or
\* a request sent in a session whose start the processing thread had not heard of
\* (addToAvailableSignals, removeFromAvailableSignals, completeReconnection; registerClient,
\* processPackets).
FailsOnlyWhenOvertaken ==
    /\ failed # "no" => staleTimer \/ late
    /\ threw => late

\* completeReconnection finds a reconnection that was started, as the exception it throws
\* otherwise demands, at least while the processing thread keeps up with the sessions.
ReconnectionWasStarted == failed = "InvalidState" => late

Agreed ==
    \A s \in Signals :
        /\ op[s] = << >>
        /\ s \in registered => (session \in subscribers[s] <=> count[s] > 0)

\* When losses, calls and changes of the device end, the device comes to stream to the client
\* exactly the registered signals that have subscribers there, in the last session
\* (resubscribeAvailableSignal, handleStreamingInit, releaseSessionHandlerInternal).
SubscriptionsConverge ==
    <>[](\/ Agreed
         \/ failed # "no" \/ threw \/ late
         \/ session \notin sessions /\ lastSession = MaxSessions)
=============================================================================
