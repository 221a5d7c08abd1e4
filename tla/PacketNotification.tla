-------------------------- MODULE PacketNotification --------------------------
(***************************************************************************)
(* A connection, the input port that is told about its packets, the        *)
(* scheduler that runs the port's callback and the listener that reads.    *)
(* enqueue unlocks the connection before it notifies the port, so between  *)
(* the two other threads may enqueue, read or stop the scheduler.          *)
(***************************************************************************)
EXTENDS Connection

CONSTANTS
    Threads,         \* threads that send packets
    Workers,         \* worker threads of the scheduler
    Listeners,       \* objects that may be the listener of the port
    NoListener,      \* an unassigned reference
    NotifyMethods,   \* by the way listeners read: the PacketReadyNotification values in use
    MaxSetListener   \* bound: calls of setListener on the connected port

ReadMethods == DOMAIN NotifyMethods

ASSUME NotificationAssumption ==
    /\ Threads \cap Workers = {}
    /\ NoListener \notin Listeners
    /\ ReadMethods \subseteq {"dequeue", "dequeueAll"}
    /\ \A r \in ReadMethods :
           NotifyMethods[r] \subseteq {"SameThread", "Scheduler", "SchedulerQueueWasEmpty"}
    /\ MaxSetListener \in Nat

VARIABLES
    notifying,       \* per thread: the notification it owes the port
    listener,        \* listenerRef, and the listener notifySchedulerCallback was made for
    alive,           \* listeners that still exist: the port and its works refer to them weakly
    scheduled,       \* per listener: works made for it that wait in the executor
    reading,         \* per thread: the listener whose packetReceived it is in
    stopped,         \* the scheduler has been stopped
    notifyMethod,    \* how the port tells its listener
    readMethod,      \* how the listeners of this port empty the queue
    setListeners,    \* calls of setListener so far
    missed           \* history: the last wake-up found no listener

noteVars == <<notifying, listener, alive, scheduled, reading, stopped, notifyMethod,
              readMethod, setListeners, missed>>
vars == <<connVars, noteVars>>

Notices == {"none", "wasEmpty", "wasNotEmpty", "onThisThread", "withScheduler"}

(* A connected port with a listener.                                       *)
NoteInit ==
    /\ ConnInit
    /\ notifying = [t \in Threads |-> "none"]
    /\ listener \in Listeners /\ alive = Listeners
    /\ scheduled = [l \in Listeners |-> 0]
    /\ reading = [c \in Threads \cup Workers |-> NoListener]
    /\ stopped = FALSE /\ missed = FALSE /\ setListeners = 0
    /\ readMethod \in ReadMethods
    /\ notifyMethod \in NotifyMethods[readMethod]

(* A thread is free to send: it is neither notifying nor reading.          *)
Free(t) == notifying[t] = "none" /\ reading[t] = NoListener
Owes(t, n) ==
    /\ notifying' = [notifying EXCEPT ![t] = n]
    /\ UNCHANGED <<listener, alive, scheduled, reading, stopped, notifyMethod, readMethod,
                   setListeners, missed>>
(* Fault: the flag is read after enqueue has cleared it.                   *)
QueueWasEmptyLate == IF queueEmpty' THEN "wasEmpty" ELSE "wasNotEmpty"

QueueWasEmpty == IF queueEmpty THEN "wasEmpty" ELSE "wasNotEmpty"

(* enqueue, enqueueAndStealRef: queueWasEmpty is read under the lock and   *)
(* used after it.                                                          *)
Send(t) ==
    /\ Free(t) /\ Room(1)
    /\ \E p \in SentPackets : Enqueue(p)
    /\ Owes(t, QueueWasEmpty)

(* enqueueMultiple                                                         *)
SendList(t) ==
    /\ Free(t)
    /\ \E ps \in Batches : Room(Len(ps)) /\ EnqueueMultiple(ps)
    /\ Owes(t, QueueWasEmpty)

(* enqueueOnThisThread and enqueueWithScheduler: the first descriptor a    *)
(* signal sends when the port is connected.                                *)
SendFirst(t) ==
    /\ Free(t) /\ Room(1)
    /\ \E p \in EventPackets : p.kind = "descriptor" /\ Enqueue(p)
    /\ \E n \in {"onThisThread", "withScheduler"} : Owes(t, n)

(* Thread c wakes the listener l, by a reference that may have expired or  *)
(* be unassigned: packetReceived, or nothing at all.                       *)
PacketReceived(c, l) ==
    \/ l \in alive /\ reading' = [reading EXCEPT ![c] = l] /\ missed' = FALSE
    \/ l \notin alive /\ missed' = TRUE /\ UNCHANGED reading

(* notifyPacketEnqueuedSameThread: on the calling thread.                  *)
NotifySameThread(t) == PacketReceived(t, listener) /\ UNCHANGED scheduled

(* notifyPacketEnqueuedScheduler: the work made for the present listener   *)
(* is handed to the executor, whether or not the listener still exists.    *)
(* Without a listener there is no work: scheduleWork fails and so does the *)
(* sender's call.  A stopped scheduler refuses, and the port ignores that. *)
NotifyScheduler ==
    \/ /\ listener # NoListener /\ ~stopped
       /\ scheduled' = [scheduled EXCEPT ![listener] = @ + 1]
       /\ UNCHANGED <<reading, missed>>
    \/ listener # NoListener /\ stopped /\ UNCHANGED <<scheduled, reading, missed>>
    \/ listener = NoListener /\ missed' = TRUE /\ UNCHANGED <<scheduled, reading>>

NotifyNobody == UNCHANGED <<scheduled, reading, missed>>

(* notifyPacketEnqueued                                                    *)
PacketEnqueuedNotice(t) ==
    \/ notifyMethod = "SameThread" /\ NotifySameThread(t)
    \/ notifyMethod = "Scheduler" /\ NotifyScheduler
    \/ /\ notifyMethod = "SchedulerQueueWasEmpty"
       /\ IF notifying[t] = "wasEmpty" THEN NotifyScheduler ELSE NotifyNobody

NotifyPacketEnqueued(t) ==
    /\ \/ notifying[t] \in {"wasEmpty", "wasNotEmpty"} /\ PacketEnqueuedNotice(t)
       \/ notifying[t] = "onThisThread" /\ NotifySameThread(t)
       \/ notifying[t] = "withScheduler" /\ NotifyScheduler
    /\ notifying' = [notifying EXCEPT ![t] = "none"]
    /\ UNCHANGED <<connVars, listener, alive, stopped, notifyMethod, readMethod, setListeners>>

(* The executor runs a work setListener made: packetReceived of the        *)
(* listener it was made for, replaced or not, if that still exists.  The   *)
(* port does: the connection holds a reference to it.                      *)
RunCallback(w) ==
    /\ reading[w] = NoListener
    /\ \E l \in Listeners :
           /\ scheduled[l] > 0
           /\ scheduled' = [scheduled EXCEPT ![l] = @ - 1]
           /\ PacketReceived(w, l)
    /\ UNCHANGED <<connVars, notifying, listener, alive, stopped, notifyMethod, readMethod,
                   setListeners>>

Returned(c) ==
    /\ reading' = [reading EXCEPT ![c] = NoListener]
    /\ UNCHANGED <<notifying, listener, alive, scheduled, stopped, notifyMethod, readMethod,
                   setListeners, missed>>

(* packetReceived of a function block: dequeue until there is nothing.     *)
ReadPacket(c) ==
    /\ reading[c] # NoListener /\ readMethod = "dequeue"
    /\ Dequeue
    /\ UNCHANGED noteVars
ReadNothing(c) ==
    /\ reading[c] # NoListener /\ readMethod = "dequeue"
    /\ DequeueNothing
    /\ Returned(c)

(* packetReceived of the recorders: one dequeueAll.                        *)
ReadAll(c) ==
    /\ reading[c] # NoListener /\ readMethod = "dequeueAll"
    /\ DequeueAll
    /\ Returned(c)
Read(c) == ReadPacket(c) \/ ReadNothing(c) \/ ReadAll(c)

(* setListener on a connected port, with a listener or with none: the      *)
(* known descriptors are queued again, nobody is notified, and the works   *)
(* already in the executor stay those of the listener before.              *)
SetListener(l) ==
    /\ Len(packets) < MaxQueue /\ setListeners < MaxSetListener
    /\ EnqueueLastDescriptor \/ (NothingKnown /\ UNCHANGED connVars)
    /\ listener' = l
    /\ setListeners' = setListeners + 1
    /\ UNCHANGED <<notifying, alive, scheduled, reading, stopped, notifyMethod, readMethod, missed>>

(* The last reference to a listener goes: its owner lets it go, and no     *)
(* thread is in its packetReceived, which holds one.                       *)
ReleaseListener(l) ==
    /\ l \in alive /\ \A c \in Threads \cup Workers : reading[c] # l
    /\ alive' = alive \ {l}
    /\ UNCHANGED <<connVars, notifying, listener, scheduled, reading, stopped, notifyMethod,
                   readMethod, setListeners, missed>>

(* setNotificationMethod, at any moment: the packets already queued and    *)
(* the notifications under way are left as they are.                       *)
SetNotificationMethod(m) ==
    /\ notifyMethod' = m
    /\ UNCHANGED <<connVars, notifying, listener, alive, scheduled, reading, stopped, readMethod,
                   setListeners, missed>>

(* SchedulerImpl::stop: the executor finishes what it has taken on.        *)
StopScheduler ==
    /\ ~stopped
    /\ stopped' = TRUE
    /\ UNCHANGED <<connVars, notifying, listener, alive, scheduled, reading, notifyMethod,
                   readMethod, setListeners, missed>>

SwitchPort == SetActive /\ UNCHANGED noteVars

NoteNext ==
    \/ \E t \in Threads : Send(t) \/ SendList(t) \/ SendFirst(t) \/ NotifyPacketEnqueued(t)
    \/ \E w \in Workers : RunCallback(w)
    \/ \E c \in Threads \cup Workers : Read(c)
    \/ \E l \in alive \cup {NoListener} : SetListener(l)
    \/ \E l \in Listeners : ReleaseListener(l)
    \/ \E m \in NotifyMethods[readMethod] : SetNotificationMethod(m)
    \/ StopScheduler
    \/ SwitchPort

(* Threads run: a thread that owes a notification delivers it, a worker    *)
(* takes a waiting callback, a reader goes on reading.  Nobody has to      *)
(* send, to stop the scheduler or to replace or release a listener.        *)
Fairness ==
    /\ \A t \in Threads : WF_vars(NotifyPacketEnqueued(t))
    /\ WF_vars(\E w \in Workers : RunCallback(w))
    /\ \A c \in Threads \cup Workers : WF_vars(Read(c))

NoteSafe == NoteInit /\ [][NoteNext]_vars
NoteSpec == NoteSafe /\ Fairness

--------------------------------------------------------------------------------
(* Every variable keeps its type.                                          *)
NoteTypeOK ==
    /\ ConnTypeOK
    /\ notifying \in [Threads -> Notices]
    /\ listener \in Listeners \cup {NoListener}
    /\ alive \subseteq Listeners
    /\ scheduled \in [Listeners -> Nat]
    /\ reading \in [Threads \cup Workers -> Listeners \cup {NoListener}]
    /\ stopped \in BOOLEAN /\ missed \in BOOLEAN
    /\ readMethod \in ReadMethods
    /\ notifyMethod \in NotifyMethods[readMethod]
    /\ setListeners \in Nat

(* Somebody is going to be woken, or is awake: a reader, a waiting work,   *)
(* or a thread whose notification is going to make one, whatever the       *)
(* method is by then.                                                      *)
WillNotify(t) ==
    \/ notifying[t] \in {"wasEmpty", "onThisThread", "withScheduler"}
    \/ notifying[t] = "wasNotEmpty" /\ "SchedulerQueueWasEmpty" \notin NotifyMethods[readMethod]
Awake == \/ \E c \in Threads \cup Workers : reading[c] # NoListener
         \/ \E l \in Listeners : scheduled[l] > 0
         \/ \E t \in Threads : WillNotify(t)

(* The two ways out: the scheduler was stopped, or the last wake-up was    *)
(* for a listener that no longer existed (or there was none).              *)
Excused == stopped \/ missed

(* queueEmpty is the word of a consumer that drains with dequeue that it   *)
(* has gone to sleep: while it is FALSE somebody is awake, and while it is *)
(* TRUE no packet of a producer waits.                                     *)
Handshake ==
    readMethod = "dequeue" =>
        /\ ~queueEmpty => Awake \/ Excused
        /\ queueEmpty => \A i \in DOMAIN packets : packets[i].seq = 0

(* No lost wake-up: a packet that waits in the queue has somebody who will *)
(* be woken for it, with every notification method and across changes of   *)
(* it and of the listener, although SchedulerQueueWasEmpty skips most      *)
(* notifications and the flag it skips them by is read before the          *)
(* notification is given.  The exceptions are a stopped scheduler and a    *)
(* wake-up whose listener was gone when it came: nobody repeats that one.  *)
NoLostWakeup ==
    (\E i \in DOMAIN packets : packets[i].seq # 0) => Awake \/ Excused

(* The numbers of the packets of the producers in the queue, in order: the *)
(* n-th is at the place that has n of them up to it.                       *)
WaitingNumbers ==
    LET own == {i \in DOMAIN packets : packets[i].seq # 0}
        Nth(n) == CHOOSE i \in own : Cardinality({j \in own : j <= i}) = n
    IN  [n \in 1 .. Cardinality(own) |-> packets[Nth(n)].seq]

Stream == INSTANCE PacketStream WITH
    Limit <- MaxSent, accepted <- sent, waiting <- WaitingNumbers, closed <- Excused

(* The connection with its port, scheduler and listeners implements the    *)
(* stream of packets a signal relies on, whatever packets the connection   *)
(* adds of its own and whoever reads them on which thread: packets come    *)
(* out in order, once, and all of them in the end, unless the scheduler    *)
(* was stopped or a wake-up missed its listener and no later one follows.  *)
ImplementsStream == Stream!StreamSpec
================================================================================
