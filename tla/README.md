# The openDAQ data path, in TLA+

openDAQ moves measurement data from signals to input ports as packets, within a process and over the network. This
directory models what every packet goes through: signals, ports and the locks they take of each other; the queue
between a signal and a port; the notification that makes somebody read it; the scheduler's main-thread loop; the
buffer that packets take their memory from; and, for a remote device, the packet streaming protocol and the
subscriptions of a client across lost connections. TLC checks the models on small instances; TLAPS proves most of
their safety properties for every number of threads, packets, signals, sessions and descriptors.

    tlc -workers 2 -config MCConnection_gap.cfg MCConnection      # likewise for each .cfg
    tlapm ConnectionProofs.tla                                    # likewise for each ...Proofs module

## 1. Inventory

Paths are relative to `src/`.

| Part | State | Operations | Hard part | Correct when |
|---|---|---|---|---|
| **Connection** `core/opendaq/signal/src/connection_impl.cpp` | queue of packets, `queueEmpty`, three counters, gap-check state, last value and domain descriptor | enqueue (one, list, list by stolen reference, on this thread, with scheduler), `enqueueLastDescriptor`, `dequeue`, `dequeueAll`, `dequeueUpTo`, `getSamplesUntilNext...` | counters kept incrementally by some operations and recomputed or dropped by others; gap check interleaved with descriptor changes | FIFO; counters agree with the queue; gaps are marked; data is read under its descriptor |
| **Input port** `signal/include/opendaq/input_port_impl.h` | listener, notification method, scheduled callback, connection, active flag | `notifyPacketEnqueued...`, `setListener`, `setNotificationMethod`, connect, disconnect, remove | notification is given after the queue's lock is released, on a flag read before | no lost wake-up; every packet is read |
| **Signal** `signal/include/opendaq/signal_impl.h` | descriptor, domain signal, connections, last value | `sendPacket(s)`, `setDescriptor`, `setDomainSignal`, listener (dis)connected, remove | packets are sent to a copy of the connections after the lock; locks of signal and port taken in both orders | each connection sees descriptors before the data they describe; no deadlock |
| **Scheduler** `scheduler/src/scheduler_impl.cpp` | executor, `stopped` | `scheduleWork`, `scheduleFunction`, `scheduleGraph`, `stop`, `waitAll` | stop against submission | accepted work runs |
| **Main thread loop** (same file) | `running`, work queue | `run`, `runIteration`, `scheduleTask`, `stop` | iteration runs outside the mutex; stop is a queued work | no work lost or doubled; stop ends the loop |
| **Packet buffer** `utility/src/packet_buffer_impl.cpp` | ring positions, `isFull`, heap of pieces released out of order, `underReset` | `createPacket`, the packet's deleter, `resize`, space queries | release in any order over the wrap-around; resize waits for everybody | memory lent once; all of it comes back |
| **Readers** `reader/src` | per-signal queues, time-outs, sync state | read, skip, callbacks | time-out against a late packet; several signals aligned | no sample lost, doubled or misaligned |
| **Packet streaming** `shared/libraries/packet_streaming/src` | server: buffers queued in groups, ids sent and ready for release; client: descriptors, packets referenced, buffers that wait | add packet, write task, add buffer | a packet crosses the link once and is referred to by id afterwards; its end is reported by its destructor, on any thread | nothing lost, doubled or unknown; nothing remembered for ever |
| **Streaming, mirrored signals** `core/opendaq/streaming/include/opendaq` | subscriber counts, available signals, status | subscribe, unsubscribe, start and complete a reconnection | users against the processing thread; signals that share a domain signal | counts exact; what is subscribed is streamed again after a loss |
| **Native streaming** `shared/libraries/native_streaming_protocol/src`, `modules/native_streaming_{client,server}_module/src` | sessions, client ids, subscribers and readers | connect, reconnect, initialise, subscribe, announce, read | loss noticed by either side at any time; a time-out that outlives its session | device and client agree in the end; nobody throws |
| **Other protocols** `shared/libraries/{config_protocol, websocket_streaming}` | requests, notifications | request/reply | disconnection in the middle | client mirrors the server |
| **Component tree, devices, function blocks, module manager, instance, logger, core types and objects** | trees, properties, user locks, types | add, remove, set property, begin/end update, load, discover | mostly sequential under one recursive lock | tree and properties consistent |
| OPC UA, discovery, modules, bindings, examples, vendored code | | | translation and I/O | |

Interactions: a signal calls its connections' `enqueue`; the connection, its lock released, calls the port; the
port calls its listener (a function block or a reader) on the sender's thread or hands a work to the scheduler;
the listener reads from the connection. `setListener` on a connected port writes a descriptor event into the
connection. On a device a streaming server is the listener, whose read thread puts packets into one packet
streaming server per client; on the client a mirrored signal sends what the packet streaming client makes of the
buffers. The main-thread loop is fed by any thread through the scheduler. Packets from a packet buffer call
back into it when the last reference to them goes, on whatever thread that is.

The complete list of parts is in `PROJECT.json` under `components`, the hazards with their lines under `hazards`.

## 2. Modules

| Module | Models | Built on |
|---|---|---|
| `Connection` | `ConnectionImpl` | |
| `PacketNotification` | port notification, scheduler work, listener | EXTENDS `Connection` |
| `PacketStream` | abstract: the stream of packets a port promises | implemented by `PacketNotification` |
| `SignalPath` | signals, ports, their connections and the component mutexes | |
| `PacketStreaming` | `PacketStreamingServer`, `PacketStreamingClient`, write tasks | |
| `StreamingSession` | mirrored signals, `StreamingImpl`, native streaming client and server | |
| `PacketBuffer` | `PacketBufferImpl` | |
| `MainThreadLoop` | `MainThreadLoop` of the scheduler | |
| `ConnectionProofs` | theorems on the counters, and on order, gaps and descriptors | EXTENDS `Connection` |
| `PacketNotificationProofs` | theorems on the notification | EXTENDS `PacketNotification`, `ConnectionProofs` |
| `SignalPathProofs`, `StreamingSessionProofs`, `PacketStreamingProofs`, `PacketBufferProofs`, `MainThreadLoopProofs` | theorems | each EXTENDS the module it is about |
| `PacketStreamingDeliveryProofs` | theorems on what the link delivers | EXTENDS `PacketStreamingProofs` |
| `MC...` | instances for TLC | |

Definitions named *...Twice*, *...Uncounted*, *...Backwards* and the like, marked "Fault:", are deliberately
wrong variants of the definition that follows them. No specification uses them; substituted for the original
they must break a property, which shows that the property depends on that piece of code.

**Connection.** One variable per member of the class; a packet is a record of what the class looks at (kind,
sample count, domain offset, descriptors). Each public method is one action, because each holds the mutex from
its first to its last access (the build without `OPENDAQ_THREAD_SAFE`, which has no mutex, is for one thread).
`Enqueue` contains the gap check, the counters and the descriptors, in that order; the exception `checkForGaps` may
throw (an unsupported domain sample type) leaves the queue unchanged. The GCC/Clang build uses the two overloads of
`enqueueMultipleInternal` (lines 99-154). `sent`, `delivered`, `readDescriptor` and `strays` are history: how many packets were
accepted and handed out, the descriptor a consumer has seen last, and how many event packets with an id the class does
not know (`"other"`) were handed out. `seq` numbers a packet in the order of the
calls and the lists given; packets the connection makes itself (gap packets, repeated descriptors) have `seq` 0.
Offsets are integers; a `Float64` domain is modelled by its tolerance (a tenth of a sample step).

**PacketNotification.** `notifying[t]` is what a thread owes the port between the unlock in `enqueueInternal` and the
call of `notifyPacketEnqueued`: the stale `queueWasEmpty`. `listener` is the port's weak reference (`listenerRef`) and
what `notifySchedulerCallback` was made for, `alive` the listeners that exist, `scheduled[l]` the works in the executor
that were made for `l`, `reading[c]` the listener in whose `packetReceived` a thread is. `setListener` takes a listener or
none at any moment and leaves the works already in the executor with the listener they were made for; a listener may be
destroyed while no thread is in its `packetReceived`, also without having been replaced. A work whose listener is gone
does nothing (`input_port_impl.h:419`), and so does the notification on the sender's thread (line 304); without a listener
there is no callback, `scheduleWork` fails and the error reaches the sender, with the packet left in the queue. That
the last wake-up found nobody is recorded in `missed`, until one finds a reader. The work's weak reference to the port does
not expire, as the connection holds the port. A listener either drains with `dequeue` until there is nothing (the
reading loop of the function blocks, e.g. `scaling_fb_impl.cpp:183`) or calls `dequeueAll` once (the recorders, e.g.
`parquet_recorder_impl.cpp:115`). The owner of the port may change the notification method at any moment among
`NotifyMethods`, which is given for each way of reading; a scheduler is assumed to be present (without one the port falls
back to `SameThread`). `None` and `Unspecified`, where the consumer polls, owe no wake-up and are left out.

**PacketStream** is what the sender relies on: packets taken on in lists, handed out oldest first, once, and all in the
end unless the stream is closed and stays closed. `PacketNotification` implements it (`ImplementsStream`) with `accepted` the
packets sent, `waiting` the numbers of the producers' packets in the queue and `closed` the two excuses for a packet that
waits (`Excused`): the scheduler is stopped, or the last wake-up found no listener. Gap packets, repeated descriptors,
notifications and other changes of the port are steps the abstract stream does not see.

**SignalPath.** `owner` is the mutex of every component, `thread[t]` the call a thread is in: method, stage, arguments and
the lists it walks. A step ends where the code takes or gives back a lock, calls a listener or leaves a window. The port
keeps a weak reference: `GetConnectionNoLock` gives a connection while a signal's list or a thread holds it. A connection
is the log of the packets it accepted; what it does with them is `Connection`. Check of activity and push are two steps
(`EnqueueCheckActive`, `EnqueuePush`), `setDescriptor` announces to value signals after the unlock with the descriptor it
reads then, and a listener may refuse. History: `fate` of a connection, `raced` (touched between the unlock of the
port and the registration with the signal), `misled` (not told of a change of its domain), `listener` and `unheard` (what
the listener was told).

**PacketStreaming.** The server's queue with its groups, `sent` and `readyForRelease` of the packet collection, the link,
and the client's descriptors, referenced packets and waiting buffers. Who holds a packet is computed from where it is
(`Left`), so that the destructor, which moves an id from `sent` to `readyForRelease`, runs as part of the step that drops
the last reference (`Destroy`). The client's code runs in one step per buffer. `waiting` is the map from a domain packet
to the buffers that came before it; `referencedPacketBuffers`, which shares those buffers, is read off it. The mark of a
release is added to the flags in the code, so a second one would clear it: the model toggles. `delayed` and `flagLost` are
history.

**StreamingSession.** The client's users, its transport thread and its processing thread; the device's handlers, under one
mutex, and its reading thread. Sessions are numbered; each delivers in order and may be lost at any time on either side:
what the device has sent is lost, what the client has sent may be handled until the device notices. `tasks` is what the
transport thread posted to the processing thread, whose exceptions end it (`failed`), as those of the device's threads
do (`threw`). `late` (a request sent before the processing thread had heard of the preceding loss) and `staleTimer` are
history. Identifier 0 among the clients is a second client that stays connected.

**PacketBuffer.** Addresses are offsets from `data.data()`; the heap is a sequence ordered by (address, size) as the
priority queue orders its pairs, so the pieces the loop of `CleanOosPackets` pops are a prefix (`Reached`, `Popped`),
`live` the packets not yet destroyed. Creation, release and each side of the wait in
`resize` are one action each, as the mutex makes them. `inOrder` records whether packets were destroyed oldest first.

**MainThreadLoop.** An iteration is `SwapQueue` (mutex held), one `ExecuteWork` per work (mutex free), `EndIteration`
(mutex held). `wait_until` has a predicate that is always false, so only the time-out ends it and `notify_one` has no
effect. A repetitive work decides at each execution whether it stays. `asked[t]` is history: `stop` was called while
`t` was in `run`.

## 3. Runs

| Run | Shows |
|---|---|
| `connection_gap` | `FifoWindow`, `GapsMarked`, `DescriptorInForce`, `CountersExact`: one-by-one sending, events of every kind, `dequeue` |
| `connection_mixed` | `SamplesExact`, `CountersCover`, `FastPathsRight`, `LastDescriptorReachesConsumer`: every way of sending and reading |
| `connection_stealRef` | **violated**: `enqueueMultipleAndStealRef` reverses its list |
| `notification_listeners` | `Handshake`, `NoLostWakeup`, `ImplementsStream` (the refinement of `PacketStream`): two senders, two listeners; method changed, listener replaced, removed or destroyed, scheduler stopped on the way; listeners with `dequeue` under every method and with `dequeueAll` under those that always notify |
| `buffer_any` | `NoOverlap`, `EmptyExactlyWhenIdle`, `MaxAvailableFits` for any order of destruction; that all memory comes back and `ResizeReturns` while it is oldest first |
| `loop_one` | `WorkInOnePlace`, `WorksInOrder`, `StopEndsLoop`, `QueuedWorkExecuted`: one thread in the loop |
| `loop_staleStop` | **violated**: a `stop` made while no loop runs ends the next `run` |
| `streaming_link` | `ClientNeverThrows`, `NothingLost`, `ReceivedAsSent`, `DescriptorsTold`, `NoLeak`, `GroupsExact`, `NobodyWaitsInVain`: two signals share packets over the link |
| `signal_path` | `DataUnderItsDescriptors`, `EndsAgree`, `ListenerKnows`, `DeadlockOnlyAgainstOrder`: acquisition against configuration on two threads |
| `signal_domain` | **violated**: `setDomainSignal` announces nothing to the connections |
| `session_reconnect` | `CountsExact`, `AvailableAskable`, `StatusHonest`, `SubscribersDescribed`, `FailsOnlyWhenOvertaken`, `SubscriptionsConverge`: lost connections, changes of the device, a second client |
| `session_flapping` | **violated**: two losses within the initialisation time-out let the first timer complete the second reconnection, and the second timer throws |

Type invariants are checked on their own (`ConnTypeOK`, `PathTypeOK`, `SessionTypeOK`), as part of an invariant that needs
them (`NoOverlap`, `WorkInOnePlace`, `NoLeak`) or proved (`NoteTypeOK`, in `NoteInv`).

The violations are disagreements between the code and a comment, document or assertion of the repository, quoted in `PROJECT.json` under `findings`. Others of the same kind were
met and are noted with the hazards: `hasGapPacket` and `hasEventPacket` after `dequeueAll`/`dequeueUpTo`; `hasEventPacket`,
which stays true once an event packet with an id other than the two known ones was read, as `onPacketEnqueued` counts it and
`onPacketDequeued` does not (`connection.h:169`); `dequeueAll` under
`SchedulerQueueWasEmpty`, which leaves `queueEmpty` FALSE and so wakes nobody for the next packet; the gap size reported
after a list; memory of the packet buffer that does not come back when packets are destroyed out of order over the wrap-around;
a packet of zero bytes that makes a full buffer look empty; two threads in `resize`; a second
`run` let in while the first still executes works; the swapped arguments of `registerClient`.

**What the properties except.** Where the code is known to miss a property in one precisely described situation, the
property is stated for everything else and the situation is recorded by a history variable: a wake-up whose listener was
gone (`missed`), event packets no counter is lowered for (`strays`: from then on `CountersExact` says that `hasEventPacket` is
true), connections touched in the
window of `connectInternal` (`raced`), domain changes nobody announces (`misled`), a listener not told of the connection it
refused to replace (`unheard`), the two places that take locks against the order (`AgainstOrder`), packets that waited for
their domain packet (`delayed`), the ignored CAN_RELEASE flag (`flagLost`), requests overtaken by a session (`late`), the
timer that outlives its session (`staleTimer`), packets destroyed out of order (`inOrder`). Each is a hazard in `PROJECT.json`.

**Bounds.** `MaxSent`, `MaxQueue`, `MaxBatch` bound calls, queue length and lists. Four packets hold a descriptor change,
two data packets with a gap packet between them and one more event. Offsets {0, 1, 11} give, for
a step of 1, a continuing packet, an overlap and a jump; for the `Float64` domain with a step of 10, a packet at 11
continues one at 1 exactly and one at 0 just within the tolerance, and every other pair is a gap. Two senders and a worker are the fewest for a notification to be overtaken by a reader that another
notification woke; with two listeners and one `setListener` a work can belong to a listener that is replaced, or gone, while
the port has another, or none. A buffer of 6 bytes (or 4 after a resize) and packets of 1 to 3 wrap with every remainder and leave dummy pieces of each
size; `MaxLive` 6 is as many packets as fit, so only the buffer refuses one. Two
one-shot works, a repetitive one and two stops make iterations that begin, end and restart around each other.

`streaming_link` has a packet too large to be cached and its small domain packet, both sent to two signals; three sends and
descriptor changes give a packet sent twice, one that waits for its domain packet, and a descriptor changed in between; a
threshold of 1 releases at once, which is when a release can cross a reference. `signal_path` has a value and a domain
signal, one port and two connections, so that a connection can be replaced; two calls each of the acquisition and one
configuring thread and one of another are the fewest in which two calls on a port cross while a third changes a descriptor or sends.
`session_reconnect` has a value signal with its domain signal and three sessions: a loss during the reconnection
after a loss. Its three events are calls, changes of the device and losses in any mix. The signals of
`streaming_link` are symmetric and its run checks no liveness; no other run uses symmetry.

**Fairness.** A thread that owes a notification gives it; if a callback waits, some worker takes one; a reader goes on
reading; a thread in the loop goes on (its wait has a time-out); packets are destroyed in the end; a resize whose
condition holds wakes up (every release notifies it). Nobody has to send, stop, resize, replace a listener or call `run`.
In `StreamingSession` the threads and timers of client and device keep running, a client notices a connection the device
has closed (heartbeats), and an attempt to connect does not fail for ever: strong fairness of
`InitClientSessionHandler`, as a failed attempt is repeated with the reconnection period. Losses, calls and changes are
bounded by `MaxEvents` and not fair. All other fairness is weak.

**Deadlock** is checked except in `buffer_any`, where a resize of a buffer that lost memory waits for ever, in
`streaming_link`, `signal_path`, `signal_domain` and the session runs, where the bounded numbers of calls, sends and sessions end the
behaviour. Deadlock between locks is the invariant `DeadlockOnlyAgainstOrder`: a set of threads each of which waits for a
mutex another of them holds always has one that replaces or removes a connected port or removes a domain signal.

## 4. Proofs

`ConnectionProofs`, for all packets, descriptors, batch sizes and bounds:

- `ConnTypeCorrect`: `ConnSpec => []ConnTypeOK`. The content is in the counters: unsigned in the code, decremented
  packet by packet in `onPacketDequeued`, natural numbers in every reachable state.
- `AvailableSamplesExact`: `samplesCnt` is the number of samples queued.
- `CountersNeverBehind`: `eventPacketsCnt` and `gapPacketsCnt` are at least the numbers queued.
- `ShortcutsAreSafe`: the `getSamplesUntilNext...` methods, which skip the walk when a counter is zero, answer as
  the walk would.

The inductive invariant is `ConnInv`: the types, the exact sample count, the covering counters, and that the gap check
is disabled exactly if it was not asked for. The type invariant is not inductive alone: that a decrement stays in the naturals
needs the counter to cover the packet taken. `dequeueAll` and `dequeueUpTo` destroy exactness of the gap
counter but not covering, and covering is what the shortcuts need: zero then means there is none. Counting is by the
cardinality of a set of places, so that no recursion is needed; the lemmas say how it behaves under concatenation,
`Tail` and prefix. One lemma per action.

`PacketNotificationProofs`, for any number of senders, workers and listeners:

- `NoWakeupIsLost`: unless `dequeueAll` is paired with the method that waits for the empty edge (`SafePairing`),
  a queued packet always has a reader, a waiting work or a notification under way, but for the two excuses: the
  scheduler is stopped, or the last wake-up found its listener gone.
- `HandshakeKept`: under the same hypothesis and up to the same excuses, with `dequeue` `queueEmpty` FALSE means somebody
  is awake; TRUE always means nothing of a producer waits.
- `PortImplementsStream`: `PacketNotification` implements the safety part of `PacketStream`, with any listeners and any methods
  (whether somebody is woken does not matter to the order).

`NoLostWakeup` is not inductive: a sender that finds `queueEmpty` FALSE may keep quiet. `NoteInv` adds `Handshake`
(for `dequeue`) and the invariant of the connection. The argument: only `dequeue` on an empty queue sets the flag, in the
same critical section in which the reader learns that there is nothing, so a sender that later finds FALSE comes after a sender
that found TRUE and has either notified or still owes it. A wake-up that is used up makes a reader or, if its listener
is gone, sets `missed`; `missed` is cleared only where a reader is made. `SafePairing` is necessary: after `dequeueAll` the
flag stays FALSE on an empty queue, and under `SchedulerQueueWasEmpty` nobody is woken for the next packet.
The refinement rests on the window of `FirstInFirstOut`: the numbers that wait are those after the ones handed out up to those
sent, so an enqueue appends the next numbers (`Accept`), a read takes away the first ones (`Deliver`), the stop of the scheduler and a wake-up that
finds no listener are `Close`, one that finds a listener after that is `Open`, and every other step leaves all four abstract
variables alone.

`ConnectionProofs` again, on top of `ConnInv`:

- `DescriptorNeverLost` (`LastDescriptorReachesConsumer`), for every producer and consumer. The step that matters is
  `setListener`, which puts the connection's own descriptor in front of everything queued.
- `DataReadUnderItsDescriptor` (`DescriptorInForce`), if `enqueueLastDescriptor` is not among the producers: the repeated
  descriptor goes to the front, before data that was sent under an older one. The invariant adds that the queue
  ends with the connection's descriptor in force, under which the next data comes.
- `FirstInFirstOut` (`FifoWindow`), if `enqueueMultipleAndStealRef` is not among the producers (run `connection_stealRef`).
- `GapsMarkedExactly` (`GapsMarked`), with gap checking on and packets enqueued one by one (lists are not
  checked). The invariant ties `nextExpectedPacketOffset` and the domain to the last data packet queued, and says that a gap
  packet is never the last.
- `EventAnswersExact` (`CountersExact`), for consumers that only use `dequeue`, and events of every kind: `hasGapPacket` is
  exact; `hasEventPacket` is exact as long as no event packet with an unknown id was handed out, and true from then on.

Each hypothesis is on the constants `Producers` and `Consumers`, which methods of the class are used, and for
`GapsMarkedExactly` on `GapChecking`. The runs that check these properties satisfy them.

`MainThreadLoopProofs`: `WorksNeverLost` (`WorkInOnePlace`) for any threads that run, stop and feed the loop;
`LoopKeepsOrder` (`WorksInOrder`) when one thread runs it. The order of two works is that one place precedes another in the
works done, taken and queued, in that sequence; the invariant says the order of submission is that order.

`PacketBufferProofs`, for every size of the buffer and every order of destruction: `MemoryLentOnce` (`NoOverlap`) and
`EmptyMeansIdle` (`EmptyExactlyWhenIdle`), if no packet is empty. `RingInv` describes the ring: the pieces that are lent
and those that wait in the heap, the dummy piece at the end included, lie apart from each other in the part from `readPos`
to `writePos`, which is everything when `isFull`. `LineInv` says that with destruction oldest first the pieces lent are one
line from `readPos` to `writePos`, and only the dummy piece waits in the heap. The hypothesis `0 \notin PacketSizes` is needed: TLC
finds that the release of an empty packet at `readPos` of a full buffer clears `isFull` (lines 22-32), after which memory
is lent twice.

`SignalPathProofs`, for any number of signals, ports, connections and threads:

- `PathTypeCorrect`, and `NoDeadlockInOrder` (`DeadlockOnlyAgainstOrder`). `LocksHeld` says which mutexes a thread may hold at each
  stage of each call. Then a call that holds a value signal waits for a domain signal or a port, one that holds a domain signal
  for a port, and ports are held over a wait only by calls against the order: threads that wait for each other without one of
  those would need a domain signal that is a value signal.
- `EndsAlwaysAgree` (`EndsAgree`), which speaks only of states without a call in progress. `EndsInv` says what holds in the middle of the calls.
  `Standing` follows a connection by its fate: while it is made, one `connect` makes it, and the stage of that call decides whether the port refers to it and whether
  the signal lists it; once connected both ends have it, and if its signal is being removed the removal has yet to come to it; once
  given up the port has let go, and as long as the signal lists it a call is under way that will take it out; a failed one is nowhere.
  `CallsApart` (one call makes a connection, lists have no repetition), `RefsInOrder` (a removed port, or one whose mutex is held to
  give up a connection, refers to none) and `ListsInOrder` (what is taken out of a list was given up before) carry it, and
  `LocksFull`, the mutexes a call surely holds: only the removal itself touches the list of a signal it has locked.
- `ListenerAlwaysKnows` (`ListenerKnows`) on top of it: `ListenerInv` says that a listener is wrong about its port only while a
  call is about to ask it (`connect` before the listener) or to tell it (a port that gives up its connection), or is excused for one of the reasons
  the property names.
- `DataAlwaysDescribed` (`DataUnderItsDescriptors`), if one thread acquires (`OneAcquisitionThread`: it alone sends packets and
  sets descriptors; what the others do is free). With two TLC finds data ahead of the event of its descriptor, as `sendPacket`
  pushes after it has given back the mutex of the signal. `DescriptorInv` follows the news from a changed descriptor to a log.
  A connection that is listed was told the descriptor of its signal last, or is in the list `setDescriptor` still walks
  (`ValueTold`), or its first event is under way under the mutex of the signal and carries the descriptors in force
  (`FirstEvents`); of the domain descriptor (`DomainTold`) there is one case more: the value signal is in the list of signals to be
  told, or will be when that list is made. The last needs `DomainsKnown`: a domain signal has noted every value signal it is the domain of,
  but for those between the two halves of `setDomainSignal`. What the acquisition thread carries is then right for all it still goes to:
  no `connect` is making them (`WalksApart`), and nobody else pushes to them, so the data it sends matches what they were told
  when it copied the list (`Sends`).

`StreamingSessionProofs`, for any number of signals, sessions and events:

- `SessionTypeCorrect`, and `SubscriberCountsExact` (`CountsExact`) from `CountsInv`, which adds what the calls under way
  will still do; from it the action property `UnsubscribeNeverRefused`: the exception of `doUnsubscribeSignal` is not reached.
- `DescriptorsReachSubscribers` (`SubscribersDescribed`).
- `StatusIsHonest` (`StatusHonest`): `StatusInv` follows the tasks: between two connections, and after the last one
  when there is none, the report of a loss is queued; and the init timer belongs to the reconnection in progress.
- `AvailableIsAskable` and `ThreadsFailOnlyWhenOvertaken` from `OrderInv`, the longest of the invariants: what the messages of
  a session and the tasks made of them will do to the signals known to the client, in their order, agrees with what the device
  has registered, so that no signal is added twice or removed without being there.

`PacketStreamingProofs`, for any packets, signals, thresholds and payloads:

- `GroupCountersExact` (`GroupsExact`): the groups of the queue are contiguous and none has a number above the current one,
  which is that of the last buffer if it is cacheable: so only the group at the end grows, and a task takes the whole group at the head.
- `LinkNeverBreaks` (`ClientNeverThrows`). `LinkInv` looks along the buffers under way: a buffer that refers to a packet by
  its id finds the packet at the client or its data buffer ahead, with no release in between; a packet that counts as sent, or whose release is owed, is
  at the client when everything under way has arrived; one not sent is not mentioned. `DescribedInv` says the same of descriptors.
- `NothingKeptForGood` (`NoLeak`). `LeakInv` adds that a packet waits in one place or is referenced, never both, and that every
  packet kept, or about to be kept by a buffer under way, is still counted as sent, owed a release, released further along
  the link, or one whose mark was lost on a packet that waits (`flagLost`).
- `ReaderToldDescriptors` (`DescriptorsTold`). `ToldInv` says that the last place among the packets received that tells a
  descriptor of a kind holds the one known. One `processPacketBuffer` may hand over several packets, those that waited for it among them:
  none of the woken is an event packet, so they tell nothing.
- `WaitersAreServed` (`NobodyWaitsInVain`). `VainInv`: a data buffer is on its way only with its domain packet referenced at the server,
  so the release of the domain packet comes behind it on the link; a domain packet that came is still at the client while a packet that
  needs it is under way or may be added; and a packet that waits, waits for one that has not come.

`PacketStreamingDeliveryProofs`, on top of these:

- `PacketsConserved` (`NothingLost`). `LossInv` balances, for each signal and packet, the times `addDaqPacket` was given it against
  the buffers under way, the packets received, the buffers that wait and the signals that ask for a packet while it waits.
  The buffers of one packet wait in one list, that of its domain packet; when that one comes, the packets handed over are counted
  along the steps of `FlattenSeq` (`FlattenCount`): one for each buffer that waited and one for each signal that asked meanwhile.
  The balance rests on `LinkNeverBreaks`: a client that throws would drop the buffer.
- `ArriveAsSent` (`ReceivedAsSent`), in two halves. `OrderInv`: there is a matching, increasing from place to place, of a signal's data
  in what was added with its data received and, behind those, its data under way; it meets every place that was added, so the n-th received is the n-th added.
  Packets that had to wait are left out on both sides, and those woken by a domain packet are such packets (`WaitersDelayed`).
  `ValueInv`: where a data buffer stands on the link, the descriptor told last before it, by the event buffers ahead of it or else the one the client knows, is
  the packet's own, and the same along what the signal's connection holds; where the two lines meet, the one goes on from the last word of the other.
  The invariant has to reach back to the connection: the server takes a packet from there with whatever descriptor it told last.

Common to these proofs: sequences are compared place by place, counted by the cardinality of sets of places, and where a
first or last place is wanted it is the least or greatest of a finite set. `FifoWindow`, `WorksInOrder`, `GroupsExact`,
`NothingLost`, `ReceivedAsSent`, `ToldLast`, `WaitingNumbers` and the pushing and popping of the packet buffer's heap are written that way for this reason. The one
recursion met is that of `FlattenSeq`, by which the client hands over the packets woken: `FlattenSteps` and `FlattenIn` reduce it to its
steps by the least place at which a claim would fail (so does `FlattenCount`), so that no induction theorem with an operator parameter is needed.

Assumptions: the named `ASSUME`s of the modules, evaluated by TLC in every run, and the hypotheses named above.

Only model-checked: all liveness (`StopEndsLoop`, `QueuedWorkExecuted`, `ResizeReturns`,
`SubscriptionsConverge` and `AllDelivered`, the last part of `ImplementsStream`) and `MaxAvailableFits` (it uses ENABLED), which are outside
the prover. Every other invariant of the passing runs is stated by a theorem.

## 5. Not modelled

Readers and the configuration protocol (planned, below); most of the tree, devices, function blocks and property objects
(sequential under one recursive lock); of signals, ports and streaming: related signals, last values, remote connections,
serialisation, several streaming sources, adding and removing mirrored signals, authentication; values, descriptors and
numeric conversion (data without a protocol);
of packet streaming, event packets with ids other than DATA_DESCRIPTOR_CHANGED: the server sends them like the others and
the client drops them silently (`packet_streaming_client.cpp:60-86`), so none arrives and nothing else depends on them; the contents of Taskflow, boost::asio, spdlog, mDNS and OPC UA libraries
(external); object lifetime (use of a destroyed loop, buffer or executor is undefined behaviour: the destructor of the loop
queues a stop that captures `this`, a packet's deleter keeps a plain pointer to its buffer); torn or
stale reads of fields accessed without their lock (`stopped`, `notifyMethod`, the positions in the space queries), which the
models read atomically; a listener that throws in the middle of draining.

The repository has about 250 000 lines in 2 000 files, most of it object wrappers, bindings, conversions, serialisation and
I/O: the models cover the parts in which threads, messages and failures meet, and no more than a small share of the lines.

## 6. Plan

1. Readers: stream reader with time-out against `packetReceived`; the multi reader's synchronisation.
2. Configuration protocol: requests, replies and notifications across a reconnection; begin and end of updates of property
   objects.
