\* Two senders, one scheduler worker, two listeners; both ways of reading.
CONSTANTS
    GapChecking = FALSE
    ValueDescriptors = {v1}
    NoDescriptor = NoDescriptor
    DomainDescriptors <- MCDomains
    Offsets = {0}
    SampleCounts = {1}
    EventIds = {"descriptor"}
    Producers = {"enqueue", "enqueueMultiple", "enqueueLastDescriptor"}
    Consumers = {"dequeue", "dequeueAll"}
    MaxSent = 2
    MaxQueue = 3
    MaxBatch = 2
    Threads = {t1, t2}
    Workers = {w1}
    Listeners = {l1, l2}
    NoListener = NoListener
    NotifyMethods <- MCNotifyMethods
    MaxSetListener = 1
SPECIFICATION NoteSpec
INVARIANTS
    Handshake
    NoLostWakeup
PROPERTIES
    ImplementsStream
