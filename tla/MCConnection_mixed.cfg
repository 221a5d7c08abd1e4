\* Gap checking on, every way of sending and reading.
CONSTANTS
    GapChecking = TRUE
    ValueDescriptors = {v1}
    NoDescriptor = NoDescriptor
    DomainDescriptors <- MCDomainsBulk
    Offsets = {0, 1}
    SampleCounts = {1}
    EventIds = {"descriptor", "other"}
    Producers = {"enqueue", "enqueueMultiple", "enqueueMultipleAndStealRef", "enqueueLastDescriptor"}
    Consumers = {"dequeue", "dequeueAll", "dequeueUpTo"}
    MaxSent = 4
    MaxQueue = 4
    MaxBatch = 2
SPECIFICATION ConnSpec
INVARIANTS
    SamplesExact
    CountersCover
    FastPathsRight
    LastDescriptorReachesConsumer
