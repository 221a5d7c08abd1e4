\* Gap checking on, packets sent one by one, the owner reads with dequeue.
CONSTANTS
    GapChecking = TRUE
    ValueDescriptors = {v1, v2}
    NoDescriptor = NoDescriptor
    DomainDescriptors <- MCDomainsGap
    Offsets = {0, 1, 11}
    SampleCounts = {1}
    EventIds = {"descriptor", "gap", "other"}
    Producers = {"enqueue"}
    Consumers = {"dequeue"}
    MaxSent = 4
    MaxQueue = 4
    MaxBatch = 1
SPECIFICATION ConnSpec
INVARIANTS
    ConnTypeOK
    CountersExact
    FifoWindow
    GapsMarked
    DescriptorInForce
