\* Lists sent with enqueueMultipleAndStealRef.
CONSTANTS
    GapChecking = FALSE
    ValueDescriptors = {v1}
    NoDescriptor = NoDescriptor
    DomainDescriptors <- MCDomainsBulk
    Offsets = {0, 1}
    SampleCounts = {1}
    EventIds = {"descriptor"}
    Producers = {"enqueue", "enqueueMultipleAndStealRef"}
    Consumers = {"dequeue"}
    MaxSent = 4
    MaxQueue = 4
    MaxBatch = 2
SPECIFICATION ConnSpec
INVARIANTS
    FifoWindow
