\* Two signals share a packet that is too large to be cached, and its domain packet.
CONSTANTS
    v = v
    d = d
    Signals = {s1, s2}
    Packets = {v, d}
    NoPacket = NoPacket
    DomainOf <- MCDomainOf
    Descriptors = {x, y}
    Unchanged = Unchanged
    Payload <- MCPayload
    ReleaseThreshold = 1
    CacheablePayloadMax = 2
    MaxSends = 3
    FirstDescriptor = x
    MaxOnWire = 1
SPECIFICATION StreamSpec
\* Signals that have nothing to send do nothing.
CHECK_DEADLOCK FALSE
SYMMETRY MCSymmetry
INVARIANTS
    ClientNeverThrows
    NothingLost
    ReceivedAsSent
    DescriptorsTold
    NoLeak
    GroupsExact
    NobodyWaitsInVain
