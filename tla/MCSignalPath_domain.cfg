\* A new domain signal is set on a connected signal.
CONSTANTS
    ValueSignals = {v}
    DomainSignals = {d, e}
    FirstDomain = d
    Ports = {p}
    Descriptors = {x, y}
    FirstDescriptor = x
    acq = acq
    user = user
    other = other
    Threads = {acq, user, other}
    Operations <- MCNewDomainOperations
    MaxCalls <- MCMaxCalls
    MaxConnections = 2
    None = None
SPECIFICATION PathSpec
INVARIANT DomainAnnounced
CHECK_DEADLOCK FALSE
