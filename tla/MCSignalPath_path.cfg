\* Acquisition on one thread, configuration on two.
CONSTANTS
    ValueSignals = {v}
    DomainSignals = {d}
    FirstDomain = d
    Ports = {p}
    Descriptors = {x, y}
    FirstDescriptor = x
    acq = acq
    user = user
    other = other
    Threads = {acq, user, other}
    Operations <- MCOperations
    MaxCalls <- MCMaxCalls
    MaxConnections = 2
    None = None
SPECIFICATION PathSpec
INVARIANTS PathTypeOK DataUnderItsDescriptors EndsAgree ListenerKnows DeadlockOnlyAgainstOrder
CHECK_DEADLOCK FALSE
