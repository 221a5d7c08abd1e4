\* Two losses in a row
CONSTANTS
    v = v
    d = d
    Signals = {v, d}
    NoSignal = NoSignal
    DomainOf <- MCDomainOf
    ChangingSignals = {}
    OtherSignals = {}
    MaxSessions = 3
    MaxEvents = 2
SPECIFICATION SessionSpec
INVARIANT ReconnectionWasStarted
CHECK_DEADLOCK FALSE
