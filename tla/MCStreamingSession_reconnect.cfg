\* Two losses and one call or change, or one loss and two, or three, in any order
CONSTANTS
    v = v
    d = d
    Signals = {v, d}
    NoSignal = NoSignal
    DomainOf <- MCDomainOf
    ChangingSignals = {v}
    OtherSignals = {v}
    MaxSessions = 3
    MaxEvents = 3
SPECIFICATION SessionSpec
INVARIANTS SessionTypeOK CountsExact AvailableAskable StatusHonest SubscribersDescribed FailsOnlyWhenOvertaken
PROPERTY SubscriptionsConverge
CHECK_DEADLOCK FALSE
