\* Four requests for two slots, backoffs of 1, 2, 2, ... ticks, under fairness.
SPECIFICATION LiveSpec
CONSTANTS
    p1 = p1
    p2 = p2
    p3 = p3
    p4 = p4
    Requests = {p1, p2, p3, p4}
    MaxConcurrent = 2
    MinBackoff = 1
    MaxBackoff = 2
    BackoffFactor = 2
    MaxRetries = 1
    Saturation = 2
INVARIANTS
    TypeOK
    SlotsConserved
    NoLostWakeup
    EscalationHeld
PROPERTIES
    QueuedServed
    EveryRequestEnds
    SlotsAreFair
