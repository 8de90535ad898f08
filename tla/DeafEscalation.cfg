SPECIFICATION FairSpec
CONSTANTS
    MaxCooldown = 2
    MaxStep = 1
    MaxFaults = 3
INVARIANT TypeOK
INVARIANT EscalationIsPersisted
PROPERTY KeepsDebouncePromise
PROPERTY ReAlertsUnlessFault
CHECK_DEADLOCK FALSE
