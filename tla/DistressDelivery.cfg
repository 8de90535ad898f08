SPECIFICATION FairDeliverySpec
CONSTANTS
    U32Max = 3
    MaxFallbacks = 2
    PipeCap = 1
    MaxMail = 2
    MaxDiag = 2
    MaxFaults = 2
INVARIANT DeliveryTypeOK
INVARIANT StopsAtFirstSuccess
INVARIANT FailsOnlyWhenExhausted
INVARIANT PausesBetweenAttempts
INVARIANT StuckOnlyIfBothFull
INVARIANT WholeUnlessStopped
INVARIANT OneCopyUnlessFault
PROPERTY LadderEnds
PROPERTY EveryStepCounts
