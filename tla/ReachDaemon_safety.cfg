SPECIFICATION Spec
CONSTANTS
    DistressCap = 2
    NormalCap = 1
    MaxRetries = 1
    U32Max = 3
    MaxEvents = 3
    MaxFaults = 2
    Published = {"distress", "message", "fail"}
CONSTRAINT MCPublished
INVARIANT TypeOK
INVARIANT InOrder
INVARIANT NothingLostInside
INVARIANT BoundedOvertaking
INVARIANT AnsweredUnlessFault
INVARIANT RestsOnlyWhenDone
INVARIANT TruthfulAcks
INVARIANT AcksFollowDispatch
PROPERTY KeepsRelayPromise
PROPERTY ClimbsTheLadder
PROPERTY EveryStepIsProgress
CHECK_DEADLOCK FALSE
