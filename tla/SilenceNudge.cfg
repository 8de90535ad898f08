SPECIFICATION Spec
CONSTANTS
    Windows = {w1, w2, none}
    NoWindow = none
    MaxFaults = 2
INVARIANT TypeOK
PROPERTY KeepsDebouncePromise
INVARIANT DebouncedWereNudged
CHECK_DEADLOCK FALSE
