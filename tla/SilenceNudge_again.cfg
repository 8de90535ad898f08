SPECIFICATION Spec
CONSTANTS
    Windows = {w1, w2}
    NoWindow = none
    MaxFaults = 0
PROPERTY NudgedOnce
CHECK_DEADLOCK FALSE
