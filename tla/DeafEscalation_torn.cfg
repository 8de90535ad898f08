SPECIFICATION FairSpec
CONSTANTS
    MaxCooldown = 2
    MaxStep = 1
    MaxFaults = 1
PROPERTY ReAlerts
CHECK_DEADLOCK FALSE
