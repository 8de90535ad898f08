SPECIFICATION Spec
CONSTANTS
    Starts <- MCStarts
    LastDay = 157100
    MaxNights = 2
    MaxEvents = 2
    MaxFaults = 2
INVARIANT TypeOK
INVARIANT RightDate
INVARIANT TallyOfTheDay
INVARIANT TodayIsAccounted
CHECK_DEADLOCK FALSE
