\* Six deadlines of two tasks, due at once or a nanosecond later.
CONSTANTS
    t1 = t1  t2 = t2  NoTask = NoTask
    Tasks <- Tasks2
    MaxDeadlines = 6
    PerSecond = 2
    MaxUInt = 3
    Timeouts = {0, 1}
    Starts <- Start0
SPECIFICATION Spec
CHECK_DEADLOCK FALSE
INVARIANT Retired
