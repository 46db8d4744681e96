SPECIFICATION ClockSpec
CONSTANTS
    Minute = 2
    Minutes = 2
    Hours = 11
    Unsigned = 4096
    Undefined = {}
    MaxTime = 64
INVARIANTS ElapsedSinceBoot
