SPECIFICATION Spec
CONSTANTS
    NS_PER_TICK = 4
    NS_PER_MS = 10
    RESOLUTION = 4
    WordSize = 400
    RTC1_TICKS_MAX = 256
    Gaps = {1, 9, 10, 11, 15, 25, 99}
    StackWords = {0, 99, 399}
    MaxTime = 300
INVARIANTS
    TimeNotAhead
PROPERTIES
    CallsLoseLessThanAStep
CHECK_DEADLOCK FALSE
