SPECIFICATION Spec
CONSTANTS
    Envs = {e1}
    Keys = {k1}
    One = 5
    Rate = 2
    Burst = 5
    TicksPerSecond = 1
    MaxTime = 6
PROPERTY
    RetryAfterIsEnough
CHECK_DEADLOCK FALSE
