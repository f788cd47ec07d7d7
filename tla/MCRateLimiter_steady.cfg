SPECIFICATION Spec
CONSTANTS
    Envs = {e1, e2}
    Keys = {k1}
    One = 2
    Rate = 1
    Burst = 5
    TicksPerSecond = 2
    MaxTime = 6
SYMMETRY Symmetry
INVARIANTS
    TypeOK
    WindowBound
PROPERTIES
    DenialsAreNecessary
    RetryAfterIsEnough
CHECK_DEADLOCK FALSE
