SPECIFICATION Spec
CONSTANTS
    nl = nl
    h = h
    k0 = k0
    k1 = k1
    k2 = k2
    k4 = k4
    k5 = k5
    km = km
    none = none
    Bytes <- MCBytes
    Newline = nl
    LengthIn <- MCLengthIn
    Implicit = none
    Blank = none
    BufferSize = 16
    MaxEnvelopeItems = 3
    MaxItemBytes = 8
    Bodies <- LongBodies
INVARIANTS
    PayloadsAreExact
CHECK_DEADLOCK FALSE
