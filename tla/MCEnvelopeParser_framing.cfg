SPECIFICATION Spec
CONSTANTS
    nl = nl
    h = h
    k0 = k0
    k1 = k1
    k2 = k2
    k4 = k4
    k5 = k5
    km = km
    none = none
    Bytes <- MCBytes
    Newline = nl
    LengthIn <- MCLengthIn
    Implicit = none
    Blank = none
    BufferSize = 3
    MaxEnvelopeItems = 3
    MaxItemBytes = 4
    Bodies <- MCBodies
INVARIANTS
    TypeOK
    FramingIsExact
    CountedPayloadsAreExact
    RejectsOnlyUnreadable
CHECK_DEADLOCK FALSE
