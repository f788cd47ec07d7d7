SPECIFICATION Spec
CONSTANTS
    k1 = k1
    k2 = k2
    crash = crash
    junk = junk
    Runs = {r1, r2}
    Keys = {k1, k2}
    Events <- MCEvents
    EventsOf <- OneEventEach
    Parses <- MCParses
    Fingerprint <- MCFingerprint
    Words <- MCWords
    Content <- MCContent
    EmptyIssue <- MCEmptyIssue
    NoIssue = none
    NoPath = nopath
    OtherPath = otherpath
    ReservedWords = {"level", "timestamp"}
    MaxDay = 0
    MaxObjects = 2
    MaxPuts = 1
    MaxFaults = 0
SYMMETRY Symmetry
INVARIANTS
    EveryRowExpires
