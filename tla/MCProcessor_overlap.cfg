SPECIFICATION FairSpec
CONSTANTS
    k1 = k1
    k2 = k2
    crash = crash
    junk = junk
    Runs = {r1, r2}
    Keys = {k1, k2}
    Events <- MCEvents
    EventsOf <- SharedKey
    Parses <- MCParses
    Fingerprint <- MCFingerprint
    Words <- MCWords
    Content <- MCContent
    EmptyIssue <- MCEmptyIssue
    NoIssue = none
    NoPath = nopath
    OtherPath = otherpath
    ReservedWords = {"level", "timestamp"}
    MaxDay = 1
    MaxObjects = 1
    MaxPuts = 2
    MaxFaults = 1
INVARIANTS
    TypeOK
    OncePerPut
    IssueOfItsEvent
PROPERTIES
    EveryEventIsGrouped
    ImplementsIssueContract
    RunsAdvance
    NoEventIsPassedOver
