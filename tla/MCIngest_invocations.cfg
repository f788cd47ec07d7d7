SPECIFICATION FairSpec
CONSTANTS
    Envs = {e1, e2}
    p1 = p1
    mixed = mixed
    noid = noid
    plain = plain
    again = again
    behind = behind
    id1 = id1
    id2 = id2
    sha1 = sha1
    sha2 = sha2
    sha3 = sha3
    sha4 = sha4
    sha5 = sha5
    none = none
    NoId = none
    Projects <- MCProjects
    Bodies <- MCBodies
    Parses <- MCBodies
    EventIds <- MCEventIds
    EnvelopeItems <- MCEnvelopeItems
    StoreEventId <- MCStoreEventId
    DeterministicId <- MCDeterministicId
    Requests <- MCRequests
    MaxDay = 1
    MaxSends = 2
    MaxLate = 1
INVARIANTS
    TypeOK
    NoOrphanedItems
    RowsPointToObjects
    OneRowPerItem
    AckedIsStored
    NothingOutOfOrder
PROPERTIES
    ImplementsContract
    FeedsTheProcessor
    EveryInvocationEnds
    InvocationsAdvance
CHECK_DEADLOCK FALSE
