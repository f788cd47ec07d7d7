SPECIFICATION Spec
CONSTANTS
    p1 = p1
    store = store
    k1 = k1
    k2 = k2
    Envs = {e1}
    QueryEnvs = {d1}
    Requests <- MCRequests
    Projects = {p1, store}
    Keys = {k1, k2}
    Operators = {o1}
    NoKey = nokey
    One = 2
    Rate = 5
    Burst = 3
    TicksPerSecond = 1
    MaxTime = 1
    Absent = absent
    NoProject = noproject
    NoDsn = nodsn
    StoreProject = store
    MaxBodyBytes = 2
    MaxInFlight = 1
INVARIANTS
    TypeOK
    BucketsAreOwned
PROPERTIES
    AdmittedKeyWasCurrent
    EntitledIsLetIn
    BodiesAreJudgedRight
    LimiterIsKept
