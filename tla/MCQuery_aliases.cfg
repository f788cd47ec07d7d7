SPECIFICATION Spec
CONSTANTS
    Keys = {1, 2, 3}
    Times = {1, 2}
    ItemTypes = {"event", "session"}
    Levels = {"error"}
    EventType = "event"
    All = "all"
    None = none
    NoCursor = nocursor
    Gone = gone
    Queries <- MCQueries
    DefaultLimit = 1
    MaxLimit = 2
    MaxWrites = 0
INVARIANTS
    EveryQueryIsAnswered
