SPECIFICATION TrailSpec
CONSTANTS
    Scopes = {"s1", "s2"}
    Ids = {"a", "b"}
    Kinds = {"fact"}
    Contents = {"x"}
    Sources = {"chat"}
    JsonTypes = {"int"}
    EventDrafts <- Events
    MemoryDrafts <- Memories
    MaxTime = 6
    MaxInteger = 8
    Null = Null
    Clocks = {1, 2}
    Sweeps = {2, 3}
    MaxSeals = 1
    AuditIds = {1, 2, 3, 4}
    Claims = {1}
    MaxLimit = 3
INVARIANTS
    RecordsDated
    AuditPageNewest
PROPERTIES
    EveryChangeRecorded
