SPECIFICATION Spec
CONSTANTS
    Scopes = {"s1"}
    Ids = {"a", "b"}
    Kinds = {"fact"}
    Contents = {"x", "y"}
    Sources = {"chat"}
    JsonTypes = {"int", "bool"}
    EventDrafts <- EdgeEvents
    MemoryDrafts <- EdgeMemories
    MaxTime = 6
    MaxInteger = 8
    Null = Null
    Clocks = {0}
    Sweeps = {2}
    MaxSeals = 1
INVARIANT DifferentRequestConflicts
