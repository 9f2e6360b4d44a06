SPECIFICATION Spec
CONSTANTS
    Scopes = {"s1", "s2"}
    Ids = {"a", "b"}
    Kinds = {"fact"}
    Contents = {"x", "y"}
    Sources = {"chat"}
    JsonTypes = {"int", "bool"}
    EventDrafts <- ScopeEvents
    MemoryDrafts <- ScopeMemories
    MaxTime = 6
    MaxInteger = 8
    Null = Null
    Clocks = {0}
    Sweeps = {2}
    MaxSeals = 2
INVARIANTS
    ScopeIsolation
    EventLedger
    MemoryLedger
PROPERTIES
    ImplementsLifecycle
