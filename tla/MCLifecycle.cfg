SPECIFICATION Spec
CONSTANTS
    Scopes = {"s1"}
    Ids = {"a", "b", "c"}
    Kinds = {"fact"}
    Contents = {"x", "y"}
    Sources = {"chat"}
    JsonTypes = {"int", "bool"}
    EventDrafts <- LifecycleEvents
    MemoryDrafts <- LifecycleMemories
    MaxTime = 6
    MaxInteger = 8
    Null = Null
    Clocks = {0, 1}
    Sweeps = {1, 2, 6}
    MaxSeals = 1
INVARIANTS
    TypeOK
    Consistent
    NoSelfCorruption
    ErasureComplete
    SourceCeilings
PROPERTIES
    NoResurrection
    NoRewrite
    IngestRetrySafe
