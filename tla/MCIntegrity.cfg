SPECIFICATION IntegritySpec
CONSTANTS
    Scopes = {"s1", "s2"}
    Ids = {"a", "b"}
    Kinds = {"fact", "note"}
    Contents = {"x"}
    Sources = {"chat"}
    JsonTypes = {"int"}
    EventDrafts <- Events
    MemoryDrafts <- Memories
    MaxTime = 4
    MaxInteger = 4
    Null = Null
    NoScope = NoScope
    Clocks = {0}
    Sweeps = {}
    MaxSeals = 1
INVARIANTS
    ErasedNeverRecalled
    RecalledAsMaterialized
    DamageContained
PROPERTIES
    StaysRefused
