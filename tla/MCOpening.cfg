SPECIFICATION SchemaSpec
CONSTANTS
    Clients = {c1, c2}
    NoClient = NoClient
    FoundFiles <- Files
    MaxAttempts = 3
    DiskFaults = FALSE
    Scopes = {"s1"}
    Ids = {"a"}
    Kinds = {"fact"}
    Contents = {"x"}
    Sources = {"chat"}
    JsonTypes = {"int"}
    EventDrafts <- Events
    MemoryDrafts <- Memories
    MaxTime = 6
    MaxInteger = 8
    Null = Null
    Clocks = {0}
    Sweeps = {2}
    MaxSeals = 1
SYMMETRY AnyClient
INVARIANTS
    SchemaTypeOK
    FileIntact
    OpenMeansComplete
    NoFalseRefusal
    ConsistencyKept
