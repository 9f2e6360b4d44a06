SPECIFICATION Spec
CONSTANTS
    Scopes = {"s1"}
    Ids = {"a", "b", "c"}
    Kinds = {"fact", "note"}
    Contents = {"x"}
    Sources = {"chat"}
    JsonTypes = {"int"}
    EventDrafts <- Events
    MemoryDrafts <- Memories
    MaxTime = 9
    MaxInteger = 9
    Null = Null
    Clocks = {0}
    Sweeps = {2}
    MaxSeals = 1
    IdRank <- Ranks
    Bits = 2
    Pow2 <- Powers
    MaxLimit = 2
INVARIANTS
    RecallDeterministic
    FadingSound
    AnswersTellAll
