CONSTANTS
    Handlers = {h1, h2}
    Requests <- OddRequests
    Yamls <- MCYamls
    EnvFeeds <- MCEnvFeeds
    KnownFrames = {"1h", "4h"}
    DbFails = TRUE
    NoRequest = NoRequest
SPECIFICATION Spec
INVARIANTS TypeOK ActiveHasBars CreatedIsWired
PROPERTIES DisabledStays ImplementsInventory
