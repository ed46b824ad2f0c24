CONSTANTS
    Keys <- MCKeys
    Slots = {2, 4, 6}
    NoMeta = NoMeta
    Symbols = {1, 2, 3}
    Frames = {"15m"}
    Ranges <- MCRanges
    Filters <- MCFilters
    Posts <- MCPosts
    Yamls <- MCYamls
    EnvFeeds <- MCEnvFeeds
    KnownFrames = {"15", "1h"}
    Secs = 2
    Batches <- MCBatches
    Legacy <- MCLegacy
    MinBars = 2
    Limit = 2
    PageLimit = 1
SPECIFICATION Spec
INVARIANTS TypeOK HealthIsStored InventoryServed RangeIsHonest PagesComplete ActiveShowsBars AuditIsSound
