CONSTANTS
    Handlers = {h1}
    Requests <- OddRequests
    Yamls <- MCYamls
    EnvFeeds <- MCEnvFeeds
    KnownFrames = {"1h", "4h"}
    DbFails = TRUE
    NoRequest = NoRequest
SPECIFICATION FairSpec
PROPERTIES EventuallyPromoted
