CONSTANTS
    Handlers = {h1, h2}
    Requests <- MCRequests
    Yamls <- MCYamls
    EnvFeeds <- MCEnvFeeds
    KnownFrames = {"1h", "4h"}
    DbFails = FALSE
    NoRequest = NoRequest
SPECIFICATION Spec
PROPERTIES DuplicateIsConflict
