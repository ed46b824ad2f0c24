CONSTANTS
    PortCount = 2
    Canonical = 1
    MaxFaults = 2
    Runs = {agent, manual}
    Agent = agent
    MaxMishaps = 1
    NoLock = NoLock
    NoPid = NoPid
    Dead = Dead
SPECIFICATION WatchdogFairSpec
INVARIANTS WatchdogTypeOK  HealthyLeftAlone
PROPERTIES LockIsFreed Recovers
