CONSTANTS
    PortCount = 2
    Canonical = 1
    MaxFaults = 2
    Runs = {agent}
    Agent = agent
    MaxMishaps = 0
    NoLock = NoLock
    NoPid = NoPid
    Dead = Dead
SPECIFICATION EndpointSpec
INVARIANTS EndpointTypeOK EndpointWasSeen
PROPERTIES Reconnects
