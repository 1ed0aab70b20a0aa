SPECIFICATION FairSpec
CONSTANTS
    Clients = {hwbcc, km}
    Proxy = proxy
    Handles = {h1, h2, h3}
    NoHandle = none
    Cmds = {read}
    StorageReqs <- LargeReqs
    QueueCap = 1
    MaxReq = 2
    Versioned = {km}
    EarlyInit = {hwbcc, km}
    MaxLeft = 0
    MaxFaults = 0
PROPERTY
    CallsReturn
CHECK_DEADLOCK FALSE
