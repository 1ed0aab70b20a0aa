SPECIFICATION Spec
CONSTANTS
    Clients = {avb}
    Proxy = proxy
    Handles = {h1, h2, h3}
    NoHandle = none
    Cmds = {read}
    StorageReqs <- OneReq
    QueueCap = 1
    MaxReq = 2
    Versioned = {avb}
    EarlyInit = {}
    MaxLeft = 1
    MaxFaults = 1
INVARIANT
    RecvFindsMessage
CHECK_DEADLOCK FALSE
