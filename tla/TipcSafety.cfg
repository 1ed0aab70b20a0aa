SPECIFICATION Spec
CONSTANTS
    Clients = {avb, km}
    Proxy = proxy
    Handles = {h1, h2, h3}
    NoHandle = none
    Cmds = {read}
    StorageReqs <- MixedReqs
    QueueCap = 1
    MaxReq = 2
    Versioned = {avb, km}
    EarlyInit = {km}
    MaxLeft = 1
    MaxFaults = 1
INVARIANTS
    TypeOK
    ConnectionsAgree
    WaitedRecvHasMessage
    AnswerMatches
    StorageExact
SYMMETRY HandleSymmetry
CHECK_DEADLOCK FALSE
