SPECIFICATION Spec
CONSTANTS
    VqSize = 4
    IdxMod = 8
    MaxPorts = 2
    CmsgMax = 2
    Body = 2
    CmdSize = 5
    MaxCpu = 3
    MaxReqs = 2
    MaxMsgs = 1
    Cmds <- MCCmds
    Machines <- MCMachines
INVARIANTS
    TypeOK
    NoneDropped
    PortsKnown
    
    LogExact
    VerdictTrue
    AllocFits
    SecondariesFirst
    DiceWhole
PROPERTIES
    RpmbFifo
    BootEnds
CHECK_DEADLOCK FALSE
