SPECIFICATION KSpec
CONSTANTS
    MaxFrame = 3
    MaxSend = 3
    Cap = 8
    Sizes = {0, 2, 3, 7}
    MaxFaults = 1
    Buffers <- SomeBuffers
    BootParams <- SomeBootParams
    AttestationData <- SomeAttestationData
INVARIANTS
    TypeOK
    NothingLeft
    ReadsComplete
    UploadExact
    ServiceReads
    UploadWhole
CHECK_DEADLOCK FALSE
