SPECIFICATION MSpec
CONSTANTS
    Bufs = {b1, b2}
    None = None
    ApiVersions = {"old", "mem_obj", "newer"}
INVARIANTS
    TypeOK
    NoSharedFree
    CleanStart
    SharedAsMapped
CHECK_DEADLOCK FALSE
