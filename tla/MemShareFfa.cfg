SPECIFICATION MSpec
CONSTANTS
    Bufs = {b1, b2}
    None = None
    ApiVersions = {"mem_obj"}
INVARIANTS
    SharesBuffer
CHECK_DEADLOCK FALSE
