SPECIFICATION Spec
CONSTANTS
    Bufs = {b1, b2}
    None = None
    ApiVersions = {"mem_obj"}
INVARIANTS
    ReclaimsShared
CHECK_DEADLOCK FALSE
