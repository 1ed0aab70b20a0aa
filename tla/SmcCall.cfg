SPECIFICATION FairSpec
CONSTANTS
    Callers = {c0, c1}
    Nops = {n0}
    None = None
    Retries = 1
INVARIANTS
    TypeOK
    NoProtocolError
    MaskedBriefly
PROPERTIES
    ExactlyOnce
    CommandReturns
