SPECIFICATION FairSpec
CONSTANTS
    Secondaries = {c1, c2}
    None = None
INVARIANTS
    TypeOK
    NoLostWakeup
PROPERTY
    EventsDelivered
