\* A ring of three slots wraps and compacts: safety, refinement and liveness.
SPECIFICATION FairSpec
CONSTANTS
    MAX_XTCP_CLIENTS = 1
    CLIENT_QUEUE_SIZE = 3
    Ids <- MCIds
    EventTypes <- MCEventTypes
INVARIANTS
    TypeOK
    NoLostWakeup
    CompactionInPlace
PROPERTIES
    ImplementsEventQueue
    EventsKeepComing
