SPECIFICATION Spec
CONSTANTS
    None = None
    Tasks = {t1, t2}
    Configs = {c1, c2, c3}
    MemoryConfigs = {c1, c2}
    MaxCalls = 4
    MaxEpoch = 2
CHECK_DEADLOCK FALSE
INVARIANTS
    TypeOK
    SessionIsTheCallers
    LockFollowsSession
    TickEndsLapsedLease
    NoLeaseDropped
PROPERTIES
    CallsAreAnswered
