\* One order, reads and durable writes that fail, a crash and a shutdown.
SPECIFICATION Spec
CONSTANTS
    o1 = o1
    o2 = o2
    Order <- OneOrder
    Qty = 2
    LostReplies = FALSE
    FaultyReads = TRUE
    FaultyStore = TRUE
    MaxCrashes = 1
    MaxStops = 1
INVARIANTS
    TypeOK
    AdmissionCovered
    ReleasedOnlyAfterEnd
PROPERTIES
    ImplementsDurable
CHECK_DEADLOCK FALSE
