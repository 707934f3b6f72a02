\* A reply to a submission is lost, and nothing else fails.
SPECIFICATION Spec
CONSTANTS
    o1 = o1
    o2 = o2
    Order <- OneOrder
    Qty = 1
    LostReplies = TRUE
    FaultyReads = FALSE
    FaultyStore = FALSE
    MaxCrashes = 0
    MaxStops = 0
INVARIANT
    AdmissionCovered
CHECK_DEADLOCK FALSE
