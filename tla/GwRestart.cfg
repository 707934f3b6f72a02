\* Nothing fails; the process stops once in an orderly way and starts again.
SPECIFICATION Spec
CONSTANTS
    o1 = o1
    o2 = o2
    Order <- OneOrder
    Qty = 1
    LostReplies = FALSE
    FaultyReads = FALSE
    FaultyStore = FALSE
    MaxCrashes = 0
    MaxStops = 1
INVARIANT
    RestartRecovers
CHECK_DEADLOCK FALSE
