\* Two orders and a crash; reads fail, durable writes do not.
SPECIFICATION Spec
CONSTANTS
    o1 = o1
    o2 = o2
    Order <- TwoOrders
    Qty = 1
    LostReplies = FALSE
    FaultyReads = TRUE
    FaultyStore = FALSE
    MaxCrashes = 1
    MaxStops = 0
INVARIANT
    ConflictRevokes
SYMMETRY OrderSymmetry
CHECK_DEADLOCK FALSE
