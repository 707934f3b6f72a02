\* Two orders, two threads on the router's broker; a single caller, one
\* crash and a replacement on a broker of its own.
SPECIFICATION Spec
CONSTANTS
    o1 = o1
    o2 = o2
    Order <- TwoOrders
    Request <- Asks
    Price = {1, 2}
    MaxReplaces = 1
    MaxCrashes = 1
    Watcher = {"main"}
INVARIANTS
    TypeOK
    ReservationsCover
    PositionsMatchFills
    EndsOnce
    ReleasedAsEnded
    
SYMMETRY OrderSymmetry
CHECK_DEADLOCK FALSE
