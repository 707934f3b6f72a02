\* One order with everything that may happen to it, under fairness.
SPECIFICATION FairSpec
CONSTANTS
    o1 = o1
    Order <- OneOrder
    FaultyCalls = TRUE
    OperatorStops = TRUE
INVARIANTS
    TypeOK
    CancelOnce
    PendingComplete
    FuseStops
PROPERTIES
    SweepEnds
    EndedForgotten
