\* Nothing fails and nobody stops the engine: what does the fuse stop?
SPECIFICATION Spec
CONSTANTS
    o1 = o1
    Order <- OneOrder
    FaultyCalls = FALSE
    OperatorStops = FALSE
PROPERTIES
    FuseIsAbsolute
