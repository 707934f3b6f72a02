\* The stream and its REST fallback, with every failure and one cancellation.
SPECIFICATION FairSpec
CONSTANTS
    Configured <- StreamThenRest
    Item = {book, candle, otherBook, otherCandle}
    Failover = {f1, f2}
INVARIANTS
    TypeOK
    CurrentData
    TruthIsBacked
    SoleActivator
PROPERTIES
    NoOverlap
    LossIsResolved
    RunEnds
CHECK_DEADLOCK FALSE
