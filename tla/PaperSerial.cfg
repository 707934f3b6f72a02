\* One request at a time; the API process dies twice, at any step.
SPECIFICATION FairSpec
CONSTANTS
    r1 = r1
    Request <- OneRequest
    MaxSession = 3
    MaxRestarts = 2
INVARIANTS
    TypeOK
    SecondChildIsMasked
    NoChildForgotten
PROPERTIES
    GoneUnblocks
CHECK_DEADLOCK FALSE
