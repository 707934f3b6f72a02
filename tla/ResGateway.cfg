\* The gateway path: one thread, two orders under one dedupe key, crashes at
\* any step and store calls that fail.
SPECIFICATION Spec
CONSTANTS
    r1 = r1
    r2 = r2
    w1 = w1
    w2 = w2
    k1 = k1
    Rid <- TwoRids
    Worker <- OneWorker
    Dedupe <- SharedKey
    Qty = 2
    OrderQty = 4
    FaultyStore = TRUE
    MaxCrashes = 1
INVARIANTS
    TypeOK
    WriteAhead
    MemoryCaughtUp
    MemoryBacked
    NoForgottenExposure
    TerminalRowAccounts
PROPERTIES
    ImplementsDurable
