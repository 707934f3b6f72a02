\* Two threads deliver the same fill report.
SPECIFICATION Spec
CONSTANTS
    r1 = r1
    r2 = r2
    w1 = w1
    w2 = w2
    k1 = k1
    Rid <- OneRid
    Worker <- TwoWorkers
    Dedupe <- SharedKey
    Qty = 3
    OrderQty = 3
    FaultyStore = FALSE
    MaxCrashes = 0
INVARIANTS
    FillsAppliedOnce
