\* Three workers, four batches a poll, two retries; the provider recovers at
\* any time or never.
SPECIFICATION FairSpec
CONSTANTS
    w1 = w1
    w2 = w2
    w3 = w3
    Worker <- ThreeWorkers
    MaxJobs = 4
    MaxRetries = 2
    Threshold = 3
    Cooldown = 1
    RetryAfter = {1, 2}
INVARIANTS
    TypeOK
    RetryAfterKept
PROPERTIES
    OncePerOpening
    CircuitHeals
