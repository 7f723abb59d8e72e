CONSTANTS
    w1 = w1
    w2 = w2
    Rows <- MCRows
    Workers <- MCWorkers
    BatchSize = 2
    Lease = 1
    MaxAttempts = 2
    Delay <- MCDelay
    MaxLate = 1
    MaxCrashes = 1
SPECIFICATION MCSpec
INVARIANTS
    ClaimsAreHonest
PROPERTIES
    AttemptsDoNotMeet
    KeepsPromise
    EventuallyDecided
