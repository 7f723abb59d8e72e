CONSTANTS
    t1 = t1
    t2 = t2
    t3 = t3
    t4 = t4
    NoToken = NoToken
    Tokens <- MCTokens
    BitsOf <- MCBitsOf
    Res = 2
    EpochMs = 1
    UNIT = 2
    Capacity <- MCCapacity
    RefillPerMs <- MCRefill
    MaxUses = 1
    T0 = 1
    MaxTime = 6
    MaxTakes <- MCTakes
    MaxDiscards = 1
SPECIFICATION LaneSpec
SYMMETRY TokenSymmetry
INVARIANTS
    CreditIsExact
    BucketsReplayExactly
CHECK_DEADLOCK FALSE
