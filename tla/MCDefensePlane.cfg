CONSTANTS
    r1 = r1
    r2 = r2
    Requests <- MCRequests
    Kinds <- MCKinds
    MaxConcurrent <- OnePlace
    ArmTtl = 2
    ArmTimeout = 1
    ClientTimeout = 2
    MaxOutstanding = 2
    L2Places = 1
    MaxArmTime = 3
SPECIFICATION MCSpec
INVARIANTS
    StreamsAreAccepted
    SettledExactly
PROPERTIES
    ClosingDrains
    PassedArmHappened
CHECK_DEADLOCK FALSE
