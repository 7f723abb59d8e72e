CONSTANTS
    Commands <- MCCommands
    Window = 2
    Overlap = 2
    Retention = 3
    Capacity = 4
    MaxTime = 2
    Nonces = {n1, n2}
    Slots = {s1, s2}
    MaxCalls = 2
    Configs <- MCConfigs
    Manifest <- MCManifest
    Current <- MCCurrent
    MaxAge = 2
    FutureSkew = 1
    Skews <- MCSkews
    Gate7 <- MCGate7
    Legacy <- MCLegacy
    None = None
    Keys = {k1, k2, op}
    OperatorKey = op
    NoKey = NoKey
    Tools = {t1, t2}
    Shells <- MCShells
    Machines <- MCMachines
    MaxChanges = 1
SPECIFICATION MCSpec
INVARIANTS
    RotationIsSafe
    ResultsAreTrue
    ProvisioningIsSafe
SYMMETRY MCSymmetry
CHECK_DEADLOCK FALSE
