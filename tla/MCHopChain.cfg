SPECIFICATION Spec
CONSTANTS
    Proofs = {1, 2, 3}
    Client <- MCClient
    Tampered <- MCTampered
    AtBoundary = {1, 2}
    AtApp = {1, 2}
    Lifetime <- MCLifetime
    Skew = 1
    Margin = 1
    ReplayCapacity = 1
    MaxActive = 1
    Faults = {"delay"}
    MaxTime = 4
    MaxCrashes = 1
INVARIANTS
    AdmittedOnceWithLineage
    GuardsAreExact
CHECK_DEADLOCK FALSE
