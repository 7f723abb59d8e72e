CONSTANTS
    Commands <- TwoCommands
    Window = 1
    Overlap = 1
    Retention = 1
    Capacity = 2
    MaxTime = 1
    NoCommand = NoCommand
    GuardCapacity = 2
    Runs = {r1, r2}
    MaxFaults = 1
SPECIFICATION MCSpec
INVARIANTS
    CommandsRunOnce
    ReportsAreTrue
PROPERTIES
    ClaimsArePermanent
    EvidenceIsPublished
