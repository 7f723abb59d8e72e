SPECIFICATION MCSpec
CONSTANTS
    Children <- MCChildren
    QueueCap <- MCQueueCap
    WindowCap <- MCWindowCap
    MaxFrame <- MCMaxFrame
    MaxEvents <- MCMaxEvents
    Traffic <- MCTraffic
    Canary <- MCCanary
    Items <- MCItems
    MaxItems = 2
    AllowedShed <- MCAllowedShed
    MaxActive = 2
    MaxOrphans = 2
    RecentRing = 1
    MaxDecisions = 3
    MaxPerStream = 9
    DownstreamGrace = 1
    OrphanGrace = 2
CHECK_DEADLOCK FALSE
INVARIANTS
    StreamsAreWhole
    ExternalLaneIsExact
    VerdictIsEarned
PROPERTY
    EveryRunIsJudged
