CONSTANTS
    n1 = n1
    n2 = n2
    c1 = c1
    c2 = c2
    Nonces <- TwoNonces
    Clients <- MCClients
    ClientOf <- TwoClientOf
    IssueTimes <- MCIssueTimes
    Releases <- MCReleases
    Policy <- TightPolicy
    PermitLifetime = 3
    NonceRetention = 4
    MaxAge = 2
    FutureSkew = 1
    CleanupRows = 1
    AlarmPeriod = 1
    FirstAlarm = 1
    MaxTime = 6
    Horizon = 6
    MaxStepsBack = 1
    Apps <- MCApps
    ServiceConfigs <- MCServiceConfigs
    Tokens <- MCTokens
    OverlapMax = 2
    MaxSkew = 1
    Tolerance = 0
    MaxLifetime = 3
    Isolates = {i1, i2}
    MaxSent = 2
SPECIFICATION MCSpec
INVARIANTS
    AdmissionsAreSound
    WindowsRespected
    AdmittedAsSigned
PROPERTIES
    KeepsPromise
CHECK_DEADLOCK FALSE
