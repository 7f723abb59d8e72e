CONSTANTS
    s1 = s1
    s2 = s2
    s3 = s3
    Deliveries = 3
    Signed <- MCSigned
    Form <- MCForm
    Admins = {a1, a2}
    Callers = {a1, a2}
    RevisionLimit = 2
    Keys = {k1, k2}
    MaximumKeys = 1
    CacheLifetime = 2
    StaleGrace = 1
    RefreshCooldown = 1
    FetchTimeout = 1
    Emails = {admin, other}
    AllowedAdminEmail = admin
    AllowedEmails = {admin}
SPECIFICATION MCSpec
INVARIANTS
    CreationIsSound
    EventsAreTheHistory
PROPERTIES
    EverythingIsSettled
    OnlyCurrentFormsWin
    KeepsWorkflow
    KeysAreCurrent
ACTION_CONSTRAINT Explored
CHECK_DEADLOCK FALSE
