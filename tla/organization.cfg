CONSTANTS
    UserIds = {1, 2, 3}
    DeptIds = {1, 2}
    IntegrationIds = {1, 2}
    TokenIds = {1, 2}
    Names = {"n1", "n2", "n3"}
    Idems = {"i1"}
    Requests = {r1, r2}
    MaxPageSize = 2
    MaxBatchUsers = 2
    KeyIds = {1, 2, 3, 4}
    ProjectIds = {1, 2}
    Limits = {1, 2}
    NoLimit = NoLimit
    Hold = 1
    MaxKeys = 2
    Relays = {"q1"}
    Costs = {0, 1, 2}
    MaxFaults = 1
    Browsers = {b1, b2}
    FailureThreshold = 2
    LockFor = 2
    Values = {"v1", "v2"}
    TTL = 2
    ReadTime = 1
    MaxClock = 5
    Scenarios <- MCScenarios
SPECIFICATION Spec
INVARIANTS
    RootRemains
    ReferencesHold
    IssuedOnce
    QuotaBounded
    IntegrationSilenced
    SessionsKnowPassword
    GuessesBounded
    SettingsSettle
PROPERTY
    DisableLasts
SYMMETRY MCSymmetry
CHECK_DEADLOCK FALSE
