CONSTANTS
    u1 = u1
    k1 = k1
    None = None
    Users = {u1}
    Keys = {k1}
    Requests = {r1}
    Grants = {g1}
    Codes = {}
    Cleaners = {scheduler}
    SlowReaders = {r1}
    Retries = {}
    Days = {0, 1}
    FinalAmounts = {1, 4}
    GrantAmounts = {3}
    PrechargeAmounts = {2}
    Threshold = 3
    UpstreamTimeout = 1
    SettleWindow = 1
    LogQueueSize = 1
    LastArrival = 1
    MaxTime = 5
    MaxFaults = 0
    OwnerOf <- MCOwnerOf
    KeyOf <- MCKeyOf
    CodeCredits <- MCNone
    ExpiresAt <- MCNone
    CreditLimit <- MCNoCreditLimit
    DailyLimit <- MCUnlimitedUser
    KeyDailyLimit <- MCUnlimitedKey
    DayOf <- MCDayOf
    ThresholdOf <- MCThresholdOf
SPECIFICATION Spec
INVARIANTS
    TerminatedOnce
CHECK_DEADLOCK FALSE
