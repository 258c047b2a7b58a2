CONSTANTS
    u1 = u1
    u2 = u2
    k1 = k1
    c1 = c1
    None = None
    Users = {u1, u2}
    Keys = {k1}
    Requests = {r1, r2}
    Grants = {g1}
    Codes = {c1}
    Cleaners = {}
    SlowReaders = {r1}
    Retries = {}
    Days = {0, 1}
    PrechargeAmounts = {2}
    FinalAmounts = {1, 3}
    UserLimit = 3
    KeyLimit = 3
    KeyCredits = 4
    UpstreamTimeout = 1
    SettleWindow = 0
    LogQueueSize = 0
    LastArrival = 2
    MaxTime = 2
    MaxFaults = 0
    OwnerOf <- MCOwnerOf
    KeyOf <- MCKeyOf
    GrantAmounts <- MCGrantAmounts
    CodeCredits <- MCCodeCredits
    ExpiresAt <- MCExpiresAt
    CreditLimit <- MCCreditLimit
    DailyLimit <- MCDailyLimit
    KeyDailyLimit <- MCKeyDailyLimit
    DayOf <- MCDayOf
    ThresholdOf <- MCThresholdOf
SPECIFICATION Spec
INVARIANTS
    LimitsHold
    CodesPayOnce
CHECK_DEADLOCK FALSE
