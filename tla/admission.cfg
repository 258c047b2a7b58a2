CONSTANTS
    q1 = q1
    q2 = q2
    q3 = q3
    g1 = g1
    g2 = g2
    key1 = key1
    key2 = key2
    user1 = user1
    address1 = address1
    u1 = u1
    Requests = {q1, q2, q3}
    Registrations = {g1}
    Buckets = {key1, key2, user1, address1}
    LargeRequests = {q1, q3}
    RequestWindow = 2
    RegistrationWindow = 6
    SweepInterval = 2
    UserQuota = 2
    GlobalLimit = 2
    LargeQuota = 1
    MaxLag = 1
    MaxTime = 4
    KeyBucket <- MCKeyBucket
    UserBucket <- MCUserBucket
    AddressBucket <- MCAddressBucket
    LimitOf <- MCLimitOf
    UserOf <- MCUserOf
SPECIFICATION Spec
INVARIANTS
    RequestLimitsKept
    GateCountsRequests
CHECK_DEADLOCK FALSE
