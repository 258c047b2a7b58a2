CONSTANTS
    Logs = {"l1", "l2"}
    MaxDay = 2
    MaxRollupDays = 2
    Retention = 1
    None = None
    UserIds = {1, 2}
    Months = {0, 1}
    NoMonth = NoMonth
    GrantAmount = 1
    BatchSize = 1
    MaxBatches = 4
    MaxBalance = 3
    Budget = 1
    LowBalance = 1
    FailureRate = 50
    MinRequests = 1
    MaxFaults = 1
    Budgets <- MCBudgets
    MonthOf <- MCMonthOf
    RetentionOf <- MCRetentionOf
    NoKey = NoKey
    Alerts = {1, 2}
    Retries = 1
    Editable = {"smtp_host"}
    MaxTime = 2
    KeyOf <- MCKeyOf
    WindowOf <- MCWindowOf
SPECIFICATION FairSpec
INVARIANTS
    
    
    GrantedOncePerMonth
    PassReachesEveryone
    SuppressedOnlyAfterDelivery
    OutcomeTruthful

    
CHECK_DEADLOCK FALSE
