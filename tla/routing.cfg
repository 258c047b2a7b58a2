CONSTANTS
    c1 = c1
    c2 = c2
    k1 = k1
    None = None
    Channels = {c1, c2}
    Requests = {r1, r2}
    Conversations = {k1}
    Threshold = 2
    MaxRetries = 2
    MaxEdits = 2
    MaxOutages = 2
    MaxFaults = 1
    Priority <- MCPriority
    ConversationOf <- MCConversationOf
SPECIFICATION FairSpec
INVARIANTS
    FailoverInOrder
PROPERTIES
    ManualDisableHolds
    AutoDisabledRecovers
CHECK_DEADLOCK FALSE
