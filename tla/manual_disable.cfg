CONSTANTS
    c1 = c1
    c2 = c2
    k1 = k1
    None = None
    Channels = {c1}
    Requests = {r1}
    Conversations = {k1}
    Threshold = 1
    MaxRetries = 1
    MaxEdits = 1
    MaxOutages = 1
    MaxFaults = 0
    Priority <- MCPriority
    ConversationOf <- MCConversationOf
SPECIFICATION Spec
PROPERTIES
    ProbeKeepsManualDisable
CHECK_DEADLOCK FALSE
