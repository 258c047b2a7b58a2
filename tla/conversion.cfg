CONSTANTS
    MaxPieces = 5
    TokensPerUnit = 10
    Percent = 10
    MicroDenom = 7
    MaxCredits = 200
    CallCounts = {0, 1, 3}
    Prompts <- MCPrompts
    Replies <- MCReplies
    Listings <- MCListings
    PeakRules <- MCPeakRules
    Moments <- MCMoments
SPECIFICATION Spec
INVARIANTS
    StreamWellFormed
    
    
    PricesCover
CHECK_DEADLOCK FALSE
