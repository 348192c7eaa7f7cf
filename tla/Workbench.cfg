SPECIFICATION Spec
CONSTANTS
    NoQuery = NoQuery
    NoDetail = NoDetail
    NoSnapshot = NoSnapshot
    NoId = NoId
    Payloads <- MCPayloads
    Queries = {"q"}
    TypedIds <- MCTypedIds
    Insights <- MCInsights
    MaxCards = 2
    MaxOlder = 1
    MaxItems = 3
    MaxPolls = 2
    MaxMoves = 5
INVARIANTS
    TypeOK
    
    TreeShowsEach
    LinkLands
CHECK_DEADLOCK FALSE
