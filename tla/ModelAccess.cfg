CONSTANTS
    MaxConnections = 3
    Servers <- MCServers
    Accepts <- MCAccepts
    Good <- MCGood
    Calls = {1, 2}
    Kinds <- MCKinds
    Tables <- MCTables
    Picks <- MCPicks
    MaxAttempts = 2
    Budgets <- MCBudgets
SPECIFICATION Spec
INVARIANTS
    ServingProviderIsFound
    CancelledCallAsksNobodyElse
    LabelTellsWhoIsAsked
    ActiveConnectionStays
PROPERTIES
    LearnedFormatIsTrue
    CallsEnd
\* Calls end, and users need not come back.
CHECK_DEADLOCK FALSE
