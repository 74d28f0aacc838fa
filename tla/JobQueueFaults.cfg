SPECIFICATION Spec
CONSTANTS
    Jobs = {1}
    Kind <- SummarizeThenTurn
    Story <- NoOutline
    NoStory = NoStory
    ClaimLimit = 8
    DefaultCap = 1
    Requests = {}
    Slots = {s1, s2}
    NoSlot = NoSlot
    Cancellable = {1}
    Deletable = {1}
    Ageable = {1}
    Panicking = {}
    MaxCrashes = 1
    MaxFaults = 2
INVARIANTS
    TokenHasTask
PROPERTIES
    RowsFollowLifecycle
