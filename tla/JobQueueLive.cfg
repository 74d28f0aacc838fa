SPECIFICATION FairSpec
CONSTANTS
    Jobs = {1, 2}
    Kind <- TurnThenStream
    Story <- OneStory
    NoStory = NoStory
    ClaimLimit = 8
    DefaultCap = 2
    Requests = {}
    Slots = {s1, s2}
    NoSlot = NoSlot
    Cancellable = {}
    Deletable = {}
    Ageable = {}
    Panicking = {1}
    MaxCrashes = 1
    MaxFaults = 1
PROPERTIES
    EveryJobSettles
