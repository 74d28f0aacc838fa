SPECIFICATION Spec
CONSTANTS
    Jobs = {1, 2}
    Kind <- StreamThenOnce
    Story <- NoOutline
    NoStory = NoStory
    ClaimLimit = 8
    DefaultCap = 2
    Requests = {0}
    Slots = {s1, s2}
    NoSlot = NoSlot
    Cancellable = {1}
    Deletable = {}
    Ageable = {}
    Panicking = {}
    MaxCrashes = 0
    MaxFaults = 1
INVARIANTS
    TypeOK
    OneTaskPerJob
    NoLostWakeup
PROPERTIES
    StartsWithinCap
    SettledIsNeverActive
