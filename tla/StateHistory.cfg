\* Two turns and three batches of a game, a chat and a story.
SPECIFICATION Spec
CONSTANTS
    NoNum = NoNum
    Batches <- ByScope
    NewNames = {"npc2"}
    MaxTurns = 2
    MaxBatches = 3
    MaxRenames = 1
INVARIANTS TypeOK BatchIsSequential
PROPERTIES RegenerateRestores RewindRestores RegenerateStaysInItsSlots
CHECK_DEADLOCK FALSE
