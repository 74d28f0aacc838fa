CONSTANTS
    Texts <- MCTexts
    Blank = "blank"
    MaxReplies = 2
    Budgets <- MCBudgets
SPECIFICATION SyncSpec
INVARIANTS
    StreamFollowsTab
PROPERTIES
    PageConverges
\* A tab may stay hidden for good: then nothing runs.
CHECK_DEADLOCK FALSE
