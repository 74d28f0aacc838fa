\* Four messages, one more to come; two jobs; two rewinds, deletions, cancels, lost clients or stops.
SPECIFICATION Spec
CONSTANTS
    KeepRecent = 2
    After = 4
    Adaptive = TRUE
    Initial = 4
    MaxMessages = 5
    MaxJobs = 2
    MaxEvents = 2
CONSTRAINT WhileCalm
INVARIANTS PromptLosesNothing SettledMarkersAreWritten
PROPERTIES RecentMessagesStay JobsEnd
CHECK_DEADLOCK FALSE
