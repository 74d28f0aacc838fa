\* Two jobs of any kind, three edits, deletions, switches, cancels, lost clients or stops.
SPECIFICATION Spec
CONSTANTS
    MaxJobs = 2
    MaxEvents = 3
    MaxPieces = 2
    MaxAttempts = 2
CONSTRAINT WhileCalm
INVARIANTS TypeOK AuditsAreTheChanges ContinueOnlyAppends SettledBeatHasText
CHECK_DEADLOCK FALSE
