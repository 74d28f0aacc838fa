\* Every setting; requests and faults at any time.
SPECIFICATION Spec
CONSTANTS
    Jobs = {1, 2}
    Canceller = Canceller
    Regenerator = Regenerator
    Modes <- AllModes
    MaxAttempts = 2
    MaxRequests <- RequestsPerMode
    MaxFaults <- FaultsPerMode
INVARIANTS
    SettledReplyHasText
    AuditMatchesEffects
    CompletedReplyIsWhole
CHECK_DEADLOCK FALSE
