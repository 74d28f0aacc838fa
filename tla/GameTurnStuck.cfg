\* A cancelled job and its turn.
SPECIFICATION Spec
CONSTANTS
    Cards = {c1, c2}
    Spaces = 2
    Rolls = {1}
    MaxTurns = 2
    MaxChecks = 1
    MaxCalls = 1
    MaxResults = 1
    MaxEvents = 2
INVARIANTS SettledTurnCanBeRetried
CHECK_DEADLOCK FALSE
