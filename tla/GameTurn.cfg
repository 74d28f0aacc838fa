\* Two turns after the opening one, a check and a tool call each, two requests or server stops.
SPECIFICATION Spec
CONSTANTS
    Cards = {c1, c2}
    Spaces = 2
    Rolls = {1}
    MaxTurns = 2
    MaxChecks = 1
    MaxCalls = 1
    MaxResults = 1
    MaxEvents = 2
SYMMETRY Symmetry
CONSTRAINTS WhileCalm FewThoughts
INVARIANTS DeckFollowsResults AuditsAreTheChanges DoneTurnIsWhole ForkIsWhole
CHECK_DEADLOCK FALSE
