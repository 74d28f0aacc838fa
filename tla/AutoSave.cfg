CONSTANTS
    Forms <- MCForms
    Texts = {0, 1, 2}
    Budgets <- MCBudgets
SPECIFICATION Spec
CONSTRAINT WhileCalm
INVARIANTS
    SavedIsStored
PROPERTIES
    LockedFieldIsSilent
    EditSurvivesAnswers
    TypedTextIsSent
\* Nobody has to type, and a field without edits or jobs left is at rest.
CHECK_DEADLOCK FALSE
