----------------------------- MODULE MCAutoSave -----------------------------
(* Model constants for AutoSave. *)
EXTENDS AutoSave

MCForms == {"basics", "prose", "settings"}

Budget(edits, jobs, faults) == [edits |-> edits, jobs |-> jobs, faults |-> faults]
MCBudgets == {Budget(4, 0, 1), Budget(3, 1, 1), Budget(2, 2, 1)}

\* Nothing is asked of a field after one of the events that end the calm.
WhileCalm == calm
=============================================================================
