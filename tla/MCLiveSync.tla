---------------------------- MODULE MCLiveSync ----------------------------
(* Model constants for LiveSync. *)
EXTENDS LiveSync

MCTexts == {"blank", "text"}

Budget(changes, faults, visits) == [changes |-> changes, faults |-> faults, visits |-> visits]
MCBudgets == {Budget(2, 1, 0), Budget(2, 0, 1), Budget(1, 0, 2), Budget(1, 1, 1)}
============================================================================
