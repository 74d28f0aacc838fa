------------------------------ MODULE MCStory ------------------------------
(***************************************************************************)
(* A story of two chapters, with a beat each.                              *)
(***************************************************************************)
EXTENDS Story

\* What follows an overlap is not explored: the invariants say nothing of it.
WhileCalm == calm
=============================================================================
