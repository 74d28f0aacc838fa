---------------------------- MODULE MCChatSummary ----------------------------
(***************************************************************************)
(* A chat whose summary is made at five messages and keeps two.            *)
(***************************************************************************)
EXTENDS ChatSummary

\* What follows an overlap is not explored: most properties say nothing of it.
WhileCalm == calm
=============================================================================
