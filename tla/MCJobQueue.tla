----------------------------- MODULE MCJobQueue -----------------------------
(***************************************************************************)
(* Instances of JobQueue for TLC: which handler and which story each job   *)
(* of a run has.                                                           *)
(***************************************************************************)
EXTENDS JobQueue

\* A chat reply or a story prose job, which polls its token, and a recheck.
StreamThenOnce == [j \in Jobs |-> IF j = 1 THEN "stream" ELSE "once"]
\* A marker job and a game turn.
SummarizeThenTurn == [j \in Jobs |-> IF j = 1 THEN "summarize" ELSE "turn"]
\* A game turn, then a chat reply.
TurnThenStream == [j \in Jobs |-> IF j = 1 THEN "turn" ELSE "stream"]

NoOutline == [j \in Jobs |-> NoStory]
\* All jobs rewrite the outline of one story.
OneStory == [j \in Jobs |-> "story"]
=============================================================================
