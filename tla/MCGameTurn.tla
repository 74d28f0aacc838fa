----------------------------- MODULE MCGameTurn -----------------------------
(***************************************************************************)
(* A game with a deck of two cards and a board of two spaces.              *)
(***************************************************************************)
EXTENDS GameTurn

Symmetry == Permutations(Cards)

\* What follows an overlap is not explored: the invariants say nothing of it. Nor is
\* a thought of an earlier turn, or one that takes in a marker beside prose.
WhileCalm == calm
FewThoughts ==
    /\ \A i \in 1..Len(turns) - 1 : turns[i].prose.text # "thought"
    /\ \A job \in jobs :
        job.prose.text = "prose" =>
            /\ job.prose.results = Len(job.results)
            /\ job.prose.changes = Len(job.audit)
=============================================================================
