---------------------------- MODULE GameMechanics ----------------------------
(***************************************************************************)
(* The decks and boards of a game: how a tool call of the narrator draws a *)
(* card or moves a pawn, and how a game's element instances are rebuilt    *)
(* from the results recorded on its turns                                  *)
(* (crates/server/src/game_mechanics.rs, game_tools.rs).                   *)
(*                                                                         *)
(* One deck and one board with one pawn. The order of the discard pile is  *)
(* left out: nothing reads it.                                             *)
(***************************************************************************)
EXTENDS Integers, FiniteSets, SequencesExt

CONSTANTS
    Cards,  \* the cards of the deck
    Spaces, \* the last space of the board
    Rolls   \* the totals of the board's move_dice

ASSUME MechanicsAssumption == IsFiniteSet(Cards) /\ Spaces \in Nat /\ Rolls \subseteq Nat

Deck(pile, discard, at) == [pile |-> pile, discard |-> discard, at |-> at]

\* init_element_instances: any order of the cards, the pawn at the start.
Shuffled == {Deck(pile, {}, 0) : pile \in SetToSeqs(Cards)}

Draw(card, consumed) == [kind |-> "draw", card |-> card, consumed |-> consumed]
Move(to) == [kind |-> "move", to |-> to]

\* execute_card_draw, from a deck that consumes what it draws.
DrawCard(deck, consume) ==
    [deck |-> IF consume
              THEN Deck(Tail(deck.pile), deck.discard \cup {Head(deck.pile)}, deck.at)
              ELSE deck,
     result |-> Draw(Head(deck.pile), consume)]

\* execute_board_move
MoveTo(deck, roll) == IF deck.at + roll > Spaces THEN Spaces ELSE deck.at + roll
MovePawn(deck, roll) ==
    [deck |-> [deck EXCEPT !.at = MoveTo(deck, roll)], result |-> Move(MoveTo(deck, roll))]

\* handle_mechanical_tool_call: what a call can do to a deck; an empty pile
\* answers with an error and records nothing.
ToolOutcomes(deck) ==
    {MovePawn(deck, roll) : roll \in Rolls}
        \cup IF deck.pile = <<>> THEN {} ELSE {DrawCard(deck, consume) : consume \in BOOLEAN}

\* apply_mechanical_result_to_instances
ApplyResult(deck, result) ==
    CASE result.kind = "move" -> [deck EXCEPT !.at = result.to]
      [] result.kind = "draw" /\ result.consumed ->
            Deck(RemoveFirst(deck.pile, result.card), deck.discard \cup {result.card}, deck.at)
      [] OTHER -> deck

\* replay_element_instances: the decks it may return, which differ in the
\* order of the cards that are left.
Replayed(deck, results) ==
    LET decks[i \in 0..Len(results)] ==
            IF i = 0 THEN deck ELSE ApplyResult(decks[i - 1], results[i])
    IN decks[Len(results)]
Replay(results) == {Replayed(deck, results) : deck \in Shuffled}

\* What a deck shows of the results behind it: everything but the order of the
\* cards that are left.
Shown(deck) == [left |-> ToSet(deck.pile), discard |-> deck.discard, at |-> deck.at]
Accounts(deck, results) == Shown(deck) \in {Shown(d) : d \in Replay(results)}
=============================================================================
