---------------------------- MODULE StateHistory ----------------------------
(***************************************************************************)
(* The life of one state table, of a chat, a game or a story: turns (chat  *)
(* messages, game turns, story beats) whose generation applies batches of  *)
(* changes and records their audit, and the operations that undo them:     *)
(* regenerate, rewind.                                                     *)
(*                                                                         *)
(* A step is a whole batch or a whole revert; how they interleave with     *)
(* other jobs is not this module's subject. What happens inside, where one *)
(* statement of several may fail, is.                                      *)
(***************************************************************************)
EXTENDS TypedState, FiniteSets

CONSTANTS
    Batches,   \* the batches of requests a model answer may hold, by scope
    NewNames,  \* the names a user may give to an actor of a game
    MaxTurns,  \* bound: turns
    MaxBatches, \* bound: batches applied in all
    MaxRenames \* bound: renamed actors

\* What StateChangeRequest admits of a request, once it is parsed.
IsRequest(c) ==
    /\ c.kind \in DOMAIN KindRank
    /\ c.num \in Int \cup {NoNum}
    /\ c.items \in Nat
    /\ c.loop \in BOOLEAN

ASSUME BatchesAssumption ==
    \A s \in DOMAIN Batches : \A b \in Batches[s] :
        b \in Seq(Range(b)) /\ \A c \in Range(b) : IsRequest(c)

VARIABLES
    scope,   \* whose table it is; no step changes it
    entries, \* the *_state_entries rows
    actors,  \* the names of the *_actors rows, in the order they are listed
    turns,   \* the turns, each with its audit (the state_changes column)
    batches, \* batches applied so far
    renames  \* actors renamed so far

vars == <<scope, entries, actors, turns, batches, renames>>

\* What a prompt shows of an entry: everything but its row id.
Visible(table) == {[actor |-> e.actor, kind |-> e.kind, key |-> e.key, cols |-> e.cols] : e \in table}

\* Ghosts of a turn: before, the entries its first batch found; slots, those its
\* batches addressed; intact, that every write of it was audited and every
\* revert since it began was of a tame turn.
NewTurn == [audit |-> <<>>, before |-> Visible(entries), slots |-> {}, intact |-> TRUE]
LastTurn == turns[Len(turns)]

\* A chat regenerates its last message (it rewinds to any other first), a game
\* its last turn, a story any beat.
Regenerable == IF scope = "story" THEN DOMAIN turns ELSE DOMAIN turns \cap {Len(turns)}

AtMostOneEntryPerSlot(table) ==
    \A d, e \in table : d.actor = e.actor /\ d.key = e.key => d = e

\* A removed or replaced measurement can be inserted again, by a game.
MeasurementComesBack(c) ==
    /\ scope = "game"
    /\ c.prev.kind = "measurement"
    /\ c.prev.cols.num # NoNum

\* The changes whose audit is enough to undo them: those that found nothing,
\* or that changed an entry in place.
Undoable(c) ==
    \/ c.prev = NoPrev
    \/ /\ c.op # "remove"
       /\ c.kind = c.prev.kind
       /\ c.kind = "measurement" => c.prev.cols.num # NoNum
    \/ MeasurementComesBack(c)

Tame(turn) ==
    /\ turn.intact
    /\ \A c \in Range(turn.audit) : Undoable(c)
    /\ AtMostOneEntryPerSlot(turn.before)

\* The turns, when a step undid less than it should have.
Spoilt(all) == [k \in DOMAIN all |-> [all[k] EXCEPT !.intact = FALSE]]

TypeOK ==
    /\ \A e \in entries :
        /\ e.id \in Nat \ {0}
        /\ e.actor \in 0..Len(actors)
        /\ e.kind \in DOMAIN KindRank
        /\ \A n \in {e.cols.num, e.cols.lo, e.cols.hi} : n = NoNum \/ n \in Int
        /\ e.kind = "sequence" => e.cols.value[2] \in 0..e.cols.value[1] - 1
    /\ \A d, e \in entries : d.id = e.id => d = e
    /\ \A t \in Range(turns) : \A c \in Range(t.audit) :
        c.prev # NoPrev => c.prev.kind \in DOMAIN KindRank

Init ==
    /\ scope \in DOMAIN Batches
    /\ entries = {}
    /\ actors = <<"pc">>
    /\ turns = <<>>
    /\ batches = 0
    /\ renames = 0

SlotsOf(batch, known) == {<<ResolveActor(c.target, known), c.key>> : c \in Range(batch)}

\* apply_state_changes and the save of the audit that follows it, for the i-th
\* turn. A failed statement ends the job: what was written stays, unaudited.
Apply(batch, i, turn) ==
    /\ batches < MaxBatches
    /\ batches' = batches + 1
    /\ \E applied \in {ApplyStateChanges(batch, actors, entries)} :
        LET ok == applied.table.ok
            after == [turn EXCEPT !.audit = IF ok THEN @ \o applied.audit ELSE @,
                                  !.slots = @ \cup SlotsOf(batch, applied.actors),
                                  !.intact = @ /\ ok]
        IN /\ entries' = applied.table.entries
           /\ actors' = applied.actors
           /\ turns' = [k \in DOMAIN turns \cup {i} |-> IF k = i THEN after ELSE turns[k]]
    /\ UNCHANGED <<scope, renames>>

\* The first batch of a new message, turn or beat.
ApplyToNewTurn(batch) ==
    /\ Len(turns) < MaxTurns
    /\ Apply(batch, Len(turns) + 1, NewTurn)

\* A tool call of the same generation, or the first batch after a regenerate.
ApplyToTurn(batch, i) ==
    /\ i \in Regenerable
    /\ Apply(batch, i, IF turns[i].audit = <<>> /\ turns[i].intact THEN NewTurn ELSE turns[i])

\* regenerate_message, prepare_structured_agent_rerun, prepare_prose_regenerate
\* and prepare_generate_prose: undo the turn, then forget its audit.
Regenerate(i) ==
    /\ i \in Regenerable
    /\ turns[i].audit # <<>>
    /\ \E reverted \in {RevertStateChanges(scope, turns[i].audit, actors, entries)} :
        /\ entries' = reverted.entries
        /\ LET after == IF reverted.ok THEN [turns EXCEPT ![i].audit = <<>>] ELSE turns
           IN turns' = IF reverted.ok /\ Tame(turns[i]) THEN after ELSE Spoilt(after)
    /\ UNCHANGED <<scope, actors, batches, renames>>

UndoTurn(turn, table) ==
    IF ~table.ok THEN table ELSE RevertStateChanges(scope, turn.audit, actors, table.entries)

\* A slip: the turns reverted in the order they were played.
UndoOldestFirst(undone) ==
    LET Undo(table, turn) == UndoTurn(turn, table)
    IN FoldLeft(Undo, Table(entries), undone)

UndoTurns(undone) ==
    LET table[k \in 0..Len(undone)] ==
            IF k = 0 THEN Table(entries)
            ELSE UndoTurn(undone[Len(undone) + 1 - k], table[k - 1])
    IN table[Len(undone)]

\* rewind_game_at_turn: the turns after the i-th, the newest first.
RewindGame(i) ==
    /\ scope = "game"
    /\ i < Len(turns)
    /\ \E reverted \in {UndoTurns(SubSeq(turns, i + 1, Len(turns)))} :
        /\ entries' = reverted.entries
        /\ LET after == IF reverted.ok THEN SubSeq(turns, 1, i) ELSE turns
               tame == \A k \in i + 1..Len(turns) : Tame(turns[k])
           IN turns' = IF reverted.ok /\ tame THEN after ELSE Spoilt(after)
    /\ UNCHANGED <<scope, actors, batches, renames>>

\* rewind_after_message: the later messages go, with their audits.
RewindChat(i) ==
    /\ scope = "chat"
    /\ i < Len(turns)
    /\ LET after == SubSeq(turns, 1, i)
           changed == \E k \in i + 1..Len(turns) : turns[k].audit # <<>> \/ ~turns[k].intact
       IN turns' = IF changed THEN Spoilt(after) ELSE after
    /\ UNCHANGED <<scope, entries, actors, batches, renames>>

\* update_actor: the player is found by role, whatever its name.
RenameActor(i, name) ==
    /\ scope = "game"
    /\ renames < MaxRenames
    /\ actors[i] # "pc"
    /\ actors' = [actors EXCEPT ![i] = name]
    /\ renames' = renames + 1
    /\ UNCHANGED <<scope, entries, turns, batches>>

ApplyAny == \E batch \in Batches[scope] :
    ApplyToNewTurn(batch) \/ \E i \in 1..MaxTurns : ApplyToTurn(batch, i)

Next ==
    \/ ApplyAny
    \/ \E i \in 1..MaxTurns : Regenerate(i)
    \/ \E i \in 0..MaxTurns : RewindGame(i) \/ RewindChat(i)
    \/ \E i \in DOMAIN actors, name \in NewNames : RenameActor(i, name)

Spec == Init /\ [][Next]_vars

-----------------------------------------------------------------------------
(* Properties                                                              *)

Slots(table) == {<<e.actor, e.key>> : e \in table}
At(table, slot) == {e \in Visible(table) : <<e.actor, e.key>> = slot}

\* Regenerating the last turn of a chat or a game, when its changes can all be
\* undone, puts the table back to what the turn found, however many batches it
\* applied and however often they changed the same slot. (A beat of a story may
\* be regenerated under later ones.)
RegenerateRestores ==
    [][/\ turns # <<>>
       /\ Regenerate(Len(turns))
       /\ Tame(LastTurn)
       /\ scope # "story"
       /\ renames = 0
       => Visible(entries') = LastTurn.before]_vars

\* Rewinding a game over several such turns restores what the first of them
\* found: the reverts of later turns do not disturb those of earlier ones.
RewindRestores ==
    [][\A i \in 0..MaxTurns :
         /\ RewindGame(i)
         /\ \A k \in i + 1..Len(turns) : Tame(turns[k])
         /\ renames = 0
       => Visible(entries') = turns[i + 1].before]_vars

\* A regenerate leaves the entries its turn never addressed as they are, unless
\* an actor was renamed: then the audited name is resolved to the world.
RegenerateStaysInItsSlots ==
    [][\A i \in 1..MaxTurns : Regenerate(i) /\ renames = 0 =>
         \A slot \in Slots(entries \cup entries') \ turns[i].slots :
            At(entries, slot) = At(entries', slot)]_vars

\* Planning a batch at once, against the entries before it, does what applying
\* its last change after all the others would do, as long as no slot comes twice
\* and none of the others fails (which would end the batch).
ChangeSlot(c) == <<c.target, c.key>>
OnceEach(b) == \A i, k \in DOMAIN b : ChangeSlot(b[i]) = ChangeSlot(b[k]) => i = k
Outcome(applied) == [actors |-> applied.actors, table |-> Visible(applied.table.entries)]
BatchIsSequential ==
    \A b \in {c \in Batches[scope] : c # <<>> /\ OnceEach(c)} :
        \A first \in {ApplyStateChanges(Front(b), actors, entries)} :
            first.table.ok =>
                Outcome(ApplyStateChanges(b, actors, entries))
                  = Outcome(ApplyStateChanges(<<Last(b)>>, first.actors, first.table.entries))
=============================================================================
