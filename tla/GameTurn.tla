------------------------------ MODULE GameTurn ------------------------------
(***************************************************************************)
(* One game: turns generated by queued jobs that roll checks, narrate,     *)
(* draw cards, move the pawn and change the game's state, and the requests *)
(* that interrupt or undo them (crates/server/src/game_db.rs, game_turn.rs,*)
(* game_turn_agent.rs, game_state_recheck.rs, game_summarize.rs and        *)
(* routes/games.rs).                                                       *)
(*                                                                         *)
(* A request handler is one step. A job is a step per write or group of    *)
(* writes between two of which others may come, and the server may stop at *)
(* any of them. A change of the typed state is only its identity           *)
(* (TypedState has the rest); the game has an opening turn, which no       *)
(* action of this module touches.                                          *)
(***************************************************************************)
EXTENDS GameMechanics, FiniteSets

CONSTANTS
    MaxTurns,    \* bound: turns submitted, the opening not counted
    MaxChecks,   \* bound: checks one declaration asks for
    MaxCalls,    \* bound: tool calls of one narration
    MaxResults,  \* bound: results in a list that the user writes
    MaxEvents    \* bound: requests other than submissions, and server stops

ASSUME BoundsAssumption == MaxCalls \in Nat /\ MaxResults \in Nat

VARIABLES
    turns,    \* the game_turns rows after the opening; the i-th has sort_order i - 1
    changes,  \* what the turns contributed to game_state_entries: <<turn id, n>>
    deck,     \* games.element_instances_json
    scene,    \* the game's one game_scenes row, which starts at turn 0
    jobs,     \* the jobs, a running one with what its task holds in memory
    issued,   \* turn ids handed out
    events,   \* requests other than submissions, and server stops, so far
    calm      \* ghost: no job met the leftovers of another one

vars == <<turns, changes, deck, scene, jobs, issued, events, calm>>

-----------------------------------------------------------------------------
(* Rows and tasks                                                          *)

\* What a narration has written: nothing, only a thought, which thought blocks keep
\* beside the prose, or prose; and the markers in the prose: one more than the highest
\* check, result or change that one of them names.
NoProse == [text |-> "none", checks |-> 0, results |-> 0, changes |-> 0]
HasContent(prose) == prose # NoProse
WithoutThoughts(prose) == [prose EXCEPT !.text = IF @ = "thought" THEN "none" ELSE @]
HasProse(prose) == HasContent(WithoutThoughts(prose))

\* edited, a ghost: the user wrote the list of results.
NewTurn(id) ==
    [id |-> id, phase |-> "pending", checks |-> <<>>, prose |-> NoProse,
     results |-> <<>>, audit |-> <<>>, edited |-> FALSE]

\* row: the job row is queued or running; token: its token was cancelled; calls:
\* tool calls left; the rest is what run_inline_prose_pass accumulates.
NewJob(kind, turn) ==
    [kind |-> kind, turn |-> turn, row |-> TRUE, token |-> FALSE, step |-> "queued",
     asked |-> 0, calls |-> MaxCalls, prose |-> NoProse, results |-> <<>>,
     audit |-> <<>>, deck |-> Deck(<<>>, {}, 0), seen |-> {}]

Narrators == {"structured", "prose"}
Live(job) == job.step # "queued"
Active == {job \in jobs : job.row}
ActiveOn(id) == \E job \in Active : job.turn = id

Ids == {turns[i].id : i \in DOMAIN turns}
IndexOf(id) == CHOOSE i \in DOMAIN turns : turns[i].id = id
TurnOf(job) == turns[IndexOf(job.turn)]
LastTurn == turns[Len(turns)]

\* An UPDATE by id: of no row once the turn is gone.
Update(id, row) == turns' = [i \in DOMAIN turns |-> IF turns[i].id = id THEN row ELSE turns[i]]

AllResults(rows) == FlattenSeq([i \in DOMAIN rows |-> rows[i].results])
Audited(rows) == UNION {ToSet(rows[i].audit) : i \in DOMAIN rows}

\* invalidate_scene_summaries_from a sort_order; the scene starts at turn 0.
Invalidated(from) == [scene EXCEPT !.valid = @ /\ from > 0]

NoNarratorLive == \A job \in jobs : Live(job) => job.kind \notin Narrators
NoneLiveOn(id) == \A job \in jobs : Live(job) => job.turn # id

Init ==
    /\ turns = <<>>
    /\ changes = {}
    /\ deck \in Shuffled
    /\ scene = [valid |-> FALSE, covers |-> {}]
    /\ jobs = {}
    /\ issued = 0
    /\ events = 0
    /\ calm = TRUE

-----------------------------------------------------------------------------
(* Requests                                                                *)

Served == events < MaxEvents /\ events' = events + 1

\* prepare_submit_turn
Submit ==
    /\ Active = {}
    /\ issued < MaxTurns
    /\ issued' = issued + 1
    /\ turns' = Append(turns, NewTurn(issued + 1))
    /\ jobs' = jobs \cup {NewJob("structured", issued + 1)}
    /\ calm' = (calm /\ NoNarratorLive)
    /\ UNCHANGED <<changes, deck, scene, events>>

\* turn_can_be_regenerated and turn_can_regenerate_prose
CanBeRegenerated(turn) ==
    \/ turn.phase = "done" /\ HasProse(turn.prose)
    \/ turn.phase \in {"checks", "rolled", "prose", "failed"}
CanRegenerateProse(turn) == turn.phase = "done" /\ HasProse(turn.prose)

\* assert_last_regeneratable_turn
LastAndIdle == turns # <<>> /\ ~ActiveOn(LastTurn.id)

\* A slip: the deck is replayed with the turn that is about to run again.
KeptWithItself == turns

\* prepare_structured_agent_rerun
TurnsBefore == Front(turns)
RegenerateTurn ==
    /\ Served
    /\ LastAndIdle
    /\ CanBeRegenerated(LastTurn)
    /\ deck' \in Replay(AllResults(TurnsBefore))
    /\ changes' = changes \ ToSet(LastTurn.audit)
    /\ Update(LastTurn.id, NewTurn(LastTurn.id))
    /\ jobs' = jobs \cup {NewJob("structured", LastTurn.id)}
    /\ calm' = (calm /\ NoNarratorLive /\ NoneLiveOn(LastTurn.id))
    /\ UNCHANGED <<scene, issued>>

\* prepare_prose_regenerate
RegenerateProse ==
    /\ Served
    /\ LastAndIdle
    /\ CanRegenerateProse(LastTurn)
    /\ changes' = changes \ ToSet(LastTurn.audit)
    /\ Update(LastTurn.id, [LastTurn EXCEPT !.prose = NoProse, !.audit = <<>>, !.phase = "prose",
                                            !.edited = FALSE])
    /\ jobs' = jobs \cup {NewJob("prose", LastTurn.id)}
    /\ calm' = (calm /\ NoNarratorLive /\ NoneLiveOn(LastTurn.id))
    /\ UNCHANGED <<deck, scene, issued>>

\* cancel_job of a job: a queued one is gone, a running task finds its token.
CancelledJob(job) == [job EXCEPT !.row = FALSE, !.token = TRUE]
Cancel(job) ==
    /\ Served
    /\ job.row
    /\ jobs' = (jobs \ {job}) \cup (IF Live(job) THEN {CancelledJob(job)} ELSE {})
    /\ UNCHANGED <<turns, changes, deck, scene, issued, calm>>

\* rewind_turn: cancels the jobs of the game, waits for none of them, and undoes
\* the turns after the i-th.
Rewind(i) ==
    /\ Served
    /\ i < Len(turns)
    /\ LET kept == SubSeq(turns, 1, i)
           dropped == SubSeq(turns, i + 1, Len(turns))
       IN /\ jobs' = {IF job.row THEN CancelledJob(job) ELSE job : job \in {j \in jobs : Live(j)}}
          /\ changes' = changes \ Audited(dropped)
          /\ turns' = kept
          /\ deck' \in Replay(AllResults(kept))
          /\ scene' = Invalidated(i)
          /\ calm' = (calm /\ NoNarratorLive /\ \A k \in DOMAIN dropped : NoneLiveOn(dropped[k].id))
    /\ UNCHANGED <<issued>>

\* update_turn of the results of the i-th turn: any list, whatever the markers in the
\* prose. The deck is rebuilt as if the turns after it had not been played.
AnyResult ==
    {Draw(card, TRUE) : card \in Cards} \cup {Move(to) : to \in {0, Spaces}}
EditedResults == UNION {[1..n -> AnyResult] : n \in 0..MaxResults}
EditMechanics(i) ==
    /\ Served
    /\ turns[i].phase \in {"done", "failed"}
    /\ ~ActiveOn(turns[i].id)
    /\ \E results \in EditedResults :
        /\ deck' \in Replay(AllResults(SubSeq(turns, 1, i - 1)) \o results)
        /\ Update(turns[i].id, [turns[i] EXCEPT !.results = results, !.edited = TRUE])
    /\ scene' = Invalidated(i - 1)
    /\ calm' = (calm /\ i = Len(turns) /\ NoNarratorLive)
    /\ UNCHANGED <<changes, jobs, issued>>

\* enqueue_turn_state_recheck
RecheckState(i) ==
    /\ Served
    /\ HasProse(turns[i].prose)
    /\ ~ActiveOn(turns[i].id)
    /\ jobs' = jobs \cup {NewJob("recheck", turns[i].id)}
    /\ calm' = (calm /\ NoneLiveOn(turns[i].id))
    /\ UNCHANGED <<turns, changes, deck, scene, issued>>

-----------------------------------------------------------------------------
(* The job of a turn: run_tools_structured_phase, run_prose_regenerate_job *)

Become(job, next) == jobs' = (jobs \ {job}) \cup {next}
Ends(job) == jobs' = jobs \ {job}
TurnExists(job) == job.turn \in Ids

\* What a job finds of an earlier run of it: nothing, if all is well.
Leftovers(job) ==
    \/ job.kind = "structured" /\ TurnOf(job).results # <<>>
    \/ TurnOf(job).audit # <<>>
    \/ \E c \in changes : c[1] = job.turn

\* A prose job reads the checks that are there, and narrates. The prose of an earlier
\* run stays until the first flush, its thoughts go.
Narration(checks) == [NoProse EXCEPT !.checks = checks]
Narrated(job, prose) ==
    [TurnOf(job) EXCEPT
        !.phase = "prose",
        !.prose = IF HasProse(prose) THEN prose ELSE WithoutThoughts(@)]
Start(job) ==
    /\ job.step = "queued"
    /\ job.kind \in Narrators
    /\ TurnExists(job)
    /\ IF job.kind = "structured"
       THEN /\ Update(job.turn, [TurnOf(job) EXCEPT !.phase = "checks"])
            /\ Become(job, [job EXCEPT !.step = "declare"])
       ELSE LET prose == Narration(Len(TurnOf(job).checks))
            IN /\ Update(job.turn, Narrated(job, prose))
               /\ Become(job, [job EXCEPT !.step = "stream", !.prose = prose])
    /\ calm' = (calm /\ NoNarratorLive /\ ~Leftovers(job))
    /\ UNCHANGED <<changes, deck, scene, issued, events>>

\* A slip: the checks of an earlier run stay.
DeclareOver(job) ==
    /\ job.step = "declare"
    /\ \E n \in 0..MaxChecks : Become(job, [job EXCEPT !.step = "insert", !.asked = n])
    /\ UNCHANGED <<turns, changes, deck, scene, issued, events, calm>>

\* declare_and_roll_checks: the model answers, the old checks go, and the new
\* ones are rolled and inserted one at a time.
Declare(job) ==
    /\ job.step = "declare"
    /\ TurnExists(job)
    /\ Update(job.turn, [TurnOf(job) EXCEPT !.checks = <<>>])
    /\ \E n \in 0..MaxChecks : Become(job, [job EXCEPT !.step = "insert", !.asked = n])
    /\ UNCHANGED <<changes, deck, scene, issued, events, calm>>

InsertCheck(job) ==
    /\ job.step = "insert"
    /\ TurnExists(job)
    /\ LET n == job.prose.checks
       IN IF n < job.asked
          THEN /\ Update(job.turn, [TurnOf(job) EXCEPT !.checks = Append(@, n)])
               /\ Become(job, [job EXCEPT !.prose = Narration(n + 1)])
          ELSE /\ Update(job.turn, [TurnOf(job) EXCEPT !.phase = "rolled"])
               /\ Become(job, [job EXCEPT !.step = "rolled"])
    /\ UNCHANGED <<changes, deck, scene, issued, events, calm>>

\* The narration begins with the deck as it is now, and with a marker per check.
Narrate(job) ==
    /\ job.step = "rolled"
    /\ ~job.token
    /\ TurnExists(job)
    /\ Update(job.turn, Narrated(job, job.prose))
    /\ Become(job, [job EXCEPT !.step = "stream", !.deck = deck])
    /\ UNCHANGED <<changes, deck, scene, issued, events, calm>>

\* A piece of text; the throttled flush may come with the next write only.
Stream(job) ==
    /\ job.step = "stream"
    /\ ~job.token
    /\ job.prose.text # "prose"
    /\ \E text \in {"thought", "prose"} \ {job.prose.text} :
        Become(job, [job EXCEPT !.prose = [job.prose EXCEPT !.text = text]])
    /\ UNCHANGED <<turns, changes, deck, scene, issued, events, calm>>

\* append_inline_marker, of the next result or change: a thought that is still open
\* takes it in.
Marked(prose, last, next) == {next} \cup IF prose.text = "none" THEN {} ELSE {last}

\* flush_prose_throttled: the text so far.
Flushed(job) == [TurnOf(job) EXCEPT !.prose = job.prose]

\* An outcome tool: its result is recorded, then the deck is saved, then the
\* prose with the marker of the result. flush_turn_mechanicals_streaming
CallTool(job) ==
    /\ job.step = "stream"
    /\ job.kind = "structured"
    /\ job.calls > 0
    /\ \E outcome \in ToolOutcomes(job.deck),
          mark \in Marked(job.prose, job.prose.results, Len(job.results) + 1) :
        Become(job, [job EXCEPT !.step = "results", !.calls = job.calls - 1, !.deck = outcome.deck,
                                !.results = Append(job.results, outcome.result),
                                !.prose = [job.prose EXCEPT !.results = mark]])
    /\ Update(job.turn, Flushed(job))
    /\ UNCHANGED <<changes, deck, scene, issued, events, calm>>

WriteResults(job) ==
    /\ job.step = "results"
    /\ Update(job.turn, [TurnOf(job) EXCEPT !.results = job.results])
    /\ Become(job, [job EXCEPT !.step = "deck"])
    /\ UNCHANGED <<changes, deck, scene, issued, events, calm>>

WriteDeck(job) ==
    /\ job.step = "deck"
    /\ deck' = job.deck
    /\ Update(job.turn, Flushed(job))
    /\ Become(job, [job EXCEPT !.step = "stream"])
    /\ UNCHANGED <<changes, scene, issued, events, calm>>

\* A state tool: the change is applied, then the whole audit of this run written.
NewChange(id) == <<id, 1 + Cardinality({c \in changes : c[1] = id})>>
ApplyChange(job) ==
    /\ job.step = "stream"
    /\ job.kind \in Narrators
    /\ job.calls > 0
    /\ changes' = changes \cup {NewChange(job.turn)}
    /\ \E mark \in Marked(job.prose, job.prose.changes, Len(job.audit) + 1) :
        Become(job, [job EXCEPT !.step = "audit", !.calls = job.calls - 1,
                                !.audit = Append(job.audit, NewChange(job.turn)),
                                !.prose = [job.prose EXCEPT !.changes = mark]])
    /\ Update(job.turn, Flushed(job))
    /\ UNCHANGED <<deck, scene, issued, events, calm>>

WriteAudit(job) ==
    /\ job.step = "audit"
    /\ Update(job.turn, [TurnOf(job) EXCEPT !.audit = job.audit, !.prose = job.prose])
    /\ Become(job, [job EXCEPT !.step = "stream"])
    /\ UNCHANGED <<changes, deck, scene, issued, events, calm>>

\* A turn's sort_order is one less than its place.
Recorded(job) ==
    [TurnOf(job) EXCEPT !.prose = job.prose,
                        !.results = IF job.results = <<>> THEN @ ELSE job.results,
                        !.audit = IF job.audit = <<>> THEN @ ELSE job.audit]

\* The end of the narration: finalize_turn_prose, persist_turn_mechanicals and
\* the audit.
Finish(job) ==
    /\ job.step = "stream"
    /\ Update(job.turn, Recorded(job))
    /\ deck' = IF job.results = <<>> THEN deck ELSE job.deck
    /\ scene' = IF job.audit # <<>> /\ TurnExists(job) THEN Invalidated(IndexOf(job.turn) - 1)
                ELSE scene
    /\ Become(job, [job EXCEPT !.step = "close"])
    /\ UNCHANGED <<changes, issued, events, calm>>

\* "model returned no prose", or done: a thought is enough.
Failed(job) == [TurnOf(job) EXCEPT !.phase = "failed"]
Close(job) ==
    /\ job.step = "close"
    /\ IF HasContent(job.prose)
       THEN /\ Update(job.turn, [TurnOf(job) EXCEPT !.phase = "done"])
            /\ Become(job, [job EXCEPT !.step = "complete"])
       ELSE Update(job.turn, Failed(job)) /\ Ends(job)
    /\ UNCHANGED <<changes, deck, scene, issued, events, calm>>

\* complete_job and maybe_enqueue_scene_summarize: three turns, the opening
\* one of them, and no job of the game but this one.
SceneSpan == 3
Complete(job) ==
    /\ job.step = "complete"
    /\ jobs' = (jobs \ {job}) \cup
                  IF /\ Len(turns) + 1 >= SceneSpan
                     /\ ~scene.valid
                     /\ Active \subseteq {job}
                  THEN {NewJob("summarize", 0)} ELSE {}
    /\ UNCHANGED <<turns, changes, deck, scene, issued, events, calm>>

\* The model fails, or the task finds its token: fail_job marks the turn, unless
\* the job is no longer running.
MayStop(job) ==
    \/ job.step \in {"declare", "stream"}
    \/ job.step = "rolled" /\ job.token
    \/ job.kind \in Narrators /\ job.step \in {"insert", "rolled"} /\ ~TurnExists(job)
Stop(job) ==
    /\ MayStop(job)
    /\ IF job.row /\ job.kind \in Narrators THEN Update(job.turn, Failed(job)) ELSE UNCHANGED turns
    /\ Ends(job)
    /\ UNCHANGED <<changes, deck, scene, issued, events, calm>>

-----------------------------------------------------------------------------
(* The other jobs                                                          *)

\* run_turn_state_recheck_job: the turn is read once, before the model is asked.
StartRecheck(job) ==
    /\ job.kind = "recheck"
    /\ job.step = "queued"
    /\ IF TurnExists(job) /\ HasProse(TurnOf(job).prose)
       THEN Become(job, [job EXCEPT !.step = "recheck", !.audit = TurnOf(job).audit])
       ELSE Ends(job)
    /\ UNCHANGED <<turns, changes, deck, scene, issued, events, calm>>

Recheck(job) ==
    /\ job.step = "recheck"
    /\ \/ Ends(job) /\ UNCHANGED changes \* nothing to change, or an error
       \/ /\ changes' = changes \cup {NewChange(job.turn)}
          /\ Become(job, [job EXCEPT !.step = "merge",
                                     !.audit = Append(job.audit, NewChange(job.turn))])
    /\ UNCHANGED <<turns, deck, scene, issued, events, calm>>

\* A slip: the audit is only what the recheck found.
MergeOver(job) ==
    /\ job.step = "merge"
    /\ Update(job.turn, [TurnOf(job) EXCEPT !.audit = <<job.audit[Len(job.audit)]>>])
    /\ Ends(job)
    /\ UNCHANGED <<changes, deck, scene, issued, events, calm>>

MergeAudit(job) ==
    /\ job.step = "merge"
    /\ Update(job.turn, [TurnOf(job) EXCEPT !.audit = job.audit])
    /\ Ends(job)
    /\ UNCHANGED <<changes, deck, scene, issued, events, calm>>

\* run_game_scene_summarize_job: the transcript is read, the model asked.
StartSummary(job) ==
    /\ job.kind = "summarize"
    /\ job.step = "queued"
    /\ Become(job, [job EXCEPT !.step = "summarize",
                               !.seen = {t.id : t \in {u \in ToSet(turns) : HasProse(u.prose)}}])
    /\ UNCHANGED <<turns, changes, deck, scene, issued, events, calm>>

Summarize(job) ==
    /\ job.step = "summarize"
    /\ \/ scene' = [valid |-> TRUE, covers |-> job.seen]
       \/ UNCHANGED scene \* an error
    /\ Ends(job)
    /\ UNCHANGED <<turns, changes, deck, issued, events, calm>>

\* The server stops: the tasks are gone, the jobs that ran are queued again. A
\* turn whose last effect was not recorded yet is out of its record's reach.
Crash ==
    /\ events < MaxEvents
    /\ events' = events + 1
    /\ \E job \in jobs : Live(job)
    /\ jobs' = {NewJob(job.kind, job.turn) : job \in Active}
    /\ calm' = (calm /\ \A job \in jobs : job.step \notin {"deck", "audit", "merge"})
    /\ UNCHANGED <<turns, changes, deck, scene, issued>>

RollChecks(job) == Declare(job) \/ InsertCheck(job)

\* The narration with the tools of the game at hand, and the one without them.
InlinePass(job) ==
    /\ job.kind = "structured"
    /\ \/ Stream(job)
       \/ CallTool(job) \/ WriteResults(job) \/ WriteDeck(job)
       \/ ApplyChange(job) \/ WriteAudit(job)
ProsePass(job) == job.kind = "prose" /\ (Stream(job) \/ ApplyChange(job) \/ WriteAudit(job))

TurnStep(job) ==
    \/ Start(job)
    \/ RollChecks(job)
    \/ Narrate(job)
    \/ InlinePass(job)
    \/ ProsePass(job)
    \/ Finish(job)
    \/ Close(job)
    \/ Complete(job)
    \/ Stop(job)
RecheckStep(job) == StartRecheck(job) \/ Recheck(job) \/ MergeAudit(job)
SummaryStep(job) == StartSummary(job) \/ Summarize(job)

Next ==
    \/ Submit
    \/ RegenerateTurn
    \/ RegenerateProse
    \/ \E job \in jobs : Cancel(job)
    \/ \E i \in 0..MaxTurns : Rewind(i)
    \/ \E i \in DOMAIN turns : EditMechanics(i) \/ RecheckState(i)
    \/ \E job \in jobs : TurnStep(job) \/ RecheckStep(job) \/ SummaryStep(job)
    \/ Crash

Spec == Init /\ [][Next]_vars

-----------------------------------------------------------------------------
(* fork_game_at_turn: a new game made of what is there                     *)

CanFork(i) == Active = {} /\ turns[i].phase = "done"
ForkedTurns(i) == SubSeq(turns, 1, i)
\* A slip: the new game keeps the state of the old one.
CopiedChanges(i) == changes
\* The new game starts with all the state and undoes the turns it leaves out.
ForkedChanges(i) == changes \ Audited(SubSeq(turns, i + 1, Len(turns)))

-----------------------------------------------------------------------------
(* Properties                                                              *)

\* The deck and the board are what the recorded results of the turns, edited
\* ones included, make of a new deck: no card is lost or drawn twice by a
\* regenerate, a rewind, a failure or a restart before the first tool call.
DeckFollowsResults ==
    calm /\ NoNarratorLive => Accounts(deck, AllResults(turns))

\* Every change a turn made to the game's state is in its audit, so that it
\* can be undone, and the audit names no other, whether the turn ended well
\* or was cancelled, failed, regenerated or rechecked beside a later turn.
AuditsAreTheChanges ==
    /\ calm
    /\ \A job \in jobs : Live(job) => job.kind = "summarize"
    => changes = Audited(turns)

\* A completed turn has prose or at least a thought, and the markers in its prose each
\* name one check, one result or one change of it, whatever runs were needed to complete
\* it. The results are those of its narration, not a list that the user wrote.
DoneTurnIsWhole ==
    \A turn \in ToSet(turns) :
        calm /\ turn.phase = "done" =>
            /\ HasContent(turn.prose)
            /\ \A k \in 1..turn.prose.checks :
                Cardinality({j \in DOMAIN turn.checks : turn.checks[j] = k - 1}) = 1
            /\ turn.edited \/ turn.prose.results <= Len(turn.results)
            /\ turn.prose.changes <= Len(turn.audit)

\* A fork at a completed turn has the changes of the turns it keeps, and only
\* those.
ForkIsWhole ==
    \A i \in DOMAIN turns :
        calm /\ CanFork(i) /\ (\A job \in jobs : ~Live(job))
            => ForkedChanges(i) = Audited(ForkedTurns(i))

-----------------------------------------------------------------------------
(* What the repository says of a game and the code does not do, which a    *)
(* run of its own refutes.                                                 *)

\* game_db.rs:988: a turn left behind by a cancelled or crashed job can be
\* retried.
SettledTurnCanBeRetried ==
    turns # <<>> /\ jobs = {} /\ LastTurn.phase # "done" => CanBeRegenerated(LastTurn)
=============================================================================
