# Models of Dreamwell

Dreamwell is a self-hosted writing and role-playing server: a Rust process (axum,
SQLite) with a wasm front end.  This directory holds TLA+ models of its stateful
parts, TLC configurations that check them on small instances, and TLAPS proofs of
what matters most.  Paths such as `queue.rs` are those of `src/crates/server/src/`
unless a crate is named, `lib.rs`, `stories_ui.rs`, `story_save.rs`, `app_sync.rs` and
`chat_sync.rs` those of `src/crates/frontend/src/`; line numbers are those of the modelled commit.

1. [The system](#1-the-system): components, state, interactions, what is hard
2. [Modules](#2-modules) and how they correspond to the code
3. [What is checked](#3-what-is-checked): runs, bounds, fairness
4. [What the checks found](#4-what-the-checks-found)
5. [What is proved](#5-what-is-proved)
6. [What is abstracted, and what is not modelled](#6-what-is-abstracted-and-what-is-not-modelled)
7. [Plan](#7-plan)

## 1. The system

| Component | State it keeps | Operations | Talks to |
|---|---|---|---|
| Generation queue (`queue.rs`, job functions of `db.rs`) | rows of `generation_jobs`, concurrency setting, token map, work channel | enqueue, wake, claim, spawn, run, settle, cancel, requeue (orphan, stuck, stale) | every handler enqueues into it; it runs every generation |
| Chat replies (`queue.rs` run_chat_job, `routes/chats.rs`, `chat_prose_agent.rs`) | content, thoughts, flags and audit of a message | send, regenerate, edit, rewind, delete, stream, retry, fail, cancel | queue, typed state, summaries |
| Typed state (`dreamwell-state`, `state_persist.rs`, `game_state.rs`, `chat_state.rs`, `story_state.rs`) | actors, entries (variables, conditions, measurements, sequences) and the audit of each turn | plan, apply, revert, recheck, rename | chat replies, game turns, story beats |
| Chat summaries (`summarize.rs`) | marker messages, hidden flags, the running summary | plan, enqueue, summarize in a loop, regenerate, clean up | queue, chat replies |
| Game turns (`game_turn.rs`, `game_turn_agent.rs`, `game_db.rs`) | phase, checks, rolls, prose and audit of a turn | submit, continue, regenerate, realign, rewind, fork | queue, typed state, dice |
| Stories (`stories_db.rs`, story handlers of `queue.rs`) | outline, chapters, beats, prose, beat locks | outline, propose, draft, continue, accept, summarize | queue, typed state |
| Live updates (SSE handlers of `routes/`, frontend `lib.rs`, `api.rs`, `*_sync.rs`) | the page's copy of a chat, story or game, the stream it listens to | open, poll, pause, reconcile, reconnect | every table above |
| Forms of the front end (`story_save.rs`, `stories_ui.rs`, `lib.rs`) | drafts, what was saved, timers, locks | type, debounce, send, answer, lock, reload | stories, settings |
| Model access (`inference.rs`, `model_fallback.rs`, connections in `db.rs`) | the connections, the formats learned for them, the connections and formats a call has left to try | ask, learn, repair, retry, fall back; insert, edit, delete, activate | every generation |
| Tool calls in streams (`tool_stream.rs`) | the part of a stream held back | feed, flush | chat replies, game turns, stories |
| Dice, decks and boards (`game_resolution.rs`, `game_mechanics.rs`) | piles and positions of a game | roll, draw, move | game turns |
| Prompts, units, thought blocks, imports, legacy variables, forms | rows written by forms; otherwise none | pure functions | the above |

`PROJECT.json` lists them with their sources and the extent to which each is modelled.

How they interact.  An HTTP handler writes the rows of its domain (a message, a turn, a
beat), inserts a job and sends one message on the work channel.  The worker loop wakes on
that channel or on a 30 s timer, requeues running rows nobody works for, claims queued rows
in one transaction, puts a cancellation token into a shared map for each, and spawns a
task.  The task streams from a model and writes the domain's rows as it goes; at the end
it settles the job row, removes the token and wakes the worker.  A cancel request signals
the token and settles the row itself.  Pages watch by SSE handlers that poll the rows.
Nothing but SQLite survives the process.

### What is hard here

* The queue is one worker loop, any number of tasks and the HTTP handlers, which
  share rows, a token map and a channel but no lock that spans two of them.  Every
  statement is a step of its own (the pool has one connection, `db.rs:64`), so any
  handler may run between two statements of another.
* The process may die at any point; only SQLite survives.  Restart requeues what was
  running (`main.rs:70`), so that every handler may be executed again over what its
  first execution left behind.
* axum drops a handler's future when the client goes away: a handler can stop between
  any two awaits.
* A cancelled job is settled by the canceller while its task still runs, and most
  handlers look at their token only before they start.
* A message's row has up to four writers at once: the task, a task of an older job that
  was cancelled and has not noticed, a canceller, a regenerate.
* The changes of a model answer are planned against a snapshot, written statement by
  statement, and audited last; a regenerate has nothing but that audit to undo them with.

### What makes each component correct

| Component | Properties |
|---|---|
| Generation queue | no job is executed by two tasks at once; what is settled stays settled; no claim exceeds the setting; no wake-up is lost; every job settles; a token belongs to a live task |
| Typed state | a regenerate or rewind puts back exactly what the turn found and touches nothing else; planning a batch at once equals doing its changes in turn; a clamped value is within its bounds (proved) |
| Chat replies | a settled message shows something; the audit names exactly what was applied; a completed reply is whole |
| Chat summaries | nothing is hidden from the prompt that the summary does not tell of, and what is hidden is the oldest part; no marker claims work that nobody does, but by an interruption between two statements; every job ends |
| Game turns | the deck is what the recorded results make of a new one; audits are the changes; the markers in a done turn's prose resolve, but to results the user rewrote; a fork is whole |
| Stories | audits are the changes; a continuation only appends; no beat is left blank, but by an interruption between two statements |
| Live updates | the stream of a tab in view never dies, a hidden tab holds no connection, and page and server converge |
| Forms | the server has what the icon calls saved; no answer takes an edit back; a locked field sends nothing; what was typed last is sent |
| Model access | no provider that serves is passed over; a cancelled call asks nobody else; what is learned is true, what the user chose stays; one connection is active |
| Tool calls in streams | the jail loses no prose and leaks no tool call (not modelled) |

## 2. Modules

| Module | Models | Kind |
|---|---|---|
| `JobLifecycle` | what a row of `generation_jobs` promises: its life as the API shows it | abstract specification |
| `JobQueue` | worker loop, tasks, token map, work channel, cancel requests, crash, restart | detailed specification |
| `JobQueueProofs` | theorems about `JobQueue` | proofs |
| `TypedState` | `dreamwell-state` and `state_persist`: plan, apply and revert as functions of a table | operators |
| `StateHistory` | the life of one table: turns, batches, regenerate, rewind, rename | specification over `TypedState` |
| `StateHistoryProofs` | theorems about `StateHistory` and the operators of `TypedState` | proofs |
| `ChatReply` | one message and everybody who writes its row | specification |
| `ChatSummary` | the summary of a chat, its marker, and the job that makes them | specification |
| `ChatSummaryProofs` | theorems about `ChatSummary` | proofs |
| `GameMechanics` | draws and moves, and how a deck is rebuilt from recorded results | operators |
| `GameTurn` | a game's turns, their jobs, and the requests that undo or repeat them | specification over `GameMechanics` |
| `GameTurnProofs` | theorems about `GameTurn` and `GameMechanics` | proofs |
| `Story` | chapters, beats, their jobs and edits | specification |
| `StoryProofs` | theorems about `Story` | proofs |
| `LiveSync` | an open chat page and the server it follows | specification |
| `ChatProofs` | theorems about `ChatReply` and `LiveSync` | proofs |
| `AutoSave` | one field that saves itself, in each of three forms | specification |
| `AutoSaveProofs` | theorems about `AutoSave` | proofs |
| `ModelAccess` | connections, and the calls that ask them | specification |
| `ModelAccessProofs` | theorems about `ModelAccess` | proofs |
| `MC...` | instances of each | model checking |

`StateHistory` composes `TypedState` with the operations that call it.  `ChatReply` stands on
`JobQueue` in the other sense: it reduces the queue to what `JobQueue` establishes (a queued
job starts at some time, in one task, possibly beside a cancelled one that still runs) and
the typed state to a set of effects, so that it can take the generation apart statement by
statement.  `GameTurn` and `Story` do the same with both: a job is its steps, a change of the
typed state only its identity, so that what remains is who undoes what and in which order.
`ModelAccess` is what all generations do to get an answer; the other modules reduce it to
the choice of an answer or an error.  `LiveSync` and `AutoSave` are the two halves of a page:
what it shows of the server, and what it sends.

### JobQueue

`status[j]` is the row, `tokens` the map `active_tokens`, `wake` whether the unbounded channel
holds a message (the worker drains it, so that one is as good as many), `task[j][s]` the tasks
of a job, `worker` the loop's program counter and the ids it holds in a local.

| Actions | Code |
|---|---|
| `Enqueue`, `EnqueueWake` | insert_job and the wake after it, two steps of one handler |
| `CancelRead`, `CancelSignal`, `CancelRecheck`, `CancelWrite`, `CancelClean`, `CancelWake` | cancel_job, statement by statement |
| `DropHandler` | axum drops the future of either |
| `ReceiveWake`, `PollTick`, `FilterOrphans`, `RequeueOrphan`, `OrphansRequeued`, `RequeueStuck`, `ClaimJobs`, `Spawn` | spawn_loop, one await at a time |
| `Load`, `Check`, `Finish`, `NoticeCancel`, `Complete`, `Fail`, `Cancel`, `RecordCancelled`, `Clean`, `Guard`, `DropMarker`, `Panic` | run_job, by the way its handler treats the token |
| `Exit` | the end of the spawned task: token removed, worker woken |
| `SetConcurrency`, `DeleteOwner`, `Crash`, `Restart` | the settings request, ON DELETE CASCADE, main.rs |

A handler is reduced to how it treats its token and how it ends, `Kind[j]`: `stream` handlers
poll it, `once` handlers leave it to run_job, which looks at it before it starts any of them
(`Check`), `turn` handlers answer it with an error while they work, `summarize` jobs lose their
row with their marker.

### TypedState and StateHistory

`TypedState` translates the crate's functions one by one: `PlanStateChanges` (plan_state_changes
with its vivified actors, its snapshot, its audit), `Persist` (each mutation as the SQL that
`state_persist.rs` runs, with the UNIQUE constraint and AUTOINCREMENT ids), `PlanRevertChanges`
and `PersistRevert`.  `Scope` says whose tables they are, because the statements differ: a game
has `source_turn`, a chat and a story have not.  `StateHistory` gives the turns: a batch applied
to a new turn or, by a tool call, to the last; a regenerate; a game's rewind, which reverts
the later turns newest first; a chat's, which deletes their messages and reverts nothing; a
renamed actor.

### ChatReply

`content`, `thinking` and `audit` are columns of the message, `effects` the changes in
`chat_state_entries`, `pc` where each task, the canceller and the regenerate are.  The two
settings variables_enabled and thought_blocks_enabled select among four generations: typed
(a structured plan first, then prose with tool calls) or legacy, each with or without thought
blocks.  `ReadRow` and `Merge` are the two statements of merge_generation_fields; `WriteProse`
the writes that no throttle holds back; `SavePlan`, `CallTool` and `AuditTool` the two ways a
change is applied first and audited later.  `run[j]` keeps what a task holds in locals: its
attempt, how far its text is, the row it read.

### ChatSummary

A summary is the set of messages it tells of; `hidden` is in_summary.  `JobStep` is the loop of
run_summarize_job, a step per statement: the plan (how many recent messages stay, adaptive or
not, and how many fit one batch are choices), the request, the summary stored, the batch
hidden, the marker written, the job completed; or the job failed, then its marker removed
(`Fail`, `FailGoesOn`).  Requests come between any two.  Those of several statements are taken
apart too: the first one leaves in `handlers` what is still to be executed.  `Summarize` and
`Regenerate` write the marker, `Enqueue` the job; `Cancel` settles the row, `CancelGoesOn`
removes the marker; `DeleteSummary`, `ClearHidden` and `DeleteMarkers` are the three statements
of a deletion.  `Crash` ends handlers and tasks wherever they are, `DropHandler` the handler of
a client that leaves (the follow-up of a reply runs in the reply's task, so no client drops it);
the ghost `cut` keeps the markers of which they cut two statements apart.  The cascade of a deleted marker takes the
job's row, which a running task does not notice; an enqueued job whose marker is gone is
refused by the same foreign key.

### GameMechanics and GameTurn

`turns` are the rows with phase, checks, prose (which markers it holds), recorded results and
audit; `deck` is element_instances_json.  Requests are steps (submit, regenerate in its two
kinds, cancel, rewind, edits of results, recheck); the jobs are narrators, rechecks and the
scene summaries that a request enqueues with the turn.  A narrating job declares
checks, rolls, writes prose, calls tools (`ToolOutcomes`: draws that consume or not, moves) and
writes deck, results and audit in separate statements.  `prose.text` tells a thought without
prose, which is enough for a turn to be done where thought blocks are enabled, from prose and
from nothing; `Marked` lets a thought that is still open take in the marker of a call.  An edit
writes any list of results (`EditedResults`), whatever markers the prose has; the ghost
`edited` remembers such a turn.  `ForkedTurns` and `ForkedChanges` are what
fork_game_at_turn would make of the game at each state.

### Story

Texts are sequences of pieces known by who wrote them.  The two requests that leave a blank
beat between two statements are taken apart: `GenerateProse` blanks the beat, `EnqueueProse`
makes its job; `Cancel` settles the row, `CancelLooks` reads the beat and `CancelNotes` writes
into it (`notes` holds the cancels under way).  So is the failure of a job: `Fail` settles,
`NoteFailure` writes the note.  A server that stops between the two leaves the beat blank
(`Interrupted`), and so does a client that leaves (`DropCancel`, `DropProse`).  `Start` to `Invalidate` are the jobs
that write prose, typed (plan, audit, stream) or legacy (attempts with restore and retry);
`Ask` and the actions after it the others, which read, ask the model, then write; both
proposals replace rows and cascade to the jobs on them.

### LiveSync

The server's side is replies, job and chats.updated_at, changed by `SendMessage`,
`RegenerateMessage`, `RewindMessage`, `WriteReply`, `EndJob`.  `ReadChat`, `ReadMessages` and
`SendEvents` are one round of stream_chat, three statements.  `connect`, `schedule`,
`TimerFires`, `ProbeEnds`, `Hide`, `Reconcile` are ReconnectingEventSource; `OnMessage`, `OnIdle`,
`OnError` the page's callbacks, `Fetch...` and `Poll...` the two other ways news arrives.  Every
closure of a yew component holds handles of its state: `handles` says whether they yield the
value of their render (yew 0.21, which Cargo.lock pins) or the latest one, and all is checked
under both.

### AutoSave

`draft`, `saved`, `phase` are the form's state, `timers` what was scheduled, `requests` what was
sent with the step each has reached, `locked` save_blocked.  An AutoSaveController is made
anew at every render, so that the fields of a story can have several timers, the settings,
with one cell, only one.  `Type` is oninput, `FieldTimer` and `SettingsTimer` the timeouts,
`OpenEditor` and `CloseEditor` begin_reading_edit and stop_edit, `JobSeen` the lock effects,
`AnswerLands` and `RequestFails` finish_auto_save, fail_auto_save and the arms of run_save,
`Switch` switch_active_connection (which drops the timer of an unsent edit of another setting, and
whose answer replaces what was typed since: both end the calm), `Reload` version_watch.

### ModelAccess

`rows` are the connections, `requests` the settings page's multi-statement requests (an update
reads and writes the whole row; a deletion counts, deletes, replaces the active one): `Insert`, `ReadForUpdate`, `WriteUpdate`,
`ReadForDelete`, `DeleteRow`, `Replace`, `SetActive`.  A call
goes through its list: `Ask` with a format, `Answer` or `Fault`, learn (`Persist`), repair, or go
on to the next format, attempt, connection.  Servers differ in the formats they take and in those
they heed.

## 3. What is checked

Each run is one configuration; all can be repeated with
`tlc -workers 2 -config X.cfg M`.

| Run | Question | Bounds |
|---|---|---|
| `JobQueueCore` | do rows, tasks, cap and wake-ups stay consistent under cancels, a lowered setting, a failed statement | two jobs (a chat reply and a recheck), the first cancellable, setting 2 lowered to 1 by a request of 0 |
| `JobQueueFaults` | do the rows follow `JobLifecycle` and do tokens belong to tasks whatever fails | one summary job, a crash, two failed statements, a cancel, a deletion, the age cutoff, two tasks of it |
| `JobQueueLive` | does every job settle | two outline jobs of one story, a game turn that may panic and a reply, one crash, one fault |
| `StateHistory` | do regenerate and rewind restore what they found, is a batch what its changes are one by one | a game, a chat, a story; two turns, three batches of every kind of change, one renamed NPC |
| `ChatReply` | what a message shows and what its audit names once nobody is at work | two jobs, two attempts each; the plain setting: two requests and one fault; the others: one request and one fault; typed with thoughts: one request |
| `ChatSummary` | is what is hidden told and oldest, are markers written, does every job end | four messages and one more, two jobs, two rewinds, deletions, cancels, lost clients or stops; keep 2, summarize after 4, adaptive |
| `GameTurn` | do deck, audits, markers and forks stay true to the turns | two turns after the opening, a check and a tool call each, two requests or stops, two cards (interchangeable, hence SYMMETRY), three spaces, results edited to a list of none or one |
| `GameTurnStuck` | refutes: a turn whose job was cancelled can be retried | as `GameTurn` |
| `Story` | audits, continuations, blank beats | two chapters of a beat, two jobs of any kind, three edits, deletions, switches, cancels, lost clients or stops, two pieces, two attempts |
| `LiveSync` | do page and server converge | two replies of two texts; changes, faults, visits of the tab: 2-1-0, 2-0-1, 1-0-2, 1-1-1 |
| `AutoSave` | is what the icon calls saved on the server, is every edit sent and none taken back | one field of three texts; edits, jobs, faults: 4-0-1, 3-1-1, 2-2-1 |
| `ModelAccess` | which connection is asked, what is learned, which one is active | two calls (JSON and JSON, JSON and plain), three connection ids, three servers, two attempts; edits, faults, cancels: 2-0-0, 1-1-0, 0-1-1 |

Properties, and what it takes to break them:

* `OneTaskPerJob`, `TokenHasTask` (queue.rs spawn_loop).  The poll lists running rows,
  drops those with a token, requeues the rest: three steps with other actors between.
  A token removed early, or a stale list, would start a second task.
* `SettledIsNeverActive`, `RowsFollowLifecycle`.  Stale lists, restarts and second tasks
  must not bring a settled row back; the whole queue, seen through `status` and `cap`, is
  `JobLifecycle` (a refinement, `INSTANCE ... WITH` in `JobQueue`).
* `StartsWithinCap`.  The setting can be lowered below what already runs.
* `NoLostWakeup`.  Whenever a job could start and no failure intervened, the worker is
  awake or somebody is about to wake it.  What does leave a job to the next poll is left
  out: faults by the property; a raised setting and the deletion of a running row, after
  which the code wakes nobody, by the bounds of its run and the hypotheses of its theorem.
* `EveryJobSettles` (liveness): in spite of a crash, a panic or a failed statement.
* `RegenerateRestores`, `RewindRestores`.  Several batches, several changes of one slot,
  reverted newest first; `Tame` says for which audits the code has enough to undo them:
  no statement of the turn failed, every change found nothing or changed an entry in
  place (or, in a game, removed a measurement), and no slot held two entries.
* `RegenerateStaysInItsSlots`: a revert never touches a slot its turn did not address.
* `BatchIsSequential`: the snapshot against which a batch is planned hides nothing.  Its premise is
  that no statement of the changes before the last one fails: a failed statement ends the batch
  (the `?` of `game_state.rs:85`), and what the last change alone would do is then not done.
* `SettledReplyHasText`, `AuditMatchesEffects`, `CompletedReplyIsWhole`: every
  interleaving of a task, a cancel, a regenerate and the cancelled task of an older job.
* `PromptLosesNothing`: the summary is stored, then its messages are hidden, oldest first;
  a crash, a failure or a cancel may fall between any two statements of any batch.  Between the
  first two statements of a deletion it does not hold, and does not claim to (`Clearing`).
  `SettledMarkersAreWritten`: whatever ended the jobs, no marker that says Summarizing is left
  behind by a job, unless the server stopped, or the client left, between the two statements that settle a
  job and remove its marker or that write the marker and enqueue the job (`cut`).  `RecentMessagesStay`: the adaptive
  count never undercuts the setting.  `JobsEnd` (liveness): the loop runs until its plan is
  empty, while messages come and go.
* `DeckFollowsResults`: the deck is a deck from which exactly the recorded draws and moves
  have been made, over regenerates, rewinds, edits and restarts.  `AuditsAreTheChanges` (of
  games and of stories), `DoneTurnIsWhole` (it has prose or a thought, and each marker in
  it has its check, its change and, unless the user wrote the results, its result), `ForkIsWhole`.
* `ContinueOnlyAppends`: what the user wrote survives failed attempts, retries and restarts
  of a continuation.  `SettledBeatHasText`: a beat is blanked when its prose is asked for, and
  a cancel, a failure or a crash must not leave it so, the one exception being a server that
  stops, or a client that leaves, between two of the statements that blank and enqueue, or settle and note.
* `StreamFollowsTab` (alive in view, none in a hidden tab): probes that answer late, pauses and breaks in any
  order.  `PageConverges` (liveness): under either kind of handle, when no job is active any
  more and the tab stays in view.  `Mistaken` is the one exception: the callback of the
  stream compares with the list of the render it was made in, and takes a list equal to
  that one for shown.
* `SavedIsStored`, `EditSurvivesAnswers`, `TypedTextIsSent` (liveness), `LockedFieldIsSilent`:
  timers, requests and answers of one field overtake one another and the user's keys.
* `ServingProviderIsFound`: three nested loops (connections, attempts, formats) over errors of
  three kinds give up on no server that serves.  `LearnedFormatIsTrue`: calls teach a row that
  other calls and the user change; its format is one its server takes, or the user's.  `CancelledCallAsksNobodyElse`,
  `LabelTellsWhoIsAsked`, `ActiveConnectionStays`, `CallsEnd` (liveness).

Several modules have a ghost `calm` (in `ModelAccess`: `clean`).  It becomes FALSE at the events
after which the code is known not to keep the property; each is named where it is set and
listed in section 4.  The runs of `GameTurn`, `Story`, `ChatSummary` and `AutoSave` do not explore
what follows (`CONSTRAINT WhileCalm`): their properties say nothing of it, and the state that
breaks the calm is still checked.  `SettledMarkersAreWritten` and `LockedFieldIsSilent` do not
mention the calm: what lies beyond the cut is proved of them, not model-checked (a form whose
timer has met a lock once is an example).  `GameTurn` has a second cut, `FewThoughts`: a thought
without prose is followed in the last turn only, and beside prose no thought takes in a marker;
the proofs have neither bound.

`JobQueue`, `StateHistory` and `Story` state a type invariant (`TypeOK`) that runs check.  For the
other specifications the proof modules state the types (`Types`, `PageTypeOK`, `TypeOK`) and prove
them.

Every property is also checked against a plausible slip in the code (the operators called
a slip in the modules and their pairs in `PROJECT.json`): with the slip in place of the
definition, TLC finds the property violated in the same run.

**Why the bounds are enough.**  The queue's races are between one row's task, its
canceller and the worker, or between two rows for a slot or a story: one and two jobs.
Two `Slots` let a second task of a job appear beside the first.  A second crash or a third
fault starts from a state the first can leave (a running row without task, a token
without task).  In the state histories two turns suffice for a later turn to overwrite an
earlier one's slot, three batches for a turn to have two and another one; the batches hold
each change alone, pairs that meet in a slot and pairs that do not.  A message has at most
one task that is not cancelled, so two jobs give a task, a late task and both handlers;
two attempts give a retry and a last attempt.  A game of two turns has one to rewind to, to
edit and to fork at; two events give a cancel and a regenerate, or a stop and a recheck.  Two
story jobs give one that works beside another, three events an edit, a cancel and a stop.
Five messages of which two are kept give a job three messages to hide, in up to three batches,
and one of the five may come while it works; two jobs are one that a stop, a lost
client, a cancel or a deletion has left something of, and the next.  A
page can be behind by two changes while a fault or a visit falls between; the budgets are
alternatives because all together they exceed what TLC explores in minutes.  Four edits of
a field give every order of two requests, their answers and a later edit.  Two calls teach
one row; three ids are a row for each of two servers and one that is inserted or deleted.

**Fairness.**  `JobQueue!Fairness` (in `JobQueueLive`): weak fairness of the worker loop, of each
task and of the restart: the tokio runtime polls what is ready, requests to the model end
because the client has a timeout (`inference.rs:65`), Kubernetes restarts the process
(`deploy/deployment.yaml`).  Weak fairness of the poll: `tokio::time::interval` in the worker's
select.  Strong fairness of `RequeueStuck` for jobs that outlive the cutoff or panic: such a
row stays running, so its age grows past the cutoff at one of the polls, although a poll
before that finds it too young.  None of the handlers is fair: a client may vanish, and a
cancel may stop half way.  Panics are excluded from a task's duty; the fault bound ends
them, so a text that panics every time is beyond this run.
`ChatSummary`: weak fairness of each job's steps, on the same grounds.  `ModelAccess`: of each
call's steps, since a request ends or times out.  `LiveSync`: of the stream's handler, of the
browser's event loop, of timers, probes, fetches and polls that were begun; nobody has to
change anything, hide the tab or come back.  `AutoSave`: of timers and of answers; nobody has to
type, and no job has to end.

Deadlock is checked for the queue.  The other modules stop when their bounds are used up or
nobody asks for more, which is not a deadlock of the code.

## 4. What the checks found

One run refutes what a comment of the code says; `PROJECT.json` quotes it.

* `GameTurnStuck` — a cancel leaves the turn of a queued job in phase 'pending', which
  turn_can_be_regenerated refuses (`game_db.rs:978`), though the comment at `game_db.rs:988`
  speaks of turns stuck after a cancelled job (`SettledTurnCanBeRetried`).

The following is in the models unless said otherwise, and left out of the properties by
name (by `calm`, or by a condition of the property), because the code does not keep them.

* Queue: complete_job (`db.rs:2086`) writes the final status whatever the row says, so that a
  cancelled job whose handler does not poll its token is reported completed later
  (README.md:69 lists cancel as a feature); a claim compares queued outline jobs with
  running ones, not with each other (`db.rs:1998`), so two of one story start in one batch;
  an overdue but live job is requeued and runs twice (`queue.rs:349`); a cancel frees a slot
  while the task still generates (`queue.rs:299`); a panic leaves its token in the map, so
  that only the age cutoff recovers the row (`queue.rs:383`).
* Typed state: a batch that fails half way is not audited (`game_state.rs:72`); a removed or
  re-kinded text is not restored, its revert is an UPDATE of no row (`state_persist.rs:145`);
  the INSERT that restores a removed measurement names a column only games have
  (`state_persist.rs:212`), so that in a chat or story the regenerate is an SQL error; an
  audited name that was changed since resolves to the world (`apply.rs:578`), whose entry
  the revert overwrites; UNIQUE does not stop a second entry of one slot of the world,
  whose actor is NULL; the tool set_measurement_max clears the maximum it is asked to set
  (`game_tools.rs:621` against `apply.rs:334`).
* Chat replies: without thought blocks or typed state nothing writes what the 200 ms
  throttle held back (`queue.rs:1007`), and the reply completes without its tail; a late
  write of an empty or previously read text replaces the placeholder of a cancel
  (`chat_prose_agent.rs:355`); a retry empties the message a cancel has looked at; a retried
  typed attempt overwrites the first one's audit (`db.rs:1163`); a regenerate of a message at
  work misses the changes its old task still applies (`routes/chats.rs:244`), may find that
  the old task's text makes the new job skip (`queue.rs:661`), and stops half way with "Job
  is not active" when the job settles first; after a crash the partial text passes for the
  reply; a typed job cancelled in its last attempt's prose is recorded as failed
  (`chat_prose_agent.rs:81`); a chat rewind reverts no typed change (`routes/chats.rs:142`).
* Summaries: a regenerate loses the count its marker shows (`summarize.rs:692`); cancelling a
  job deletes its marker, whose cascade deletes the job; a running job never looks at its
  token (`summarize.rs:615`), so that its summary overwrites what a deletion or rewind wrote;
  a stop, or a client that leaves, between settling a job and removing its marker (`queue.rs:551` and 566, 488 and 518),
  or between writing the marker and enqueueing the job (`summarize.rs:488` and 500, 426 and 427),
  leaves a marker that says Summarizing for good, which cleanup_stale_summary_markers keeps
  (`cut`); one between `summarize.rs:377` and 378 leaves messages hidden that an empty summary
  does not tell of; a failure after some batches leaves a summary without marker; a rewind to a hidden message
  keeps the summary of deleted ones; editing a hidden message does not invalidate; the preview
  is cut at byte 600, which panics inside a character (`summarize.rs:716`, not in the model).
* Game turns: a full regenerate rolls checks anew, which docs/game-mode-plan.md (160, 456) says
  never happens; a requeued job runs again over the changes and results of its first
  execution (`game_turn_agent.rs:340`); a rewind cancels and reverts without waiting for tasks
  (`game_db.rs:1074`); an edit of the results of an earlier turn rebuilds the deck without the
  later ones (`game_db.rs:1440`), and an edit of any turn takes a list of any length, so that
  markers in the prose may name results that are not there (`routes/games.rs:236`, `edited`); where
  thought blocks are enabled a thought alone completes a turn (`game_turn_agent.rs:119`, 865),
  which `game_db.rs:978` then refuses to regenerate for want of prose; check markers count as prose; scene_beats is never filled, so
  that the prose recheck of new games is always refused; the scene summary outlives a rewind
  of the turns it tells of (`game_db.rs:1755` against docs/game-mode-plan.md:415), and a fork
  copies it.  Not in the model: two submissions at once (`game_db.rs:931`), and modifier bounds
  in the wrong order, on which clamp panics (`game_resolution.rs:67`).
* Stories: set_chapter_prose_summary (`stories_db.rs:836`) marks a summary valid whatever
  happened to the prose it was made of, and only update_beat and the end of a legacy
  generation mark it stale: an edit while the model answers, a typed generation, a deletion
  or a partial text leave it valid, though `stories_db.rs:790` has later chapters wait for it.  A
  typed stream that fails before its first piece leaves the beat blank (`queue.rs:1469`), and so
  does a server that stops, or a client that leaves, between blanking it and enqueueing the job (`stories_db.rs:1182` and
  1183) or between settling the job and noting it (`queue.rs:551` and 560, 488 and 511;
  `Interrupted`, `DropCancel`, `DropProse`); a cancel
  just before a retry's restore blanks the note it wrote; an edit of a beat that a job
  streams into is overwritten (`queue.rs:1676`); a failed note of more than 80 characters counts
  as prose, and 80 characters are compared in one place (`stories_db.rs:753`), 80 bytes in
  another (`story_summarize.rs:28`).
* Live updates: under yew 0.21 the generation a gated fetch compares its own with is that of
  its render, so that no such answer is ever shown (`lib.rs:372`); the page stays current
  through the stream's reconnects, two seconds after each idle.  The story page fetches
  ungated (`stories_ui.rs:335`).  SseConnectionState and plan_resume, which `sse_client.rs` and
  `resume_policy.rs` test, are not what the page runs.
* Forms: no schedule drops an earlier render's timer, so that every scheduled save fires, not
  "only the latest" (`story_sync.rs:11`); bind_tab_flush holds the first render's controller
  and flushes nothing of a story's fields (`story_save.rs:155` says it runs any debounced
  save); a reload by version_watch therefore loses what was not sent yet.  Under yew 0.21 the
  basics, chapters and beats send the text before the last key (`SendsWhatIsTyped`), and the
  reading editor never opens.  The basics drop an edit whose timer meets a lock and show it
  as saved (`stories_ui.rs:1728`).  A failed save of the reading editor is not seen; opened on a
  draft the server no longer has, a click elsewhere sends that draft.  The settings, typed
  back while a save is on its way, call saved what the server no longer has; answers to the
  same text sent twice are mistaken for each other; requests are not ordered.  A switch of the
  active connection drops the timer of an edit that is not sent yet, and its answer replaces
  whatever was typed since, both silently (`lib.rs:3866`, `lib.rs:3875`).
* Model access: an answer whose body cannot be read (`inference.rs:668`) and a connection deleted
  since the job loaded its settings (`model_fallback.rs:275`) end a call without fallback; a
  transient error makes the next format the one that is learned; a learned or chosen format
  is never tried against again; a format that is taken but not heeded hides the later ones;
  a plain call never looks at its token; update_inference_connection (`db.rs:1499`) writes back
  the whole row it read; deleting the active connection always fails on the reference of
  app_settings (migration 027:8), and the replacement at `db.rs:1544` runs only when another was
  activated meanwhile, which it overrides.  Not in the model: the notice of a fallback is
  cleared by the next attempt's label (`db.rs:2105`); short_error and
  format_json_parse_failure cut at a byte; stream_chat_completion (`inference.rs:418`) splits
  each network chunk into lines by itself and drops a line that a chunk boundary cuts.

## 5. What is proved

`tlapm` checks every step of the eight proof modules.  The theorems hold for any number of
jobs, tasks, messages, turns, beats, requests, edits, faults and crashes.  They rest on the
named assumptions of the specifications only, which TLC evaluates in the runs: what is a
number, a finite set or a set of records of the right form (`JobsAssumption`,
`KindAssumption`, `CapAssumption`, `ClaimLimitAssumption`, `SlotsAssumption`,
`HandlersAssumption`, `ModesAssumption`, `TextsAssumption`, `FormsAssumption`,
`BudgetsAssumption`, `ServersAssumption`, `CallsAssumption`, `TablesAssumption`,
`MechanicsAssumption`, `NullAssumption`, `BatchesAssumption`, `SyncBoundsAssumption` and the
`BoundsAssumption` of the other modules), and the smallest settings the code lets pass
(`SettingsAssumption`: two messages are kept, four make a summary).

| Module | Theorem | Says |
|---|---|---|
| `JobQueueProofs` | `TypeCorrect` | `Spec => []TypeOK` |
| | `QueueImplementsLifecycle` | `Spec => RowsFollowLifecycle`, the refinement |
| | `SettledNeverActiveAgain`, `StartsRespectCap` | `SettledIsNeverActive`, `StartsWithinCap` (action properties) |
| | `TokensHaveTasks`, `NoJobRunsTwice` | `[]TokenHasTask`, `[]OneTaskPerJob` |
| | `NoWakeupIsLost` | `[]NoLostWakeup`, if no running row is deleted and no request raises the setting |
| `ChatProofs` | `RowFollowsItsWriters` | `[]ReplyInv`, types included |
| | `SettledMessagesTell`, `AuditsTellTheChanges`, `CompletedMessagesAreWhole` | `[]SettledReplyHasText`, `[]AuditMatchesEffects`, `[]CompletedReplyIsWhole` |
| | `StreamFollows` | `[]StreamFollowsTab`, of `LiveSync` |
| `GameTurnProofs` | `AuditsTellTheChanges`, `ForksAreWhole`, `DoneTurnsAreWhole` | `[]AuditsAreTheChanges`, `[]ForkIsWhole`, `[]DoneTurnIsWhole` |
| | `DecksFollowResults` | `[]DeckFollowsResults`, for decks, boards and games of any size |
| `StateHistoryProofs` | `TypesAreKept`, `BatchesAreSequential` | `[]TypeOK`, `[]BatchIsSequential` |
| | `RegeneratesRestore`, `RewindsRestore` | `RegenerateRestores`, `RewindRestores` (action properties): undoing restores, for batches, audits and histories of any length |
| | `RegeneratesStayInTheirSlots` | `RegenerateStaysInItsSlots` (action property) |
| | `ClampRespectsBounds`, `ClampIsIdempotent`, `StepStaysInRange`, `NewSequenceInRange` | of `TypedState`: a clamped value is within ordered bounds; a stepped or new position is one of the items, with Rust's signed remainder |
| `StoryProofs` | `TypeCorrect` | `[]TypeOK` |
| | `AuditsTellTheChanges`, `ContinuationsAppend`, `BeatsAreNotLeftBlank` | `[]AuditsAreTheChanges`, `[]ContinueOnlyAppends`, `[]SettledBeatHasText` |
| `ChatSummaryProofs` | `TypeCorrect` | the types of its variables |
| | `NothingIsLost`, `MarkersSettle`, `RecentStay` | `[]PromptLosesNothing`, `[]SettledMarkersAreWritten`, `RecentMessagesStay` (action property) |
| `AutoSaveProofs` | `LockIsHeeded`, `EditsSurvive`, `CalmSaves` | `LockedFieldIsSilent`, `EditSurvivesAnswers` (action properties), `[]SavedIsStored` |
| `ModelAccessProofs` | `TypeCorrect` | the types of its variables, and that a call is at a connection of its list |
| | `ActiveStays`, `LabelIsTrue`, `CancelIsHeeded`, `ProviderIsFound` | `[]ActiveConnectionStays`, `[]LabelTellsWhoIsAsked`, `[]CancelledCallAsksNobodyElse`, `[]ServingProviderIsFound` |
| | `LearningIsTrue` | `LearnedFormatIsTrue` (action property) |

Hardly any of these is inductive as it stands.  The invariants, and why they are what they are:

* `JobQueue`.  The refinement mapping is the identity on `status` and `cap`; each step is an
  abstract action or a stutter (`StepFollowsLifecycle`), the claim being the one that takes
  work: the oldest eligible rows, no more than are free.  The two action properties follow
  from it.  For the tasks, a second one could be spawned for a row that the worker has in
  hand or that is queued, so `TaskInv` adds that such rows have no live task
  (`UnstartedHasNoTask`, `InHandHasNoTask`, `SpawningIsStarted`); the worker takes a running
  row in hand only if the map holds no token for it, so every live task must have its token
  there (`LiveTaskHasToken`); and a crash clears both (`DownHasNoTasks`).  Each conjunct but
  `TokenHasTask` leaves out the jobs in `Ageable`: the age cutoff requeues rows whose task is
  alive, and with them all of it is false.  `WakeInv` adds to `NoLostWakeup` that the
  setting is one that was asked for (`CapAsRequested`): no step but the ones that owe a wake-up
  frees a slot or an outline (`NothingFreed`).  Its hypotheses are `Deletable = {}` and
  `NeverRaised`, since the code wakes nobody after either.
* `ChatReply`.  Regenerates that meet nobody leave only the latest job at work, or the handler
  alone (`Only`, while `~busy`).  `ReplyInv` then says by its place what the latest job may
  find and must leave: of the audit (`Audited`: the audit tells the effects, but for those
  about to be saved), of the text it completes (`Wholly`), of the text anybody leaves
  (`Telling`).  Where regenerates do race, an empty streamed message still waits for
  somebody (`Awaited`).  A crash, a retry and a cancel each end the conjuncts they break.
* `GameTurn`.  While all is calm a turn has one job at most (`Alone`), and `TurnInv` says what
  holds while no task works on a turn (`Free`) and what the step of the one that does has
  made of it (`Held`).  A step then has to be looked at for its own turn only.
  Of decks and results it has no type; they are typed over a universe that grows with every step.
  `DeckInv` adds what the deck shows: it is `Proper` (a record with some order
  of cards as its pile) and `Accounts` for the recorded results, except while a narration
  is between the statements that write results and deck; there the deck in the task's hands
  accounts for them and for what the task has made since (`Hand`).  A replay is one more draw or
  move for one more result, and the list of all results of the turns before the last is what
  every narration finds (`Before`).
* `StateHistory`.  `HistoryInv` types everything a step reads: the rows of the table, the names,
  and what the audits remember, down to the columns each kind has; with it every operator of
  `TypedState` stays within its types.  `SlotsInv` says that, while nobody was renamed, every
  audited change names an actor that is still found, in a slot its turn addressed: a revert,
  each of whose statements touches one such slot (`PersistStays`), leaves the others alone.
  `BatchIsSequential` compares two plans of the last change: one against the entries before
  the batch less what it has freed, one against the table the others left.  Up to ids both
  find the same entry (`EntryAtStays`, `WrittenBehind`), since no other change of the batch
  comes to its slot, and statements that agree up to ids do the same to tables that do
  (`PersistAlike`).
  `RegenerateRestores` and `RewindRestores` take `RestInv`: the turns of a chat or a game are a
  chain (`ChainKeeps`), in which the audit of each leads, slot by slot, from the rows it found to
  those the next one found, the last one's to the table (`Keeps`).  What an audit remembers of a
  slot (`Remembers`) need not be its contents at every step, which nobody recorded: the kinds are
  enough, since only the oldest change says what the turn found, and what a revert restores in
  between is overwritten or deleted by an older one.  A revert must always find the row it
  writes to.  In a game it can insert a measurement that is missing; elsewhere, and for every other
  kind, the row is there because nothing that can be undone removes it (`Lasting`).  `LedBack`
  takes one change off the audit.  Forward, a batch is planned against a table that its own
  statements have since left behind, so `Stage` keeps both (`Staged`, slot by slot): a row the
  batch found is still there, of its kind, unless its slot was freed (`Snap`), and only a game's
  slot that the turn found empty or with a measurement is freed.
* `Story`.  The same for beats (`BeatInv`), with one more case: a task without a row has been
  told, or its beat is gone, or it has yet to write its note or enqueue its job (`JobsOfBeats`),
  since a proposal replaces beats under the jobs
  that work on them; and an id, once used, is none that a proposal has yet to give
  (`Numbered`).
* `ChatSummary`.  The task of a calm chat knows the summary its text extends and a batch that
  is a first part of what is not hidden, small enough to leave the recent ones
  (`Knows`, `Foremost`); once it stands before the statement that hides the batch, the summary
  tells of it.  A deletion that has only emptied the summary (`Clearing`) stands beside no job
  that works (`Idle`), or the calm ends.  The markers need neither calm nor batches: one
  without body has a job that will write or delete it (`Makes`), a handler that goes on to
  enqueue that job or to remove the marker, or is in `cut` (`MarkersFollowJobs`).
* `LiveSync`.  `StreamInPlace`: a stream that is over has left an event that closes it, behind
  all it sent before; a closed one in a tab in view has a timer or a probe.
* `AutoSave`.  `CalmInv` says at every moment which of the texts under way is stored last: for
  a field the last timer's, else the last request's, else the server's (`FieldInv`).  The
  settings' answers overwrite the draft, so theirs (`SettingsInv`) says when an answer may come
  that finds the draft it was sent for.
* `ModelAccess`.  `AskingInv` ties a call's label, attempt and format to the connection it
  is at; `SearchInv` says that every connection a clean call has left behind, and every
  format it has tried at the present one, could not serve.

What a recursive function computes is proved in two steps.  Its definition is unfolded into the
function it describes, once (`VivifiedIs`, `PlanIs`, `WrittenIs`, `RevertPlanIs`, `RevertedIs`,
`UndoneIs` in `StateHistoryProofs`, their like in `GameTurnProofs`).  What then holds at every
length is shown for the set of lengths at which it holds, by `UpTo`: a set of numbers that has 0
and, with each number below n, the next one, has all up to n.  `UpTo` follows from the
well-foundedness of < on the naturals (`WFMin`), whose statement takes sets and no operator.
The library's theorems about definitions by recursion are not needed, for the functions are over
`0..n` and defined outright.

Only model-checked:

* liveness (`EveryJobSettles`, `JobsEnd`, `PageConverges`, `TypedTextIsSent`, `CallsEnd`): fairness and
  ENABLED are beyond the prover.

`SettledTurnCanBeRetried` is refuted, so there is nothing to prove.

## 6. What is abstracted, and what is not modelled

Queue: a handler is its way with tokens, its failures and the one row it may delete;
time is "a row may be old".  A failed statement is a
fault of the bounds; statements of one transaction are one step.

Typed state: texts are tuples of tokens (a replacement, or an appended part), floats are
integers, units and display are left out, an item of a sequence is its number.  Not in
it: manual edits of an entry, the legacy variable_updates, and interleavings of two batches
(a step is a whole batch or revert; variables_enabled is assumed).

Chat replies: a text is empty, the placeholder, a part or all of a reply, and whose; a
change is which attempt applied it and how.  A cancelled token is looked at together with
the statement before it.  Not in it: SQL errors, edits and deletions by the user, rewinds
that delete later messages, recheck jobs, present_fork, follow-up jobs.

Chat summaries: token counts are choices (so how adaptive_keep_count computes its result from
budgets is not checked, only what follows of any result it may have); the place of a marker
(set_message_created_at) is written with the marker; wording of the marker, edits of the summary by the
user and of hidden messages are left out.

Game turns: the opening turn, dice (a check has one outcome of a few), the order of the
discard pile, layout of prose; two submissions at once (a request is one step).

Stories: titles, synopses and the outline jobs that only write them, reordering and deletion
of chapters, legacy variables; the length of a text is `Substantial`.

Live updates: the pages of stories and games, which use the same event source and apply its
payloads by rules of their own; the end of a login, drafts, other chats, the watch on a
summary, the spinner.

Forms: rows of variables (which schedule alike, and save the text before last after an
answer, `variables_ui.rs:124`), dragging into order.
A form is one field; the story's fields each have their own controller, the settings are sent
and compared as a whole.

Model access: order of connections dragged by the user, the mirror of the active connection
in app_settings, model overrides, reading a stream.

Not modelled, with the reason (also in `PROJECT.json`): tool calls in streams (what the jail
holds back is decided by tables of an external crate), prompts, units, thought parsing, imports,
archive and copies of rows, views (text or data without control), legacy variables (replaced
by typed state), HTTP to models (pure I/O, its outcomes are choices).

## 7. Plan

Done, in this order: `JobLifecycle`, `JobQueue`, `JobQueueProofs`; `TypedState`, `StateHistory`;
`ChatReply`; `GameMechanics`, `GameTurn`; `Story`; `ChatSummary`; `LiveSync`; `ModelAccess`; `AutoSave`;
then `ModelAccessProofs`, `ChatProofs`, `AutoSaveProofs`, `ChatSummaryProofs`, `StoryProofs`,
`GameTurnProofs`, `StateHistoryProofs`.

Left to model: the event streams of stories and games with the lists of queue and sidebar;
recheck jobs of chats; the copies of rows that make a new chat, story or game of a scenario.

Left to prove: that what `ChatReply` assumes of the queue (a queued job starts in one task, a
settled one never again) is what `JobQueueProofs` has established of it.
