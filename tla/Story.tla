-------------------------------- MODULE Story --------------------------------
(***************************************************************************)
(* One story: chapters of beats whose plans, prose and summaries are made  *)
(* by queued jobs, and the requests that edit, replace, delete, continue   *)
(* or interrupt them (crates/server/src/stories_db.rs, the story_ handlers *)
(* of queue.rs, story_beat_mechanical.rs, story_beat_prose_recheck.rs,     *)
(* story_summarize.rs, state_recheck.rs and routes/stories.rs).            *)
(*                                                                         *)
(* A request handler is one step, but for the two whose statements leave a *)
(* blank beat in between: generating prose and cancelling it. A job is a   *)
(* step per write between which others may come, and the server may stop   *)
(* at any of them. A text is the sequence of its pieces, each known by who *)
(* wrote it: the id of a job, or a negative number for the user. A change  *)
(* of the typed state is only its identity (TypedState has the rest).      *)
(* Titles and synopses, and the jobs that only write those, are left out.  *)
(***************************************************************************)
EXTENDS Integers, FiniteSets, Sequences, SequencesExt

CONSTANTS
    MaxJobs,      \* bound: jobs enqueued
    MaxEvents,    \* bound: edits, deletions, switches, cancels, lost clients and stops
    MaxPieces,    \* bound: pieces of one streamed answer
    MaxAttempts   \* generation_max_retries

ASSUME BoundsAssumption == MaxAttempts \in Nat \ {0}

VARIABLES
    variablesOn,  \* settings.variables_enabled
    chapters,     \* the story_chapters rows; a chapter's place is its sort_order
    beats,        \* the story_beats rows, by id
    changes,      \* what beats contributed to story_state_entries: <<beat id, n>>
    jobs,         \* the jobs, a running one with what its task holds in memory
    notes,        \* the cancels of prose jobs under way: <<beat, "look" or "write">>
    issued,       \* job ids handed out
    events,       \* edits, deletions, switches, cancels, lost clients and stops so far
    calm          \* ghost: no job met the leftovers or the task of another one

vars == <<variablesOn, chapters, beats, changes, jobs, notes, issued, events, calm>>

-----------------------------------------------------------------------------
(* Rows, texts and tasks                                                   *)

Blank == <<>>
Note == <<0>> \* "[Generation cancelled]" or "[Generation failed: ...]"
ByUser(n) == <<-1 - n>>

\* More than 80 characters, which a note is not.
Substantial(text) == text \notin {Blank, Note}

\* Ghosts. kept: what the user last wrote or asked to continue; asked: a
\* generation was asked for whose end must leave text.
NewBeat(chapter) ==
    [chapter |-> chapter, plan |-> FALSE, text |-> Blank, audit |-> <<>>,
     kept |-> Blank, asked |-> FALSE]
NewChapter(id) == [id |-> id, valid |-> FALSE]

BeatsOf(chapter) == {b \in DOMAIN beats : beats[b].chapter = chapter}
HasSubstantialProse(chapter) == \E b \in BeatsOf(chapter) : Substantial(beats[b].text)

PlaceOf(chapter) == CHOOSE i \in DOMAIN chapters : chapters[i].id = chapter
ChapterIds == {chapters[i].id : i \in DOMAIN chapters}

\* row: the job row is queued or running; token: its token was cancelled.
NewJob(id, kind, chapter, beat) ==
    [id |-> id, kind |-> kind, chapter |-> chapter, beat |-> beat, row |-> TRUE, token |-> FALSE,
     step |-> "queued", place |-> 0, base |-> Blank, got |-> 0, attempt |-> 1, audit |-> <<>>]

Live(job) == job.step # "queued"
Writers == {"prose", "continue"}
ActiveOn(beat) == \E job \in jobs : job.row /\ job.beat = beat
NotedBeats == {due[1] : due \in notes}
NoneLiveOn(beat) ==
    /\ \A job \in jobs : Live(job) => job.beat # beat
    /\ beat \notin NotedBeats

\* An UPDATE by id: of no row once the beat is gone.
Update(beat, new) ==
    beats' = IF beat \in DOMAIN beats THEN [beats EXCEPT ![beat] = new] ELSE beats
WithText(beat, text) == [beats[beat] EXCEPT !.text = text]
Write(beat, text) == Update(beat, WithText(beat, text))

\* invalidate_prose_summaries_from
InvalidateFrom(place) ==
    chapters' = [i \in DOMAIN chapters |->
                    IF i >= place THEN [chapters[i] EXCEPT !.valid = FALSE] ELSE chapters[i]]

\* The jobs of deleted beats and chapters lose their rows; nothing tells a task.
\* NoCascade, a slip: the rows of their jobs stay.
NoCascade(ended, dead) == jobs' = jobs \ ended
Cascade(ended, dead) ==
    jobs' = (jobs \ (ended \cup dead)) \cup {[job EXCEPT !.row = FALSE] : job \in {j \in dead : Live(j)}}

TypeOK ==
    /\ Cardinality(ChapterIds) = Len(chapters)
    /\ \A b \in DOMAIN beats : beats[b].chapter \in ChapterIds
    /\ \A job \in jobs :
        /\ job.attempt \in 1..MaxAttempts
        /\ job.step = "queued" => job.row
        /\ job.token => ~job.row
        /\ job.row /\ job.beat # 0 => job.beat \in DOMAIN beats
        /\ job.row /\ job.chapter # 0 => job.chapter \in ChapterIds

\* Two chapters of one beat each, planned and written by the user.
Init ==
    /\ variablesOn \in BOOLEAN
    /\ chapters = <<NewChapter(1), NewChapter(2)>>
    /\ beats = [b \in 1..2 |->
                   [NewBeat(b) EXCEPT !.plan = TRUE, !.text = ByUser(0), !.kept = ByUser(0)]]
    /\ changes = {}
    /\ jobs = {}
    /\ notes = {}
    /\ issued = 0
    /\ events = 0
    /\ calm = TRUE

-----------------------------------------------------------------------------
(* Edits                                                                   *)

Served == events < MaxEvents /\ events' = events + 1

ToggleVariables ==
    /\ Served
    /\ variablesOn' = ~variablesOn
    /\ UNCHANGED <<chapters, beats, changes, jobs, notes, issued, calm>>

\* update_beat of the content. A task that streams into the beat does not know,
\* and a queued job may be one that replaces the text.
ToBeReplaced(b) == \E job \in jobs : job.beat = b /\ job.kind \in {"prose", "align"}
EditBeat(b) ==
    /\ Served
    /\ LET text == ByUser(events + 1)
       IN Update(b, [WithText(b, text) EXCEPT !.kept = IF ToBeReplaced(b) THEN Blank ELSE text,
                                              !.asked = FALSE])
    /\ InvalidateFrom(PlaceOf(beats[b].chapter))
    /\ calm' = (calm /\ NoneLiveOn(b))
    /\ UNCHANGED <<variablesOn, changes, jobs, notes, issued>>

\* delete_beat: its changes stay, its chapter's summary too.
DeleteBeat(b) ==
    /\ Served
    /\ beats' = [c \in DOMAIN beats \ {b} |-> beats[c]]
    /\ Cascade({}, {job \in jobs : job.beat = b})
    /\ UNCHANGED <<variablesOn, chapters, changes, notes, issued, calm>>

\* cancel_job of a job: a queued one is gone, a running task finds its token.
\* cancel_job_record settles the row, then looks at the beat of a prose job.
Cancel(job) ==
    /\ Served
    /\ job.row
    /\ jobs' = (jobs \ {job}) \cup
                  (IF Live(job) THEN {[job EXCEPT !.row = FALSE, !.token = TRUE]} ELSE {})
    /\ notes' = IF job.kind = "prose" THEN notes \cup {<<job.beat, "look">>} ELSE notes
    /\ calm' = (calm /\ job.step # "restore")
    /\ UNCHANGED <<variablesOn, chapters, beats, changes, issued>>

CancelLooks(b) ==
    /\ <<b, "look">> \in notes
    /\ LET blank == b \in DOMAIN beats /\ beats[b].text = Blank
       IN notes' = (notes \ {<<b, "look">>}) \cup (IF blank THEN {<<b, "write">>} ELSE {})
    /\ UNCHANGED <<variablesOn, chapters, beats, changes, jobs, issued, events, calm>>

\* BlankStays, a slip: the task does that.
BlankStays(b) == beats[b].text
CancelledText(b) == Note

CancelNotes(b) ==
    /\ <<b, "write">> \in notes
    /\ Write(b, CancelledText(b))
    /\ notes' = notes \ {<<b, "write">>}
    /\ UNCHANGED <<variablesOn, chapters, changes, jobs, issued, events, calm>>

\* A client that leaves takes its cancel along: a blank beat is not noted.
NotAsked(b) == [beats[b] EXCEPT !.asked = FALSE]
DropCancel(due) ==
    /\ Served
    /\ notes' = notes \ {due}
    /\ Update(due[1], NotAsked(due[1]))
    /\ UNCHANGED <<variablesOn, chapters, changes, jobs, issued, calm>>

-----------------------------------------------------------------------------
(* Requests that enqueue a job                                             *)

Enqueue(kind, chapter, beat) ==
    /\ issued < MaxJobs
    /\ issued' = issued + 1
    /\ jobs' = jobs \cup {NewJob(issued + 1, kind, chapter, beat)}
    /\ calm' = (calm /\ (beat = 0 \/ NoneLiveOn(beat)))
    /\ UNCHANGED <<chapters, notes, events>>

\* ensure_beat_generation_allowed and ensure_chapter_beats_allowed
GenerationAllowed(chapter) ==
    \A i \in 1..PlaceOf(chapter) - 1 :
        HasSubstantialProse(chapters[i].id) => chapters[i].valid

Ends(job) == jobs' = jobs \ {job}

\* A slip: the audit is emptied, the state keeps what it told of.
KeptChanges(b) == changes
RevertedChanges(b) == changes \ ToSet(beats[b].audit)

\* prepare_generate_prose: the beat is blanked, then the job is enqueued.
GenerateProse(b) ==
    /\ GenerationAllowed(beats[b].chapter)
    /\ ~ActiveOn(b)
    /\ variablesOn \/ beats[b].plan
    /\ issued < MaxJobs
    /\ issued' = issued + 1
    /\ changes' = RevertedChanges(b)
    /\ Update(b, [WithText(b, Blank) EXCEPT !.audit = <<>>, !.kept = Blank, !.asked = TRUE])
    /\ jobs' = jobs \cup {[NewJob(issued + 1, "prose", beats[b].chapter, b)
                             EXCEPT !.row = FALSE, !.step = "prepare"]}
    /\ calm' = (calm /\ NoneLiveOn(b))
    /\ UNCHANGED <<variablesOn, chapters, notes, events>>

EnqueueProse(job) ==
    /\ job.step = "prepare"
    /\ jobs' = (jobs \ {job}) \cup
                  (IF job.beat \in DOMAIN beats
                   THEN {NewJob(job.id, "prose", job.chapter, job.beat)} ELSE {})
    /\ UNCHANGED <<variablesOn, chapters, beats, changes, notes, issued, events, calm>>

\* The client leaves in between: the beat is blank and has no job.
DropProse(job) ==
    /\ Served
    /\ job.step = "prepare"
    /\ Ends(job)
    /\ Update(job.beat, NotAsked(job.beat))
    /\ UNCHANGED <<variablesOn, chapters, changes, notes, issued, calm>>

\* The request is refused for want of a plan, after it has undone the changes.
GenerateProseRefused(b) ==
    /\ GenerationAllowed(beats[b].chapter)
    /\ ~ActiveOn(b)
    /\ ~variablesOn /\ ~beats[b].plan
    /\ beats[b].audit # <<>>
    /\ Served
    /\ changes' = RevertedChanges(b)
    /\ Update(b, [beats[b] EXCEPT !.audit = <<>>])
    /\ calm' = (calm /\ NoneLiveOn(b))
    /\ UNCHANGED <<variablesOn, chapters, jobs, notes, issued>>

ContinueProse(b) ==
    /\ GenerationAllowed(beats[b].chapter)
    /\ beats[b].plan
    /\ beats[b].text # Blank
    /\ ~ActiveOn(b)
    /\ Update(b, [beats[b] EXCEPT !.kept = beats[b].text])
    /\ Enqueue("continue", beats[b].chapter, b)
    /\ UNCHANGED <<variablesOn, changes>>

\* enqueue_beat_prose_recheck
AlignProse(b) ==
    /\ beats[b].plan
    /\ beats[b].text # Blank
    /\ ~ActiveOn(b)
    /\ Enqueue("align", beats[b].chapter, b)
    /\ UNCHANGED <<variablesOn, beats, changes>>

\* enqueue_beat_variable_recheck
RecheckState(b) ==
    /\ variablesOn
    /\ beats[b].text # Blank
    /\ ~ActiveOn(b)
    /\ Enqueue("recheck", beats[b].chapter, b)
    /\ UNCHANGED <<variablesOn, beats, changes>>

GenerateMechanical(b) ==
    /\ ~ActiveOn(b)
    /\ Enqueue("mechanical", beats[b].chapter, b)
    /\ UNCHANGED <<variablesOn, beats, changes>>

SummarizeChapter(chapter) ==
    /\ HasSubstantialProse(chapter)
    /\ ~ \E job \in jobs : job.row /\ job.kind = "summarize" /\ job.chapter = chapter
    /\ Enqueue("summarize", chapter, 0)
    /\ UNCHANGED <<variablesOn, beats, changes>>

ProposeBeats(chapter) ==
    /\ GenerationAllowed(chapter)
    /\ Enqueue("beats", chapter, 0)
    /\ UNCHANGED <<variablesOn, beats, changes>>

ProposeChapters ==
    /\ Enqueue("chapters", 0, 0)
    /\ UNCHANGED <<variablesOn, beats, changes>>

-----------------------------------------------------------------------------
(* The jobs that write prose: run_story_beat_prose                         *)

Become(job, new) == jobs' = (jobs \ {job}) \cup {new}

\* A typed job finds the changes of an earlier run of it.
Leftovers(job) == beats[job.beat].audit # <<>> \/ \E c \in changes : c[1] = job.beat

Start(job) ==
    /\ job.step = "queued"
    /\ job.kind \in Writers
    /\ IF job.kind = "prose" /\ variablesOn
       THEN /\ Become(job, [job EXCEPT !.step = "plan"])
            /\ calm' = (calm /\ ~Leftovers(job))
       ELSE /\ Become(job, [job EXCEPT !.step = "open", !.place = PlaceOf(job.chapter),
                !.base = IF job.kind = "continue" THEN beats[job.beat].text ELSE Blank])
            /\ UNCHANGED calm
    /\ UNCHANGED <<variablesOn, chapters, beats, changes, notes, issued, events>>

\* The typed job: a plan whose changes are applied, then saved with their audit.
NewChange(b) == <<b, 1 + Cardinality({c \in changes : c[1] = b})>>
Plan(job) ==
    /\ job.step = "plan"
    /\ ~job.token
    /\ \E applied \in {<<>>, <<NewChange(job.beat)>>} :
        /\ changes' = changes \cup ToSet(applied)
        /\ Become(job, [job EXCEPT !.step = "save", !.audit = applied])
    /\ UNCHANGED <<variablesOn, chapters, beats, notes, issued, events, calm>>

SavePlan(job) ==
    /\ job.step = "save"
    /\ Update(job.beat, [beats[job.beat] EXCEPT !.audit = job.audit])
    /\ Become(job, [job EXCEPT !.step = "typed"])
    /\ UNCHANGED <<variablesOn, chapters, changes, notes, issued, events, calm>>

\* The legacy job reads a base that a continuation appends to.
Written(job) == job.base \o [i \in 1..job.got |-> job.id]

Open(job) ==
    /\ job.step = "open"
    /\ Become(job, [job EXCEPT !.step = "stream"])
    /\ UNCHANGED <<variablesOn, chapters, beats, changes, notes, issued, events, calm>>

\* A piece; the first is flushed at once, the others when the throttle is ready.
Piece(job) ==
    /\ job.step \in {"typed", "stream"}
    /\ ~job.token
    /\ job.got < MaxPieces
    /\ LET next == [job EXCEPT !.got = @ + 1]
       IN /\ Become(job, next)
          /\ \/ Write(job.beat, Written(next))
             \/ job.got > 0 /\ UNCHANGED beats
    /\ UNCHANGED <<variablesOn, chapters, changes, notes, issued, events, calm>>

\* fail_job, whatever became of the row: it is settled, then a draft gets its note.
Fail(job) ==
    IF job.kind = "prose"
    THEN jobs' = (jobs \ {job}) \cup {[job EXCEPT !.row = FALSE, !.step = "note"]}
    ELSE Ends(job)

NoteFailure(job) ==
    /\ job.step = "note"
    /\ Write(job.beat, Note)
    /\ Ends(job)
    /\ UNCHANGED <<variablesOn, chapters, changes, notes, issued, events, calm>>

\* The stream of a typed job ends; its token is not read again.
EndTyped(job) ==
    /\ job.step = "typed"
    /\ IF job.got = 0 THEN UNCHANGED beats /\ Fail(job)
       ELSE Write(job.beat, Written(job)) /\ Ends(job)
    /\ UNCHANGED <<variablesOn, chapters, changes, notes, issued, events, calm>>

\* The plan or the opening of the stream fails (run_job_guarded), or the stream
\* does, which leaves what was written: a blank beat if that is nothing.
TypedFails(job) ==
    /\ \/ /\ job.step = "plan" \/ (job.step = "typed" /\ job.got = 0)
          /\ IF job.row THEN Fail(job) ELSE Ends(job)
          /\ UNCHANGED beats
       \/ /\ job.step = "typed"
          /\ Update(job.beat, NotAsked(job.beat))
          /\ Ends(job)
    /\ UNCHANGED <<variablesOn, chapters, changes, notes, issued, events, calm>>

\* An attempt ends with nothing: the base is restored before the next one.
\* NothingOf, a slip: a continuation is retried like a first draft.
NothingOf(job) == Blank
BaseOf(job) == job.base

Retry(job) ==
    IF job.attempt < MaxAttempts
    THEN /\ UNCHANGED beats
         /\ Become(job, [job EXCEPT !.step = "again", !.attempt = @ + 1, !.got = 0])
    ELSE /\ Write(job.beat, IF job.kind = "continue" THEN job.base ELSE beats[job.beat].text)
         /\ Fail(job)

AttemptFails(job) ==
    /\ \/ job.step = "open"
       \/ job.step = "stream" /\ ~job.token /\ job.got = 0
    /\ Retry(job)
    /\ UNCHANGED <<variablesOn, chapters, changes, notes, issued, events, calm>>

Again(job) ==
    /\ job.step = "again"
    /\ ~job.token
    /\ Become(job, [job EXCEPT !.step = "restore"])
    /\ UNCHANGED <<variablesOn, chapters, beats, changes, notes, issued, events, calm>>

Restore(job) ==
    /\ job.step = "restore"
    /\ Write(job.beat, BaseOf(job))
    /\ Become(job, [job EXCEPT !.step = "wait"])
    /\ UNCHANGED <<variablesOn, chapters, changes, notes, issued, events, calm>>

Waited(job) ==
    /\ job.step = "wait"
    /\ ~job.token
    /\ Become(job, [job EXCEPT !.step = "open"])
    /\ UNCHANGED <<variablesOn, chapters, beats, changes, notes, issued, events, calm>>

\* The stream fails with text: a continuation is taken back, a draft stays.
StreamFails(job) ==
    /\ job.step = "stream"
    /\ ~job.token
    /\ job.got > 0
    /\ Write(job.beat, IF job.kind = "continue" THEN job.base ELSE beats[job.beat].text)
    /\ Ends(job)
    /\ UNCHANGED <<variablesOn, chapters, changes, notes, issued, events, calm>>

\* finalize_beat_prose: the text, then the summaries.
EndLegacy(job) ==
    /\ job.step = "stream"
    /\ ~job.token
    /\ job.got > 0
    /\ Write(job.beat, Written(job))
    /\ Become(job, [job EXCEPT !.step = "invalidate"])
    /\ UNCHANGED <<variablesOn, chapters, changes, notes, issued, events, calm>>

Invalidate(job) ==
    /\ job.step = "invalidate"
    /\ InvalidateFrom(job.place)
    /\ Ends(job)
    /\ UNCHANGED <<variablesOn, beats, changes, notes, issued, events, calm>>

\* The task finds its token: the request has done the rest.
TokenSeen(job) ==
    /\ job.token
    /\ job.step \in {"plan", "typed", "stream", "again", "wait"}
    /\ Ends(job)
    /\ UNCHANGED <<variablesOn, chapters, beats, changes, notes, issued, events, calm>>

-----------------------------------------------------------------------------
(* The other jobs: what they need is read, then the model is asked         *)

\* A job with nothing to work on fails, or completes, without a write.
Refused(job) ==
    \/ job.kind = "recheck" /\ ~variablesOn
    \/ job.kind = "align" /\ (beats[job.beat].text = Blank \/ ~beats[job.beat].plan)
    \/ job.kind = "summarize" /\ ~HasSubstantialProse(job.chapter)
Ask(job) ==
    /\ job.step = "queued"
    /\ job.kind \notin Writers
    /\ IF Refused(job) THEN Ends(job)
       ELSE Become(job, [job EXCEPT !.step = "asked",
                !.place = IF job.chapter = 0 THEN 0 ELSE PlaceOf(job.chapter),
                !.audit = IF job.kind = "recheck" THEN beats[job.beat].audit ELSE <<>>])
    /\ UNCHANGED <<variablesOn, chapters, beats, changes, notes, issued, events, calm>>

\* The model fails, or says that nothing is to be changed, or the job is cancelled.
NoAnswer(job) ==
    /\ job.step = "asked"
    /\ Ends(job)
    /\ UNCHANGED <<variablesOn, chapters, beats, changes, notes, issued, events, calm>>

PlanBeat(job) ==
    /\ job.step = "asked" /\ job.kind = "mechanical"
    /\ Update(job.beat, [beats[job.beat] EXCEPT !.plan = TRUE])
    /\ Ends(job)
    /\ UNCHANGED <<variablesOn, chapters, changes, notes, issued, events, calm>>

Align(job) ==
    /\ job.step = "asked" /\ job.kind = "align"
    /\ Update(job.beat, [WithText(job.beat, <<job.id>>) EXCEPT !.kept = Blank])
    /\ Become(job, [job EXCEPT !.step = "invalidate"])
    /\ UNCHANGED <<variablesOn, chapters, changes, notes, issued, events, calm>>

\* run_story_state_recheck_job: what is applied is saved with the audit read before.
ApplyRecheck(job) ==
    /\ job.step = "asked" /\ job.kind = "recheck"
    /\ changes' = changes \cup {NewChange(job.beat)}
    /\ Become(job, [job EXCEPT !.step = "merge", !.audit = Append(@, NewChange(job.beat))])
    /\ UNCHANGED <<variablesOn, chapters, beats, notes, issued, events, calm>>

MergeAudit(job) ==
    /\ job.step = "merge"
    /\ Update(job.beat, [beats[job.beat] EXCEPT !.audit = job.audit])
    /\ Ends(job)
    /\ UNCHANGED <<variablesOn, chapters, changes, notes, issued, events, calm>>

\* set_chapter_prose_summary, of the prose read when the job began: the summary is
\* marked valid whatever became of that prose meanwhile.
Summarize(job) ==
    /\ job.step = "asked" /\ job.kind = "summarize"
    /\ chapters' = [i \in DOMAIN chapters |->
                       IF chapters[i].id = job.chapter
                       THEN [chapters[i] EXCEPT !.valid = TRUE] ELSE chapters[i]]
    /\ Ends(job)
    /\ UNCHANGED <<variablesOn, beats, changes, notes, issued, events, calm>>

\* New ids are above all others (AUTOINCREMENT); a job makes one row at most.
NewId(job) == 2 + job.id

\* apply_beat_proposal: the beats of the chapter are replaced by a new one.
ReplaceBeats(job) ==
    /\ job.step = "asked" /\ job.kind = "beats"
    /\ job.chapter \in ChapterIds
    /\ LET gone == BeatsOf(job.chapter)
       IN /\ beats' = [b \in (DOMAIN beats \ gone) \cup {NewId(job)} |->
                         IF b = NewId(job) THEN NewBeat(job.chapter) ELSE beats[b]]
          /\ Cascade({job}, {j \in jobs \ {job} : j.beat \in gone})
    /\ UNCHANGED <<variablesOn, chapters, changes, notes, issued, events, calm>>

\* apply_chapter_proposal: so are all the chapters.
ReplaceChapters(job) ==
    /\ job.step = "asked" /\ job.kind = "chapters"
    /\ chapters' = <<NewChapter(NewId(job))>>
    /\ beats' = [b \in {} |-> beats[b]]
    /\ Cascade({job}, {j \in jobs \ {job} : j.chapter # 0})
    /\ UNCHANGED <<variablesOn, changes, notes, issued, events, calm>>

\* The server stops: the tasks and the requests are gone, the jobs that ran are
\* queued again. Changes that were applied and not yet saved are out of their
\* audit's reach. A beat that was blanked, or whose job was settled, and not yet
\* given its job or its note stays blank: nothing looks for it again.
Interrupted(b) ==
    \/ b \in NotedBeats
    \/ \E job \in jobs : job.beat = b /\ job.step \in {"prepare", "note"}

Crash ==
    /\ Served
    /\ notes # {} \/ \E job \in jobs : Live(job)
    /\ notes' = {}
    /\ beats' = [b \in DOMAIN beats |->
                    IF Interrupted(b) THEN NotAsked(b) ELSE beats[b]]
    /\ jobs' = {NewJob(job.id, job.kind, job.chapter, job.beat) : job \in {j \in jobs : j.row}}
    /\ calm' = (calm /\ \A job \in jobs : job.step \notin {"save", "merge"})
    /\ UNCHANGED <<variablesOn, chapters, changes, issued>>

Request ==
    \/ ToggleVariables
    \/ ProposeChapters
    \/ \E chapter \in ChapterIds : SummarizeChapter(chapter) \/ ProposeBeats(chapter)
    \/ \E b \in DOMAIN beats :
        \/ EditBeat(b)
        \/ DeleteBeat(b)
        \/ GenerateProse(b)
        \/ GenerateProseRefused(b)
        \/ ContinueProse(b)
        \/ AlignProse(b)
        \/ RecheckState(b)
        \/ GenerateMechanical(b)
    \/ \E job \in jobs : Cancel(job) \/ EnqueueProse(job) \/ DropProse(job)
    \/ \E b \in NotedBeats : CancelLooks(b) \/ CancelNotes(b)
    \/ \E due \in notes : DropCancel(due)

\* The jobs by their handlers; a piece is one of run_story_typed_beat_prose or of
\* run_beat_prose_generation_attempt, by the step of its job.
TypedProse(job) ==
    Plan(job) \/ SavePlan(job) \/ EndTyped(job) \/ TypedFails(job) \/ NoteFailure(job)
LegacyProse(job) == Start(job) \/ Again(job) \/ Restore(job) \/ Waited(job)
Attempt(job) ==
    \/ Open(job)
    \/ Piece(job)
    \/ AttemptFails(job)
    \/ StreamFails(job)
    \/ EndLegacy(job)
    \/ Invalidate(job)

Summarizes(job) == job.kind = "summarize" /\ (Ask(job) \/ NoAnswer(job) \/ Summarize(job))
Plans(job) == job.kind = "mechanical" /\ (Ask(job) \/ NoAnswer(job) \/ PlanBeat(job))
Aligns(job) ==
    /\ job.kind = "align"
    /\ Ask(job) \/ NoAnswer(job) \/ Align(job) \/ Invalidate(job)
Rechecks(job) ==
    /\ job.kind = "recheck"
    /\ Ask(job) \/ NoAnswer(job) \/ ApplyRecheck(job) \/ MergeAudit(job)
ProposesBeats(job) == job.kind = "beats" /\ (Ask(job) \/ NoAnswer(job) \/ ReplaceBeats(job))
ProposesChapters(job) ==
    job.kind = "chapters" /\ (Ask(job) \/ NoAnswer(job) \/ ReplaceChapters(job))

JobStep(job) ==
    \/ job.kind \in Writers /\ (LegacyProse(job) \/ TypedProse(job) \/ Attempt(job) \/ TokenSeen(job))
    \/ Summarizes(job)
    \/ Plans(job)
    \/ Aligns(job)
    \/ Rechecks(job)
    \/ ProposesBeats(job)
    \/ ProposesChapters(job)

Next ==
    \/ Request
    \/ \E job \in jobs : JobStep(job)
    \/ Crash

Spec == Init /\ [][Next]_vars

-----------------------------------------------------------------------------
(* Properties                                                              *)

\* Every change a beat made to the story's state is in its audit, and no other
\* is, so that a regenerate undoes just those: whatever ended the job, with the
\* variables switched on or off meanwhile, and beside another beat's job.
AuditsAreTheChanges ==
    \A b \in DOMAIN beats :
        /\ calm
        /\ \A job \in jobs : Live(job) => ~(job.beat = b /\ job.kind \in {"prose", "recheck"})
        => {c \in changes : c[1] = b} = ToSet(beats[b].audit)

\* What the user wrote, or asked to continue, stays at the head of the beat
\* through failures, retries, cancels and restarts of the continuation.
ContinueOnlyAppends ==
    \A b \in DOMAIN beats : calm => IsPrefix(beats[b].kept, beats[b].text)

\* A beat whose prose was asked for is not left blank once its job, the cancel of
\* it and their notes are through: prose or a note says what became of the job,
\* unless the server stopped (Interrupted), or the client left (DropCancel, DropProse),
\* between two statements of theirs.
SettledBeatHasText ==
    \A b \in DOMAIN beats :
        /\ calm
        /\ beats[b].asked
        /\ b \notin NotedBeats
        /\ \A job \in jobs : job.beat # b
        => beats[b].text # Blank
=============================================================================
