----------------------------- MODULE ChatSummary -----------------------------
(***************************************************************************)
(* The summary of one chat: a queued job that tells the oldest messages in *)
(* it batch after batch, hides those from the prompt, and keeps a marker   *)
(* message in the chat, beside new messages, rewinds, cancels, deletions   *)
(* of the summary, lost clients and server stops                           *)
(* (crates/server/src/summarize.rs, its handler in queue.rs and the        *)
(* message functions of db.rs).                                            *)
(*                                                                         *)
(* A step is a statement that writes, with the reads before it, of a job   *)
(* or of a request handler; one DELETE of several messages is one step.    *)
(* Messages are known by their ids, which grow; a summary is the set of    *)
(* messages it tells of. Token counts are choices: how many recent         *)
(* messages to keep, where that is adaptive, and how many fit one batch.   *)
(* Wording, and edits of the summary by the user, are left out.            *)
(***************************************************************************)
EXTENDS Integers, FiniteSets, FiniteSetsExt

CONSTANTS
    KeepRecent,   \* settings.summarize_keep_recent, at least 2
    After,        \* settings.summarize_after_messages, at least 4
    Adaptive,     \* settings.summarize_adaptive with a context size
    Initial,      \* bound: messages the chat begins with
    MaxMessages,  \* bound: message ids
    MaxJobs,      \* bound: jobs enqueued
    MaxEvents     \* bound: rewinds, deletions, cancels, lost clients and server stops

ASSUME SettingsAssumption == KeepRecent \in Nat /\ KeepRecent >= 2 /\ After >= 4
ASSUME BoundsAssumption == Initial \in Nat

VARIABLES
    messages,  \* the messages that are no markers, by id
    hidden,    \* those with in_summary set
    summary,   \* chats.summary: the messages it tells of, and whether there is text
    markers,   \* the is_summary messages: body written or not, and the next message
    jobs,      \* the jobs, a running one with what its task holds in memory
    handlers,  \* the request handlers that have another statement to execute
    sent,      \* message ids handed out
    issued,    \* job ids handed out
    events,    \* rewinds, deletions, cancels, lost clients and server stops so far
    calm,      \* ghost: no task ran beside a rewind, a deletion or a later job
    cut        \* ghost: the markers of which a stop or a lost client cut two statements apart

vars == <<messages, hidden, summary, markers, jobs, handlers, sent, issued, events, calm, cut>>

-----------------------------------------------------------------------------
(* Rows                                                                    *)

NoSummary == [text |-> FALSE, tells |-> {}]

\* is_active_for_context
ActiveMessages == messages \ hidden

\* The n smallest of a set of ids, which are in the order of their creation.
Newest(n, ids) == {i \in ids : Cardinality({k \in ids : k > i}) < n}
Oldest(n, ids) == {i \in ids : Cardinality({k \in ids : k < i}) < n}

\* A marker is known by the job it was made for, and stands before a message.
NewMarker(id, before) == [id |-> id, body |-> FALSE, before |-> before]

\* row: the job row is queued or running; the rest is what its task knows: the
\* summary, the batch it tells or has yet to hide, the first message it kept, and
\* whether it has hidden any.
NewJob(id, kind, marker) ==
    [id |-> id, kind |-> kind, marker |-> marker, row |-> TRUE, step |-> "queued",
     tells |-> {}, batch |-> {}, anchor |-> 0, told |-> FALSE]

\* What a handler has yet to do: enqueue a job of this kind for a marker, remove the
\* marker of a job it has cancelled, or the rest of a deletion.
JobKinds == {"auto", "force", "regenerate"}
Handler(id, kind, marker) == [id |-> id, kind |-> kind, marker |-> marker]
Clearing == \E h \in handlers : h.kind = "clear"

Live(job) == job.step # "queued"
NoneLive == \A job \in jobs : ~Live(job)
HasActiveJob == \E job \in jobs : job.row
MarkerIds == {marker.id : marker \in markers}

\* Deleting a marker deletes the row of its job, which a task does not notice.
RowsWithout(ids, rest) ==
    {IF job.marker \in ids THEN [job EXCEPT !.row = FALSE] ELSE job :
        job \in {j \in rest : Live(j) \/ j.marker \notin ids}}

\* plan_summarization: what to summarize, keeping so many, or nothing.
\* KeptAny, a slip: adaptive_keep_count keeps what fits, be it less than asked for.
KeptAny(active) == 1..Cardinality(active)
Kept(active) ==
    IF Adaptive THEN KeepRecent..Cardinality(active) ELSE {KeepRecent}
Threshold(kind) == IF kind = "force" THEN KeepRecent ELSE After
Plans(kind) ==
    {plan \in {Oldest(Cardinality(ActiveMessages) - k, ActiveMessages) : k \in Kept(ActiveMessages)} :
        plan # {} /\ Cardinality(ActiveMessages) > Threshold(kind)}
FirstKept(plan) == Min(ActiveMessages \ plan)

Init ==
    /\ messages = 1..Initial
    /\ hidden = {}
    /\ summary = NoSummary
    /\ markers = {}
    /\ jobs = {}
    /\ handlers = {}
    /\ sent = Initial
    /\ issued = 0
    /\ events = 0
    /\ calm = TRUE
    /\ cut = {}

-----------------------------------------------------------------------------
(* Requests                                                                *)

Served == events < MaxEvents /\ events' = events + 1

Send ==
    /\ sent < MaxMessages
    /\ sent' = sent + 1
    /\ messages' = messages \cup {sent + 1}
    /\ UNCHANGED <<hidden, summary, markers, jobs, handlers, issued, events, calm, cut>>

\* The marker says that a summary is being made; the job is enqueued next.
Asks(kind, marker) ==
    /\ issued < MaxJobs
    /\ issued' = issued + 1
    /\ handlers' = handlers \cup {Handler(issued + 1, kind, marker)}
    /\ UNCHANGED <<messages, hidden, summary, jobs, sent, events, calm, cut>>

\* try_enqueue_summarize, after a reply (auto) or asked for (force)
Summarize(kind) ==
    /\ ~HasActiveJob
    /\ \E plan \in Plans(kind) : markers' = markers \cup {NewMarker(issued + 1, FirstKept(plan))}
    /\ Asks(kind, issued + 1)

\* enqueue_regenerate_summary_for_chat
Regenerate(marker) ==
    /\ ~HasActiveJob
    /\ summary.text
    /\ markers' = (markers \ {marker}) \cup {[marker EXCEPT !.body = FALSE]}
    /\ Asks("regenerate", marker.id)

\* The row of the job refers to the marker: without it the INSERT fails.
Enqueue(h) ==
    /\ h.kind \in JobKinds
    /\ handlers' = handlers \ {h}
    /\ IF h.marker \in MarkerIds
       THEN jobs' = jobs \cup {NewJob(h.id, h.kind, h.marker)} /\ calm' = (calm /\ jobs = {})
       ELSE UNCHANGED <<jobs, calm>>
    /\ UNCHANGED <<messages, hidden, summary, markers, sent, issued, events, cut>>

\* delete_chat_summary, in three statements: the summary, what it hides, the markers.
DeleteSummary ==
    /\ Served
    /\ summary' = NoSummary
    /\ handlers' = handlers \cup {Handler(events, "clear", 0)}
    /\ calm' = (calm /\ NoneLive)
    /\ UNCHANGED <<messages, hidden, markers, jobs, sent, issued, cut>>

ClearHidden(h) ==
    /\ h.kind = "clear"
    /\ hidden' = {}
    /\ handlers' = (handlers \ {h}) \cup {[h EXCEPT !.kind = "delete"]}
    /\ UNCHANGED <<messages, summary, markers, jobs, sent, issued, events, calm, cut>>

DeleteMarkers(h) ==
    /\ h.kind = "delete"
    /\ markers' = {}
    /\ jobs' = RowsWithout(MarkerIds, jobs)
    /\ handlers' = handlers \ {h}
    /\ UNCHANGED <<messages, hidden, summary, sent, issued, events, calm, cut>>

\* delete_messages_after, of a rewind that has cancelled (Cancel) the jobs of what goes.
Rewind(message) ==
    /\ Served
    /\ LET gone == {marker \in markers : marker.before > message}
       IN /\ markers' = markers \ gone
          /\ jobs' = RowsWithout({marker.id : marker \in gone}, jobs)
    /\ messages' = {m \in messages : m <= message}
    /\ hidden' = {m \in hidden : m <= message}
    /\ calm' = (calm /\ NoneLive)
    /\ UNCHANGED <<summary, handlers, sent, issued, cut>>

\* cancel_job_record: the row is settled, and the marker goes next; a task runs on.
Settled(job) == IF Live(job) THEN {[job EXCEPT !.row = FALSE]} ELSE {}
Cancel(job) ==
    /\ Served
    /\ job.row
    /\ jobs' = (jobs \ {job}) \cup Settled(job)
    /\ handlers' = handlers \cup {Handler(job.id, "cancel", job.marker)}
    /\ UNCHANGED <<messages, hidden, summary, markers, sent, issued, calm, cut>>

\* remove_summarize_marker: the rows of the jobs that are left for it go too.
RemoveMarker(id, rest) ==
    /\ markers' = {marker \in markers : marker.id # id}
    /\ jobs' = RowsWithout({id}, rest)
CancelGoesOn(h) ==
    /\ h.kind = "cancel"
    /\ RemoveMarker(h.marker, jobs)
    /\ handlers' = handlers \ {h}
    /\ UNCHANGED <<messages, hidden, summary, sent, issued, events, calm, cut>>

\* A client that leaves takes its handler along: what is left of it is not executed.
\* The follow-up of a reply is no handler, it enqueues in the task of the reply.
DropHandler(h) ==
    /\ Served
    /\ h.kind # "auto"
    /\ handlers' = handlers \ {h}
    /\ cut' = cut \cup {h.marker}
    /\ calm' = (calm /\ h.kind # "clear")
    /\ UNCHANGED <<messages, hidden, summary, markers, jobs, sent, issued>>

-----------------------------------------------------------------------------
(* The job: execute_summarize_loop and run_summarize_job                   *)

Become(job, new) == jobs' = (jobs \ {job}) \cup {new}
\* The marker of the job is deleted, and with it the row of the job.
EndsWithoutMarker(job) == RemoveMarker(job.marker, jobs \ {job})

Start(job) ==
    /\ job.step = "queued"
    /\ job.kind # "regenerate"
    /\ Become(job, [job EXCEPT !.step = "plan", !.tells = summary.tells])
    /\ calm' = (calm /\ ~Clearing)
    /\ UNCHANGED <<messages, hidden, summary, markers, handlers, sent, issued, events, cut>>

\* A batch of the oldest messages that the plan leaves; at least one fits.
NextBatch(job) ==
    /\ job.step = "plan"
    /\ \E plan \in Plans(job.kind) :
        \E n \in 1..Cardinality(plan) :
            Become(job, [job EXCEPT !.step = "ask", !.batch = Oldest(n, plan),
                                    !.anchor = IF @ = 0 THEN FirstKept(plan) ELSE @])
    /\ UNCHANGED <<messages, hidden, summary, markers, handlers, sent, issued, events, calm, cut>>

\* The loop ends for want of a plan: the marker tells of it, or goes. KeepMarker, a
\* slip: it stays in any case.
KeepMarker(job) == UNCHANGED markers /\ jobs' = jobs \ {job}
NothingTold(job) == EndsWithoutMarker(job)
EndLoop(job) ==
    /\ job.step = "plan"
    /\ Plans(job.kind) = {} \/ Adaptive
    /\ IF ~job.told THEN NothingTold(job)
       ELSE /\ markers' = {IF marker.id = job.marker
                           THEN [marker EXCEPT !.body = TRUE, !.before = job.anchor] ELSE marker :
                           marker \in markers}
            /\ Become(job, [job EXCEPT !.step = "complete"])
    /\ UNCHANGED <<messages, hidden, summary, handlers, sent, issued, events, calm, cut>>

\* The model answers, and the summary now tells of the batch too.
Answer(job) ==
    /\ job.step = "ask"
    /\ Become(job, [job EXCEPT !.step = "store", !.tells = @ \cup job.batch])
    /\ UNCHANGED <<messages, hidden, summary, markers, handlers, sent, issued, events, calm, cut>>

\* The model fails, after the batches that went well, or none is selected any more:
\* fail_job settles the row, and the marker goes next.
Fail(job) ==
    /\ job.step \in {"queued", "ask"}
    /\ Become(job, [job EXCEPT !.step = "unmark", !.row = FALSE])
    /\ UNCHANGED <<messages, hidden, summary, markers, handlers, sent, issued, events, calm, cut>>

FailGoesOn(job) ==
    /\ job.step = "unmark"
    /\ EndsWithoutMarker(job)
    /\ UNCHANGED <<messages, hidden, summary, handlers, sent, issued, events, calm, cut>>

\* HideFirst, a slip: the messages are hidden before the summary tells of them.
HideFirst(job) ==
    /\ job.step = "store"
    /\ hidden' = hidden \cup (job.batch \cap messages)
    /\ Become(job, [job EXCEPT !.step = "hide"])
    /\ UNCHANGED <<messages, summary, markers, handlers, sent, issued, events, calm, cut>>

\* update_chat_summary
Store(job) ==
    /\ job.step = "store"
    /\ summary' = [text |-> TRUE, tells |-> job.tells]
    /\ Become(job, [job EXCEPT !.step = IF job.kind = "regenerate" THEN "mark" ELSE "hide"])
    /\ UNCHANGED <<messages, hidden, markers, handlers, sent, issued, events, calm, cut>>

\* mark_messages_in_summary, one UPDATE for each. HideNone, a slip: they are not hidden.
HideNone(job) == hidden
HiddenBy(job) == hidden \cup ({Min(job.batch)} \cap messages)
Hide(job) ==
    /\ job.step = "hide"
    /\ IF job.batch = {}
       THEN Become(job, [job EXCEPT !.step = "plan"]) /\ UNCHANGED hidden
       ELSE /\ hidden' = HiddenBy(job)
            /\ Become(job, [job EXCEPT !.batch = @ \ {Min(job.batch)}, !.told = TRUE])
    /\ UNCHANGED <<messages, summary, markers, handlers, sent, issued, events, calm, cut>>

\* run_regenerate_summary_job: the summary, and the newest messages that fit.
StartRegenerate(job) ==
    /\ job.step = "queued"
    /\ job.kind = "regenerate"
    /\ IF ~summary.text THEN EndsWithoutMarker(job)
       ELSE /\ \E n \in (IF ActiveMessages = {} THEN {0} ELSE 1..Cardinality(ActiveMessages)) :
                Become(job, [job EXCEPT !.step = "ask", !.tells = summary.tells,
                                        !.batch = Newest(n, ActiveMessages)])
            /\ UNCHANGED markers
    /\ calm' = (calm /\ ~Clearing)
    /\ UNCHANGED <<messages, hidden, summary, handlers, sent, issued, events, cut>>

\* The marker, and what others show, is written again.
WriteMarker(job) ==
    /\ job.step = "mark"
    /\ markers' = {IF marker.id = job.marker THEN [marker EXCEPT !.body = TRUE] ELSE marker :
                   marker \in markers}
    /\ Become(job, [job EXCEPT !.step = "complete"])
    /\ UNCHANGED <<messages, hidden, summary, handlers, sent, issued, events, calm, cut>>

Complete(job) ==
    /\ job.step = "complete"
    /\ jobs' = jobs \ {job}
    /\ UNCHANGED <<messages, hidden, summary, markers, handlers, sent, issued, events, calm, cut>>

\* The server stops: tasks and handlers are gone, the jobs that ran are queued again.
\* What had one of its two statements executed stays so: no start removes its marker.
Crash ==
    /\ Served
    /\ handlers # {} \/ ~NoneLive
    /\ jobs' = {NewJob(job.id, job.kind, job.marker) : job \in {j \in jobs : j.row}}
    /\ handlers' = {}
    /\ cut' = cut \cup {h.marker : h \in handlers}
                  \cup {job.marker : job \in {j \in jobs : j.step = "unmark"}}
    /\ calm' = (calm /\ ~Clearing)
    /\ UNCHANGED <<messages, hidden, summary, markers, sent, issued>>

Request ==
    \/ Send
    \/ \E kind \in {"auto", "force"} : Summarize(kind)
    \/ \E marker \in markers : Regenerate(marker)
    \/ DeleteSummary
    \/ \E message \in messages : Rewind(message)
    \/ \E job \in jobs : Cancel(job)
HandlerStep(h) ==
    \/ Enqueue(h)
    \/ ClearHidden(h)
    \/ DeleteMarkers(h)
    \/ CancelGoesOn(h)
JobStep(job) ==
    \/ Start(job)
    \/ NextBatch(job)
    \/ EndLoop(job)
    \/ Answer(job)
    \/ Fail(job)
    \/ FailGoesOn(job)
    \/ Store(job)
    \/ Hide(job)
    \/ StartRegenerate(job)
    \/ WriteMarker(job)
    \/ Complete(job)

Next ==
    \/ Request
    \/ \E h \in handlers : HandlerStep(h) \/ DropHandler(h)
    \/ \E job \in jobs : JobStep(job)
    \/ Crash

\* The queue starts what is queued and the model answers or fails: every job that
\* can take a step takes one.
Spec ==
    /\ Init /\ [][Next]_vars
    /\ \A id \in 1..MaxJobs : WF_vars(\E job \in jobs : job.id = id /\ JobStep(job))

-----------------------------------------------------------------------------
(* Properties                                                              *)

\* What is hidden from the prompt is the oldest part of the chat, and the summary
\* tells of it, so that the model loses nothing and reads no gap: between any two
\* statements of a job, and after a crash, a failure or a cancel at any of them. A
\* deletion is apart: it empties the summary before it shows the messages again.
PromptLosesNothing ==
    calm /\ ~Clearing =>
        /\ hidden \subseteq summary.tells
        /\ \A m \in hidden, k \in messages : k < m => k \in hidden

\* When no job is left and no handler at work, no marker says that a summary is being
\* made, unless the server stopped, or the client left, between the two statements that
\* settle a job and remove its marker, or write the marker and enqueue the job.
SettledMarkersAreWritten ==
    jobs = {} /\ handlers = {} => \A marker \in markers : marker.body \/ marker.id \in cut

\* A step that hides a message leaves as many recent ones as the settings ask for.
RecentMessagesStay ==
    [][calm /\ hidden' # hidden /\ hidden \subseteq hidden' => Cardinality(messages' \ hidden') >= KeepRecent]_vars

\* Every summarize job ends, however many passes it needs.
JobsEnd == \A id \in 1..MaxJobs : (\E job \in jobs : job.id = id) ~> ~ \E job \in jobs : job.id = id
=============================================================================
