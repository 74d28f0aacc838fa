------------------------------ MODULE AutoSave ------------------------------
(***************************************************************************)
(* A field that saves itself: half a second after the last key a timer     *)
(* sends the text, an icon says how the field stands, and jobs that write  *)
(* the same text lock it. One field of one of three forms:                 *)
(*                                                                         *)
(*   basics    StoryBasicsForm (ChapterEditor and BeatEditor schedule      *)
(*             alike): an AutoSaveController made anew at every render     *)
(*   prose     ReadingProseBlock: the same controller, an editor that      *)
(*             opens and closes, a save at once when it closes             *)
(*   settings  SettingsPage: one cell for the draft, one for the timer     *)
(*                                                                         *)
(* A controller belongs to one render, so a later render cannot drop the   *)
(* timer of an earlier one: what was scheduled fires, in order. Nor can    *)
(* bind_tab_flush reach it: it binds the controller of the first render,   *)
(* on which nothing is ever scheduled, since the effects of the mount make *)
(* another. As in LiveSync, handles says whether a handle kept by a        *)
(* closure yields the value of its render (yew 0.21) or the latest one.    *)
(*                                                                         *)
(* calm is history: it becomes FALSE at each of the events after which the *)
(* code is known to part the page from the server (see SavedIsStored).     *)
(***************************************************************************)
EXTENDS Integers, Sequences, SequencesExt

CONSTANTS
    Forms,    \* the forms the field may belong to
    Texts,    \* what it can say: numbers, for the settings clamp them
    Budgets   \* bounds: edits, jobs that lock the field, faults (failed requests, reloads)

ASSUME TextsAssumption == {0, 1} \subseteq Texts /\ Texts \subseteq Nat
ASSUME FormsAssumption == Forms \subseteq {"basics", "prose", "settings"}
ASSUME BudgetsAssumption == Budgets \subseteq [edits : Nat, jobs : Nat, faults : Nat]

VARIABLES
    form,     \* which form the field belongs to
    handles,  \* which value a handle of the page's state yields
    draft,    \* the text in the field
    saved,    \* last_saved
    phase,    \* AutoSavePhase: what the icon says
    open,     \* the field can be typed into (prose: editing)
    locked,   \* save_blocked: the page knows of a job that writes here
    timers,   \* the timers that will fire, the earliest first
    requests, \* update requests whose answer has not landed, in the order they were sent
    shown,    \* beat.content: the text of the page's story detail (prose)
    server,   \* the text that is stored
    left,     \* how many of each bounded event there may still be
    typed,    \* history: what the user wants it to say
    unsent,   \* history: the text typed last, until it is sent
    calm      \* history: no event has happened that parts page and server

fields == <<draft, saved, phase, open, locked, shown>>
history == <<typed, unsent, calm>>
vars == <<form, handles, fields, timers, requests, server, left, history>>

\* What a closure holds of its render, and what it reads there.
Render == IF handles = "render" THEN [draft |-> draft, saved |-> saved]
                                ELSE [draft |-> 0, saved |-> 0]
DraftOf(cap) == IF handles = "render" THEN cap.draft ELSE draft
SavedOf(cap) == IF handles = "render" THEN cap.saved ELSE saved

\* update_settings keeps max_concurrent_jobs at 1 or more; other texts are stored as sent.
Stored(t) == IF form = "settings" /\ t < 1 THEN 1 ELSE t

Pending == timers # <<>> \/ requests # <<>>

Spend(event) == left[event] > 0 /\ left' = [left EXCEPT ![event] = @ - 1]

Init ==
    /\ form \in Forms
    /\ handles \in {"render", "latest"}
    /\ left \in Budgets
    /\ draft = 1 /\ saved = 1 /\ shown = 1 /\ server = 1 /\ typed = 1
    /\ phase = "synced" /\ locked = FALSE /\ open = (form # "prose")
    /\ timers = <<>> /\ requests = <<>>
    /\ unsent = {} /\ calm = TRUE

-----------------------------------------------------------------------------
(* Typing *)

\* AutoSaveController::schedule: a timer of this render's own controller.
schedule(text) ==
    /\ timers' = Append(timers, [text |-> text, cap |-> Render])
    /\ phase' = "debouncing"

\* SettingsSaveContext::schedule_save: the one timer starts again.
schedule_save(text, cap) ==
    /\ timers' = <<[text |-> text, cap |-> cap]>>
    /\ phase' = "debouncing"

\* An edit back to the saved text: the settings drop their timer, the other forms
\* return before they look at one.
Revert ==
    IF form = "settings" THEN timers' = <<>> /\ phase' = "synced" ELSE UNCHANGED <<timers, phase>>

\* oninput. The basics read their draft handle after they have set it.
Type(t) ==
    LET text == IF form = "basics" /\ handles = "render" THEN draft ELSE t
    IN  /\ open /\ ~locked /\ t # draft
        /\ Spend("edits")
        /\ draft' = t
        /\ typed' = t
        /\ IF text = saved THEN Revert
           ELSE IF form = "settings" THEN schedule_save(text, Render)
           ELSE schedule(text)
        /\ unsent' = IF text = saved THEN {} ELSE {text}
        /\ calm' = (calm /\ ~(t = saved /\ (Pending \/ server # saved)))
        /\ UNCHANGED <<form, handles, saved, open, locked, shown, requests, server>>

-----------------------------------------------------------------------------
(* Sending *)

Request(kind, text, cap, fresh) ==
    [kind |-> kind, text |-> text, cap |-> cap, fresh |-> fresh, step |-> "sent", reply |-> 0]

\* A request leaves. fresh: the draft its closure reads is the text it sends.
Send(text, cap, fresh, kind) ==
    /\ requests' = Append(requests, Request(kind, text, cap, fresh))
    /\ phase' = "saving"
    /\ unsent' = unsent \ {text}

\* What a timer that fires looks at. NeverBlocked, a slip: only the request to save does.
NeverBlocked == FALSE
Blocked == locked

\* The timer, which says Saving, finds the form locked: the save is dropped; the basics
\* call it saved, the reading editor leaves the icon as it is.
Dropped ==
    /\ phase' = IF form = "basics" THEN "synced" ELSE "saving"
    /\ unsent' = {}
    /\ calm' = FALSE
    /\ UNCHANGED requests

\* SettingsSaveContext::run_save: sends the draft of the cell as it is now.
run_save(cap) ==
    IF draft = SavedOf(cap)
    THEN phase' = "synced" /\ UNCHANGED <<requests, unsent>>
    ELSE Send(draft, cap, TRUE, "save")

FieldTimer ==
    LET timer == Head(timers)
    IN  /\ form # "settings" /\ timers # <<>>
        /\ timers' = Tail(timers)
        /\ IF Blocked THEN Dropped
           ELSE Send(timer.text, timer.cap, DraftOf(timer.cap) = timer.text, "save")
                /\ UNCHANGED calm
        /\ UNCHANGED <<form, handles, draft, saved, open, locked, shown, server, left, typed>>

SettingsTimer ==
    /\ form = "settings" /\ timers # <<>>
    /\ timers' = <<>>
    /\ run_save(Head(timers).cap)
    /\ UNCHANGED <<form, handles, draft, saved, open, locked, shown, server, left, typed, calm>>

\* The tab is hidden or the settings page left: flush_pending of the first render, whose
\* handle of the phase must yield the latest one.
HideTab ==
    /\ form = "settings" /\ handles = "latest" /\ phase = "debouncing" /\ draft # saved
    /\ timers' = <<>>
    /\ run_save(Render)
    /\ UNCHANGED <<form, handles, draft, saved, open, locked, shown, server, left, typed, calm>>

\* switch_active_connection: only the id of the connection is sent, and the timer of an
\* unsent edit is dropped.
Switch ==
    /\ form = "settings"
    /\ Spend("edits")
    /\ requests' = Append(requests, Request("switch", draft, Render, TRUE))
    /\ timers' = <<>>
    /\ phase' = "saving"
    /\ calm' = (calm /\ draft = saved)
    /\ UNCHANGED <<form, handles, draft, saved, open, locked, shown, server, typed, unsent>>

-----------------------------------------------------------------------------
(* The reading editor *)

\* begin_reading_edit: the story is fetched first, or cannot be. The generation the answer is compared
\* with is read from a handle: that of the render is never current. The editor shows
\* content, which the fetched story does not reach.
OpenEditor ==
    /\ form = "prose" /\ handles = "latest" /\ ~open /\ ~locked
    /\ open' = TRUE
    /\ shown' \in {server, shown}
    /\ calm' = (calm /\ ~Pending /\ draft = server /\ draft = saved)
    /\ UNCHANGED <<form, handles, draft, saved, phase, locked, timers, requests, server,
                   left, typed, unsent>>

\* The effect of a closed editor: it takes over the text of the page's story.
Closed ==
    /\ open' = FALSE
    /\ draft' = shown
    /\ saved' = shown

\* stop_edit (Escape, blur): what differs from last_saved is sent at once. The effect of
\* the close and the task of the request run in either order.
CloseEditor ==
    /\ form = "prose" /\ open
    /\ IF draft = saved
       THEN UNCHANGED <<phase, requests, unsent>>
       ELSE \E first \in {draft = shown, TRUE} : Send(draft, Render, first, "flush")
    /\ Closed
    /\ UNCHANGED <<form, handles, locked, shown, timers, server, left, typed, calm>>

-----------------------------------------------------------------------------
(* Jobs on the same text *)

\* cancel_pending of this render's controller has no timer to drop.
JobSeen ==
    /\ form # "settings" /\ ~locked
    /\ Spend("jobs")
    /\ locked' = TRUE
    /\ phase' = IF phase = "debouncing" THEN "synced" ELSE phase
    /\ IF open /\ form = "prose" THEN Closed ELSE UNCHANGED <<open, draft, saved>>
    /\ calm' = (calm /\ ~(form = "prose" /\ (Pending \/ draft # saved)))
    /\ UNCHANGED <<form, handles, shown, timers, requests, server, typed, unsent>>

\* The job has ended. One on a beat has written it, and the page has followed.
JobGone ==
    /\ locked
    /\ locked' = FALSE
    /\ IF form = "prose"
       THEN \E t \in Texts : server' = t /\ shown' = t /\ typed' = t
       ELSE UNCHANGED <<server, shown, typed>>
    /\ UNCHANGED <<form, handles, draft, saved, phase, open, timers, requests, left, unsent,
                   calm>>

-----------------------------------------------------------------------------
(* Answers *)

\* The server stores requests in whatever order they reach it.
Store(i) ==
    /\ requests[i].step = "sent"
    /\ server' = IF requests[i].kind = "switch" THEN server ELSE Stored(requests[i].text)
    /\ requests' = [requests EXCEPT ![i].step = "stored"]
    /\ calm' = (calm /\ \A j \in 1 .. i - 1 : requests[j].step # "sent")
    /\ UNCHANGED <<form, handles, fields, timers, left, typed, unsent>>

\* ... and reads its answer back afterwards (get_settings, get_story_detail).
Reply(i) ==
    /\ requests[i].step = "stored"
    /\ requests' = [requests EXCEPT ![i].step = "replied", ![i].reply = server]
    /\ calm' = (calm /\ server = Stored(requests[i].text))
    /\ UNCHANGED <<form, handles, fields, timers, server, left, typed, unsent>>

\* The answer to request i comes when its turn is not: an earlier one is still out, or the
\* settings take it for the answer to the same text, typed again after another was sent.
Overtakes(i) == i > 1
Mistaken(i) == form = "settings" /\ draft = requests[i].text /\ i < Len(requests)

\* The answer to a switch is taken whatever was typed since.
TakesBack(r) == r.kind = "switch" /\ draft # r.reply

\* SettingsSaveContext::mark_saved
mark_saved(reply) ==
    /\ draft' = reply
    /\ saved' = reply
    /\ timers' = <<>>
    /\ phase' = "synced"

\* The settings were edited while the request was out: schedule_save over again.
\* TimerLost, a slip: the answer is taken for that of the last edit.
TimerLost(cap) ==
    /\ timers' = <<>>
    /\ phase' = "synced"
    /\ UNCHANGED <<draft, saved>>
Again(cap) ==
    /\ IF draft = SavedOf(cap) THEN timers' = <<>> /\ phase' = "synced"
       ELSE schedule_save(draft, cap)
    /\ UNCHANGED <<draft, saved>>

\* AlwaysTaken, a slip: the draft is not compared with what was sent.
AlwaysTaken(r) ==
    /\ form = "settings"
    /\ mark_saved(r.reply)
    /\ UNCHANGED shown

SettingsAnswer(r) ==
    /\ form = "settings"
    /\ IF draft = r.text \/ r.kind = "switch" THEN mark_saved(r.reply) ELSE Again(r.cap)
    /\ UNCHANGED shown

\* finish_auto_save: saved, whatever was typed since.
finish_auto_save(r) ==
    /\ form # "settings"
    /\ phase' = "synced"
    /\ saved' = IF r.fresh THEN r.text ELSE saved
    /\ shown' = IF r.kind = "flush" THEN r.reply ELSE shown
    /\ UNCHANGED <<draft, timers>>

AnswerLands(i) ==
    LET r == requests[i]
    IN  /\ r.step = "replied"
        /\ SettingsAnswer(r) \/ finish_auto_save(r)
        /\ requests' = RemoveAt(requests, i)
        /\ unsent' = unsent \ {r.text}
        /\ calm' = (calm /\ ~Overtakes(i) /\ ~Mistaken(i) /\ ~TakesBack(r))
        /\ UNCHANGED <<form, handles, open, locked, server, left, typed>>

SettingsFailure(r) ==
    /\ form = "settings"
    /\ IF draft = r.text \/ r.kind = "switch" THEN phase' = "failed" /\ UNCHANGED <<draft, saved, timers>>
       ELSE Again(r.cap)

\* fail_auto_save: the error is shown if the draft its closure read was the text sent.
\* FailureHidden, a slip: it never is.
FailureHidden(r) ==
    /\ form # "settings"
    /\ phase' = "synced"
    /\ UNCHANGED <<draft, saved, timers>>
fail_auto_save(r) ==
    /\ form # "settings"
    /\ phase' = IF r.fresh THEN "failed" ELSE "synced"
    /\ UNCHANGED <<draft, saved, timers>>

\* The request fails, before or after the server has stored its text.
RequestFails(i) ==
    LET r == requests[i]
    IN  /\ Spend("faults")
        /\ SettingsFailure(r) \/ fail_auto_save(r)
        /\ requests' = RemoveAt(requests, i)
        /\ calm' = (calm /\ ~Overtakes(i) /\ form # "prose" /\ r.kind # "switch")
        /\ UNCHANGED <<form, handles, open, locked, shown, server, typed, unsent>>

\* version_watch finds a newer build and reloads the page: timers are gone, requests are
\* broken off, of which one may have reached the server.
Reload ==
    /\ Spend("faults")
    /\ \E stored \in {server} \cup {Stored(r.text) : r \in {q \in ToSet(requests) : q.step = "sent" /\ q.kind # "switch"}} :
          /\ server' = stored
          /\ draft' = stored /\ saved' = stored /\ shown' = stored /\ typed' = stored
    /\ phase' = "synced"
    /\ open' = (form # "prose")
    /\ timers' = <<>> /\ requests' = <<>> /\ unsent' = {}
    /\ UNCHANGED <<form, handles, locked, calm>>

-----------------------------------------------------------------------------
Answered == \E i \in DOMAIN requests : Store(i) \/ Reply(i) \/ AnswerLands(i)

Next ==
    \/ \E t \in Texts : Type(t)
    \/ FieldTimer \/ SettingsTimer \/ HideTab \/ Switch
    \/ OpenEditor \/ CloseEditor
    \/ JobSeen \/ JobGone
    \/ Answered
    \/ \E i \in DOMAIN requests : RequestFails(i)
    \/ Reload

\* Timers fire and answers come; nobody has to type, open or close anything.
Spec ==
    /\ Init /\ [][Next]_vars
    /\ WF_vars(FieldTimer) /\ WF_vars(SettingsTimer) /\ WF_vars(Answered)

-----------------------------------------------------------------------------
(* Properties *)

\* The basics under handles of their render send the text before the last key.
SendsWhatIsTyped == form # "basics" \/ handles = "latest"

\* While the page knows of a job on the text, the field sends nothing: timers of earlier
\* renders cannot be dropped and must find the lock when they fire (stories_ui.rs:1727, 2997).
LockedFieldIsSilent == [][locked => Len(requests') <= Len(requests)]_vars

\* An answer never takes back what the user has typed while it was on its way; the settings
\* alone correct the very text that was sent, unless stores or answers overtook one another.
\* The answer to a switch of the connection may replace it, which ends the calm (Switch).
EditSurvivesAnswers ==
    [][\A i \in DOMAIN requests : AnswerLands(i) => draft' \in {draft, Stored(draft)} \/ ~calm']_vars

\* What was typed last is sent in the end, however many answers, failures and other edits
\* come in between, as long as the user keeps to it and no event has ended the calm.
TypedTextIsSent == (unsent # {} /\ SendsWhatIsTyped) ~> (unsent = {} \/ ~calm)

\* When nothing is pending and the icon says Saved, the server has what the user typed.
\* Not so after the events that end the calm: an edit back to the saved text while another
\* is stored or on its way; stores, answers or the reading back of answers that overtake
\* one another or are taken for one another; a lock on a field with unsaved text; a failed
\* save of the reading editor, whose icon is gone by then; a switch of the connection that
\* fails, or over unsaved text, or answered over text typed since; a reading editor that opens
\* while a save is out or on a text that is no longer the stored one.
SavedIsStored ==
    calm /\ SendsWhatIsTyped /\ ~Pending /\ (IF form = "prose" THEN ~open ELSE phase = "synced")
    => server = Stored(typed)
=============================================================================
