------------------------------ MODULE LiveSync ------------------------------
(***************************************************************************)
(* An open chat page and the server it follows. Three channels bring news: *)
(* the event stream of the chat (stream_chat, read by the page's           *)
(* ReconnectingEventSource), fetches of the message list, and the poll of  *)
(* the sidebar. They overlap, fail, and stop while the tab is hidden; the  *)
(* page must show what the server has in spite of that.                    *)
(*                                                                         *)
(* The server's side is what the page can tell apart of it: the texts of   *)
(* the chat's replies, the reply whose job is queued or running, and       *)
(* chats.updated_at. Whoever changes them (requests of any page, the task  *)
(* of the job, a cancel) does so between any two reads.                    *)
(*                                                                         *)
(* Every closure of the page holds handles of its state. Whether a handle  *)
(* yields the value of the render it was made in (yew 0.21, which the      *)
(* lock file pins) or the latest one is a choice made once: the page must  *)
(* come right under both.                                                  *)
(***************************************************************************)
EXTENDS Integers, Sequences

CONSTANTS
    Texts,      \* what a reply can say, one of them Blank
    Blank,      \* the text of a reply that was just asked for
    MaxReplies, \* bound: replies of the chat
    Budgets     \* bounds: changes of the server's state, faults (streams that break,
                \* fetches that fail) and visits (tab switches, streams made anew),
                \* one of them for a behaviour

ASSUME TextsAssumption == Blank \in Texts
ASSUME SyncBoundsAssumption ==
    MaxReplies \in Nat \ {0} /\ Budgets \subseteq [changes : Nat, faults : Nat, visits : Nat]

VARIABLES
    replies,  \* the texts of the chat's replies, oldest first
    job,      \* the reply whose job is active, 0 when there is none
    touched,  \* chats.updated_at
    stream,   \* the handler of the open stream: its step, what it read and sent last
    inbox,    \* events on their way to the page, oldest first
    hidden,   \* ReconnectingEventSource.paused: the tab is hidden or offline
    timer,    \* ReconnectingEventSource.timeout is set
    probes,   \* calls of probe_auth_session that wait for their answer
    handles,  \* which value a handle of the page's state yields
    page,     \* messages: what the page shows
    sidebar,  \* the chat's row in the sidebar
    synced,   \* messages_synced_at
    had,      \* had_active_job of the stream's callback
    made,     \* messages and messages_synced_at when that callback was made
    fetch,    \* the fetch of the latest generation
    poll,     \* the row a poll has read and not yet shown
    left      \* how many of each bounded event there may still be

server == <<replies, job, touched>>
link == <<stream, inbox, hidden, timer, probes>>
view == <<page, sidebar, synced, had, made>>
syncVars == <<server, link, handles, view, fetch, poll, left>>

None == -1
NoRow == [job |-> None, touched |-> None]
NoFetch == [at |-> None, answer |-> <<>>]
Closed == [step |-> "closed", read |-> <<>>, last |-> <<>>]
Opened == [Closed EXCEPT !.step = "chat"]

\* list_messages and the chat's row, as a read of this moment finds them.
Listing == [texts |-> replies, live |-> job # 0]
Row == [job |-> job, touched |-> touched]

Spend(event) == left[event] > 0 /\ left' = [left EXCEPT ![event] = @ - 1]

-----------------------------------------------------------------------------
(* Rules of the page (chat_sync.rs). *)

messages_stale_vs_chat(messages, chat) == messages.live /\ chat.job = 0

messages_need_refetch(messages, chat, at) ==
    \/ messages_stale_vs_chat(messages, chat)
    \/ chat.job > Len(messages.texts)
    \/ chat.job = 0 /\ at # None /\ chat.touched > at

\* A slip: idle payloads never count, as on the page of a story.
OnlyWhileActive(messages, chat) == chat.job # 0

should_apply_messages_from_sse(messages, chat) ==
    chat.job # 0 \/ ~messages_stale_vs_chat(messages, chat)

\* What *messages and *messages_synced_at yield in the stream's callback.
Seen == IF handles = "latest" THEN [page |-> page, synced |-> synced] ELSE made

\* spawn_gated_messages_fetch. An answer counts when its generation is the
\* latest, so a fetch replaces the one before. A handle that yields the value
\* of its render yields the generation before the fetch's own: no answer counts.
Asked(at) == IF handles = "latest" THEN [at |-> at, answer |-> <<>>] ELSE NoFetch
Fetching == fetch # NoFetch

-----------------------------------------------------------------------------
(* The server's state changes. *)

Change == Spend("changes")
Rest == <<link, handles, view, fetch, poll>>

\* send_message: a reply to fill in and its job.
SendMessage ==
    /\ job = 0 /\ Len(replies) < MaxReplies
    /\ Change
    /\ replies' = Append(replies, Blank)
    /\ job' = Len(replies) + 1
    /\ touched' = touched + 1
    /\ UNCHANGED Rest

\* regenerate_message of the last reply.
RegenerateMessage ==
    /\ Change
    /\ replies' = [replies EXCEPT ![Len(replies)] = Blank]
    /\ job' = Len(replies)
    /\ touched' = touched + 1
    /\ UNCHANGED Rest

\* rewind_message: the later replies go, and their jobs with them.
RewindMessage ==
    /\ Len(replies) > 1
    /\ Change
    /\ replies' = SubSeq(replies, 1, Len(replies) - 1)
    /\ job' = IF job = Len(replies) THEN 0 ELSE job
    /\ touched' = touched + 1
    /\ UNCHANGED Rest

\* A reply is rewritten. A flush of the job and an edit touch the chat; the
\* last write of a job and the placeholder of a cancelled one do not.
WriteReply(touch) ==
    /\ Change
    /\ \E text \in Texts \ {replies[Len(replies)]} :
         replies' = [replies EXCEPT ![Len(replies)] = text]
    /\ touched' = touched + IF touch THEN 1 ELSE 0
    /\ UNCHANGED <<job, Rest>>

\* complete_job, cancel_job: no touch either.
EndJob ==
    /\ job # 0
    /\ Change
    /\ job' = 0
    /\ UNCHANGED <<replies, touched, Rest>>

Server ==
    \/ SendMessage \/ RegenerateMessage \/ RewindMessage \/ EndJob
    \/ \E touch \in BOOLEAN : WriteReply(touch)

-----------------------------------------------------------------------------
(* stream_chat: three reads, one event if they differ from the last ones,  *)
(* and the end of the stream when the third finds no job. The sleep lasts  *)
(* until the page has taken what was sent.                                 *)

Step(to, read) == stream' = [stream EXCEPT !.step = to, !.read = read]
Streaming == UNCHANGED <<server, hidden, timer, probes, handles, view, fetch, poll>>

ReadChat ==
    /\ stream.step = "chat" /\ inbox = <<>>
    /\ Step("messages", <<Row>>)
    /\ UNCHANGED <<inbox, left>> /\ Streaming

ReadMessages ==
    /\ stream.step = "messages"
    /\ Step("job", Append(stream.read, Listing))
    /\ UNCHANGED <<inbox, left>> /\ Streaming

Idle == [kind |-> "idle"]
Error == [kind |-> "error"]

SendEvents ==
    /\ stream.step = "job"
    /\ LET payload == [kind |-> "message", chat |-> stream.read[1],
                       messages |-> stream.read[2], now |-> job # 0]
       IN /\ inbox' = (IF <<payload>> = stream.last THEN <<>> ELSE <<payload>>)
                      \o (IF job = 0 THEN <<Idle>> ELSE <<>>)
          /\ stream' = [step |-> IF job = 0 THEN "over" ELSE "chat",
                        read |-> <<>>, last |-> <<payload>>]
    /\ UNCHANGED left /\ Streaming

\* The connection breaks, or get_chat_detail fails and the handler says error.
StreamBreaks ==
    /\ stream.step \notin {"closed", "over"}
    /\ Spend("faults")
    /\ stream' = [Closed EXCEPT !.step = "over"]
    /\ inbox' = Append(inbox, Error)
    /\ Streaming

StreamHandler == ReadChat \/ ReadMessages \/ SendEvents

-----------------------------------------------------------------------------
(* ReconnectingEventSource. *)

\* close_source: events of a closed source are never seen.
close_source == stream' = Closed /\ inbox' = <<>>
open_source == stream' = Opened /\ inbox' = <<>>

\* connect does nothing while the page is paused.
connect ==
    IF hidden THEN UNCHANGED <<stream, inbox, timer>> ELSE open_source /\ timer' = FALSE

\* schedule_reconnect_after does nothing while the page is paused.
schedule == timer' = (timer \/ ~hidden)

TimerFires ==
    /\ timer
    /\ connect
    /\ UNCHANGED <<server, hidden, probes, handles, view, fetch, poll, left>>

OnIdle ==
    /\ inbox # <<>> /\ Head(inbox) = Idle
    /\ close_source
    /\ schedule
    /\ UNCHANGED <<server, hidden, probes, handles, view, fetch, poll, left>>

\* onerror asks /api/health before it schedules anything.
OnError ==
    /\ inbox # <<>> /\ Head(inbox) = Error
    /\ close_source
    /\ probes' = probes + 1
    /\ UNCHANGED <<server, hidden, timer, handles, view, fetch, poll, left>>

\* A slip: the probe schedules nothing.
ProbeForgets ==
    /\ probes > 0
    /\ probes' = probes - 1
    /\ UNCHANGED <<server, stream, inbox, hidden, timer, handles, view, fetch, poll, left>>

\* probe_auth_session goes on whether or not the request reached the server.
ProbeEnds ==
    /\ probes > 0
    /\ probes' = probes - 1
    /\ schedule
    /\ UNCHANGED <<server, stream, inbox, hidden, handles, view, fetch, poll, left>>

-----------------------------------------------------------------------------
(* What the page does with the news. *)

\* The render that follows a callback runs the effect on sidebar, page and synced
\* before the next event: it fetches again while they do not agree.
rerendered(asked) ==
    fetch' = IF sidebar' # NoRow /\ messages_need_refetch(page', sidebar', synced')
             THEN Asked(sidebar'.touched) ELSE asked

\* The callback of the ChatStream.
OnMessage ==
    /\ inbox # <<>> /\ Head(inbox).kind = "message"
    /\ LET chat == Head(inbox).chat
           messages == Head(inbox).messages
           job_just_finished ==
               \/ had /\ ~Head(inbox).now
               \/ messages_stale_vs_chat(messages, chat)
               \/ messages_need_refetch(Seen.page, chat, Seen.synced)
           shows ==
               /\ should_apply_messages_from_sse(messages, chat)
               /\ job_just_finished \/ messages # Seen.page
       IN /\ sidebar' = chat
          /\ page' = IF shows THEN messages ELSE page
          /\ synced' = IF shows THEN chat.touched ELSE synced
          /\ rerendered(IF job_just_finished THEN Asked(chat.touched) ELSE fetch)
          /\ had' = (~job_just_finished /\ (had \/ Head(inbox).now))
    /\ inbox' = Tail(inbox)
    /\ UNCHANGED <<server, stream, hidden, timer, probes, handles, made, poll, left>>

FetchReads ==
    /\ Fetching /\ fetch.answer = <<>>
    /\ fetch' = [fetch EXCEPT !.answer = <<Listing>>]
    /\ UNCHANGED <<server, link, handles, view, poll, left>>

FetchLands ==
    /\ Fetching /\ fetch.answer # <<>>
    /\ page' = fetch.answer[1]
    /\ synced' = IF fetch.at = None THEN synced ELSE fetch.at
    /\ UNCHANGED <<server, link, handles, sidebar, had, made, poll, left>>
    /\ rerendered(NoFetch)

FetchFails ==
    /\ Fetching
    /\ Spend("faults")
    /\ fetch' = NoFetch
    /\ UNCHANGED <<server, link, handles, view, poll>>

\* A poll tick reads list_chats only in an active tab.
PollReads ==
    /\ ~hidden /\ poll = NoRow
    /\ poll' = Row
    /\ UNCHANGED <<server, link, handles, view, fetch, left>>

PollLands ==
    /\ poll # NoRow
    /\ sidebar' = poll
    /\ poll' = NoRow
    /\ UNCHANGED <<server, link, handles, page, synced, had, made, left>>
    /\ rerendered(IF messages_need_refetch(page, poll, synced)
                  THEN Asked(poll.touched) ELSE fetch)

-----------------------------------------------------------------------------
(* What the user does with the tab. *)

\* pause_all. A poll that was sent goes on.
Hide ==
    /\ ~hidden
    /\ Spend("visits")
    /\ hidden' = TRUE
    /\ timer' = FALSE
    /\ close_source
    /\ UNCHANGED <<server, probes, handles, view, fetch, poll>>

\* reconcile, after a return or an online event: the stream resumes, the
\* messages are fetched, and a poll follows (PollReads).
Reconcile ==
    /\ Spend("visits")
    /\ hidden' = FALSE
    /\ timer' = FALSE
    /\ open_source
    /\ fetch' = Asked(sidebar.touched)
    /\ UNCHANGED <<server, probes, handles, view, poll>>

\* The effect that opens the chat, run again by bump_stream: the old stream is
\* stopped, probes of it end in nothing, and a new callback is made.
Reopen ==
    /\ ~hidden
    /\ Spend("visits")
    /\ made' = [page |-> page, synced |-> synced]
    /\ synced' = None
    /\ had' = FALSE
    /\ timer' = FALSE
    /\ probes' = 0
    /\ open_source
    /\ UNCHANGED <<server, hidden, handles, page, sidebar, poll>>
    /\ rerendered(Asked(sidebar.touched))

-----------------------------------------------------------------------------
\* The page has just opened the chat.
NoMessages == [texts |-> <<>>, live |-> FALSE]

SyncInit ==
    /\ \E text \in Texts : /\ replies = <<text>>
                          /\ job = IF text = Blank THEN 1 ELSE 0
    /\ touched = 0
    /\ stream = Opened /\ inbox = <<>>
    /\ hidden = FALSE /\ timer = FALSE /\ probes = 0
    /\ handles \in {"render", "latest"}
    /\ page = NoMessages /\ sidebar = NoRow /\ synced = None
    /\ had = FALSE /\ made = [page |-> NoMessages, synced |-> None]
    /\ fetch = Asked(None) /\ poll = NoRow
    /\ left \in Budgets

Page ==
    \/ OnMessage \/ OnIdle \/ OnError \/ TimerFires \/ ProbeEnds
    \/ FetchReads \/ FetchLands \/ PollReads \/ PollLands

SyncNext ==
    \/ Server
    \/ StreamHandler
    \/ Page
    \/ StreamBreaks \/ FetchFails
    \/ Hide \/ Reconcile \/ Reopen

\* The event loop serves every task, timers fire, requests are answered, the
\* server's handler goes on. Nothing makes the server change, the user return
\* or the network fail.
Fairness ==
    /\ WF_syncVars(StreamHandler)
    /\ WF_syncVars(OnMessage \/ OnIdle \/ OnError)
    /\ WF_syncVars(TimerFires) /\ WF_syncVars(ProbeEnds)
    /\ WF_syncVars(FetchReads \/ FetchLands) /\ WF_syncVars(PollReads \/ PollLands)

SyncSpec == SyncInit /\ [][SyncNext]_syncVars /\ Fairness

-----------------------------------------------------------------------------
(* What the page promises. *)

\* The stream of a tab in view never dies: it is open or was just left with its
\* last event unread, or a reconnect is scheduled, or a probe will schedule one. A
\* hidden tab holds no connection and no timer that would open one. Pauses,
\* returns, breaks and probes that end late come in any order.
StreamFollowsTab ==
    IF hidden THEN stream = Closed /\ ~timer
    ELSE \/ stream.step \notin {"closed", "over"}
         \/ inbox # <<>>
         \/ timer
         \/ probes > 0

\* The callback of the stream takes what the server has for what it shows
\* already: its handles still yield the list of the render that made it, and
\* that render knew no sync time that a touch could exceed.
Mistaken ==
    /\ handles = "render"
    /\ made.page = Listing
    /\ ~messages_need_refetch(made.page, Row, made.synced)

\* Once no job is active and the tab stays in view, page and sidebar come to
\* show what the server has and keep doing so, however streams, fetches and
\* polls overtook one another; except for a list that the callback mistakes.
PageConverges ==
    <>[](~hidden /\ job = 0) => <>[](sidebar = Row /\ (page = Listing \/ Mistaken))

=============================================================================
