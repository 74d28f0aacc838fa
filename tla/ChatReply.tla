----------------------------- MODULE ChatReply -----------------------------
(***************************************************************************)
(* One assistant message of a chat and everybody who writes its row: the   *)
(* tasks that generate it (run_chat_job and what it calls), cancel_job     *)
(* requests and the handler of a regenerate. A step is one SQL statement   *)
(* or one wait for the model; the writers interleave between them.         *)
(*                                                                         *)
(* The queue is reduced to what JobQueue establishes: a queued job starts  *)
(* at some time, in one task, beside the task of an older job if that one  *)
(* still runs. A text is what a reader tells apart: nothing, a thought, a  *)
(* part of the reply, all of it; and which job wrote it.                   *)
(***************************************************************************)
EXTENDS Integers, FiniteSets, Functions

CONSTANTS
    Jobs,        \* ids of the ChatMessage jobs of the message, in creation order
    Canceller,   \* the handler of cancel_job requests
    Regenerator, \* the handler of regenerate requests
    Modes,       \* the settings: variables_enabled, thought_blocks_enabled
    MaxAttempts, \* DREAMWELL_GENERATION_MAX_RETRIES
    MaxRequests, \* bound: cancel and regenerate requests, for each of the settings
    MaxFaults    \* bound: crashes and failures of the model, for each of the settings

Handlers == {Canceller, Regenerator}
Actors == Jobs \cup Handlers
ModeTypes == [typed : BOOLEAN, thoughts : BOOLEAN]

ASSUME JobsAssumption == Jobs \subseteq Nat \ {0} /\ IsFiniteSet(Jobs) /\ 1 \in Jobs
ASSUME HandlersAssumption == Handlers \cap Jobs = {} /\ Canceller # Regenerator
ASSUME ModesAssumption == Modes \subseteq ModeTypes /\ Modes # {}
ASSUME BoundsAssumption ==
    MaxAttempts \in Nat \ {0} /\ {MaxRequests, MaxFaults} \subseteq [ModeTypes -> Nat]

VARIABLES
    mode,     \* the settings in force
    content,  \* messages.content
    thinking, \* messages.thought_in_progress
    audit,    \* messages.state_changes: the effects it names
    effects,  \* the changes that are in chat_state_entries
    status,   \* generation_jobs.status of each job
    pc,       \* where each task or handler is; "none" when there is none
    run,      \* run[j]: the latest execution of job j
    subject,  \* the job a handler deals with
    regen,    \* the audit and the active jobs that a regenerate has read
    used,     \* how many of each event there were
    busy      \* ghost: a regenerate met a job or a handler at work, or a crash

row == <<content, thinking, audit>>
state == <<effects, status>>
requests == <<subject, regen, busy>>
control == <<requests, used>>
vars == <<mode, row, state, pc, run, control>>

Active == {"queued", "running"}

\* How far the text of an attempt is.
Progress == <<"none", "thought", "partial", "whole">>
Empty == [text |-> "empty", by |-> 0]
Placeholder == [text |-> "placeholder", by |-> 0]

\* The effects of an attempt: those of its plan, those of a tool call.
Effect(j, n, phase) == <<j, n, phase>>

Fresh == [attempt |-> 0, text |-> "none", applied |-> {},
          seen |-> Empty, next |-> "none", token |-> "clear"]

NothingRead == [snapshot |-> {}, todo |-> {}]

Latest == CHOOSE j \in Jobs : status[j] # "none" /\ \A i \in Jobs : i > j => status[i] = "none"
Job(a) == IF a \in Jobs THEN a ELSE subject[a]

MayAsk == used.cancels + used.regenerates < MaxRequests[mode]
MayFail == used.crashes + used.failures < MaxFaults[mode]
Count(event) == used' = [used EXCEPT ![event] = @ + 1]

At(a, place) == pc[a] = place
Goto(a, place) == pc' = [pc EXCEPT ![a] = place]
Cancelled(j) == run[j].token = "cancelled"

\* A task that is cancelled goes to record it. It looks at its token together with
\* the statement before: a signal that comes between the two could as well have come
\* before both.
Unless(j, place) == IF Cancelled(j) THEN "rechecking" ELSE place

\* The steps of task j that only change where it is, or also its own run.
Move(j, place) == Goto(j, place) /\ UNCHANGED <<mode, row, state, run, control>>
Update(j, place, new) ==
    /\ Goto(j, place)
    /\ run' = [run EXCEPT ![j] = new]
    /\ UNCHANGED <<mode, row, state, control>>

Init ==
    /\ mode \in Modes
    /\ content = Empty
    /\ thinking = FALSE
    /\ audit = {}
    /\ effects = {}
    /\ status = [j \in Jobs |-> IF j = 1 THEN "queued" ELSE "none"]
    /\ pc = [a \in Actors |-> "none"]
    /\ run = [j \in Jobs |-> Fresh]
    /\ subject = [h \in Handlers |-> 1]
    /\ regen = NothingRead
    /\ used = [cancels |-> 0, regenerates |-> 0, crashes |-> 0, failures |-> 0]
    /\ busy = FALSE

-----------------------------------------------------------------------------
(* The text of a message                                                    *)

HasReply(text) == text \in {"partial", "whole"}
\* What parse_thought_blocks leaves of a text as reply.
Reply(j) == IF HasReply(run[j].text) THEN [text |-> run[j].text, by |-> j] ELSE Empty

\* merge_generation_fields: an empty reply does not replace a text.
MergedContent(seen, reply) == IF reply = Empty THEN seen ELSE reply
MergedThinking(seen, reply, inProgress) ==
    IF reply = Empty /\ seen # Empty THEN FALSE ELSE inProgress

\* update_message_generation: the SELECT,
ReadRow(j, next) == Update(j, "merging", [run[j] EXCEPT !.seen = content, !.next = next])

\* and the UPDATE, in which the last write of a typed reply saves the audit too.
Merge(j) ==
    /\ At(j, "merging")
    /\ LET next == run[j].next
           inProgress == run[j].text = "thought" /\ next \in {"streaming", "turning"}
       IN /\ content' = MergedContent(run[j].seen, Reply(j))
          /\ thinking' = MergedThinking(run[j].seen, Reply(j), inProgress)
          /\ audit' = IF mode.typed /\ next = "completing" THEN run[j].applied ELSE audit
          /\ Goto(j, next)
    /\ run' = [run EXCEPT ![j].seen = Empty, ![j].next = "none"]
    /\ UNCHANGED <<mode, state, control>>

-----------------------------------------------------------------------------
(* cancel_job and cancel_job_record. The latter is called by the handler of *)
(* a request, by a regenerate, and by a task that notices its token.        *)

Quiet == \A a \in Actors : pc[a] = "none"

\* Where an actor goes on after cancel_job_record.
AfterRecord(a) == IF a = Regenerator THEN "cancelling" ELSE "none"
\* A regenerate ticks the job off.
TickOff(a, place) ==
    regen' = IF a = Regenerator /\ place = AfterRecord(a)
             THEN [regen EXCEPT !.todo = @ \ {subject[a]}] ELSE regen

\* cancel_job reads the row of j: an inactive job is refused.
CancelRequest(j) ==
    /\ At(Canceller, "none")
    /\ MayAsk
    /\ status[j] \in Active
    /\ Count("cancels")
    /\ subject' = [subject EXCEPT ![Canceller] = j]
    /\ Goto(Canceller, IF status[j] = "running" THEN "signalling" ELSE "rechecking")
    /\ UNCHANGED <<mode, row, state, run, regen, busy>>

\* It cancels the token, if the task is there.
CancelSignal(h) ==
    /\ At(h, "signalling")
    /\ run' = IF pc[subject[h]] = "none" THEN run
              ELSE [run EXCEPT ![subject[h]].token = "cancelled"]
    /\ Goto(h, "rechecking")
    /\ UNCHANGED <<mode, row, state, control>>

\* A job that is no longer active keeps its status and its message.
CancelRecheck(a) ==
    /\ At(a, "rechecking")
    /\ LET place == IF status[Job(a)] \in Active THEN "recording" ELSE AfterRecord(a)
       IN Goto(a, place) /\ TickOff(a, place)
    /\ UNCHANGED <<mode, row, state, run, subject, used, busy>>

Settle(a, st) == status' = [status EXCEPT ![Job(a)] = st]

CancelRecord(a) ==
    /\ At(a, "recording")
    /\ Settle(a, "cancelled")
    /\ Goto(a, "looking")
    /\ UNCHANGED <<mode, row, effects, run, control>>

\* A slip: a cancelled message is left as it is.
CancelWithoutLooking(a) ==
    /\ At(a, "looking")
    /\ Goto(a, "calming")
    /\ UNCHANGED <<mode, row, state, run, control>>

\* It lists the messages: an empty one gets a placeholder.
CancelLook(a) ==
    /\ At(a, "looking")
    /\ Goto(a, IF content = Empty THEN "marking" ELSE "calming")
    /\ UNCHANGED <<mode, row, state, run, control>>

CancelMark(a) ==
    /\ At(a, "marking")
    /\ content' = Placeholder
    /\ Goto(a, "calming")
    /\ UNCHANGED <<mode, thinking, audit, state, run, control>>

CancelCalm(a) ==
    /\ At(a, "calming")
    /\ thinking' = FALSE
    /\ Goto(a, AfterRecord(a))
    /\ TickOff(a, AfterRecord(a))
    /\ UNCHANGED <<mode, content, audit, state, run, subject, used, busy>>

CancelNext ==
    \/ \E j \in Jobs : CancelRequest(j)
    \/ \E h \in Handlers : CancelSignal(h)
    \/ \E a \in Actors : CancelRecheck(a) \/ CancelRecord(a) \/ CancelLook(a)
                         \/ CancelMark(a) \/ CancelCalm(a)

-----------------------------------------------------------------------------
(* run_job and run_chat_job                                                 *)

\* The worker claims the job and spawns its task.
Start(j) ==
    /\ At(j, "none")
    /\ status[j] = "queued"
    /\ status' = [status EXCEPT ![j] = "running"]
    /\ run' = [run EXCEPT ![j] = Fresh]
    /\ Goto(j, "loading")
    /\ UNCHANGED <<mode, row, effects, control>>

Load(j) ==
    /\ At(j, "loading")
    /\ Move(j, IF status[j] = "running" THEN Unless(j, "begin") ELSE "none")

FirstPhase == IF mode.typed THEN "planning" ELSE "opening"

\* A message that has a text, and no thought in progress, is not generated again.
Begin(j) ==
    /\ At(j, "begin")
    /\ IF content # Empty /\ ~thinking THEN Move(j, "completing")
       ELSE Update(j, Unless(j, FirstPhase), [run[j] EXCEPT !.attempt = 1])

ClearContent(j) ==
    /\ At(j, "clearing")
    /\ content' = Empty
    /\ Goto(j, "forgetting")
    /\ UNCHANGED <<mode, thinking, audit, state, run, control>>

\* clear_message_thoughts, of a retry or before the prose of a typed reply.
ClearThoughts(j) ==
    /\ At(j, "forgetting") \/ At(j, "unthinking")
    /\ thinking' = FALSE
    /\ Goto(j, IF At(j, "forgetting") THEN "backoff" ELSE "streaming")
    /\ UNCHANGED <<mode, content, audit, state, run, control>>

\* wait_for_generation_retry returns early when the token is cancelled.
Backoff(j) ==
    /\ At(j, "backoff")
    /\ Move(j, Unless(j, FirstPhase))

\* Retryable: the next attempt starts with no text; the last one gives up.
Retry(j) ==
    /\ IF run[j].attempt = MaxAttempts THEN Goto(j, "givingUp") /\ UNCHANGED run
       ELSE /\ Goto(j, Unless(j, "clearing"))
            /\ run' = [run EXCEPT ![j] = [run[j] EXCEPT !.attempt = run[j].attempt + 1,
                                                        !.text = "none", !.applied = {}]]
    /\ Count("failures")
    /\ UNCHANGED <<mode, row, state, requests>>

\* fail_chat_message_generation: a placeholder if there is no text, thinking ends;
\* then complete_job(Failed).
GiveUp(j) ==
    /\ At(j, "givingUp")
    /\ Move(j, IF content = Empty THEN "apologizing" ELSE "settlingThought")

Apologize(j) ==
    /\ At(j, "apologizing")
    /\ content' = Placeholder
    /\ Goto(j, "settlingThought")
    /\ UNCHANGED <<mode, thinking, audit, state, run, control>>

SettleThought(j) ==
    /\ At(j, "settlingThought")
    /\ thinking' = FALSE
    /\ Goto(j, "failing")
    /\ UNCHANGED <<mode, content, audit, state, run, control>>

\* complete_job, at the end of a handler.
Complete(j) ==
    /\ \/ At(j, "completing") /\ Settle(j, "completed") /\ Goto(j, "none")
       \/ At(j, "failing") /\ Settle(j, "failed") /\ Goto(j, "none")
       \/ At(j, "breaking") /\ Settle(j, "failed") /\ Goto(j, "keeping")
    /\ UNCHANGED <<mode, row, effects, run, control>>

JobNext == \E j \in Jobs :
    \/ Start(j) \/ Load(j) \/ Begin(j) \/ ClearContent(j)
    \/ ClearThoughts(j) \/ Backoff(j) \/ GiveUp(j) \/ Apologize(j) \/ SettleThought(j)
    \/ Complete(j)

-----------------------------------------------------------------------------
(* The plan of a typed reply (run_chat_typed_generation_attempt)            *)

Planned(j) == Effect(j, run[j].attempt, "plan")

\* The model plans: an error (a cancelled token is one) is retried; state changes
\* are applied at once.
Plan(j) ==
    /\ At(j, "planning")
    /\ \/ MayFail /\ Retry(j)
       \/ Cancelled(j) /\ Move(j, "rechecking")
       \/ /\ ~Cancelled(j)
          /\ effects' = effects \cup {Planned(j)}
          /\ run' = [run EXCEPT ![j].applied = {Planned(j)}]
          /\ Goto(j, "savingPlan")
          /\ UNCHANGED <<mode, row, status, control>>

\* A slip: what the tools changed is not audited.
SavePlannedOnly(j) == audit' = run[j].applied \cap {Planned(j)}

\* save_message_plan and update_message_state_changes: the audit is replaced by
\* what this attempt applied.
SaveAudit(j) == audit' = run[j].applied

SavePlan(j) ==
    /\ At(j, "savingPlan")
    /\ SaveAudit(j)
    /\ Goto(j, Unless(j, IF mode.thoughts THEN "unthinking" ELSE "streaming"))
    /\ UNCHANGED <<mode, content, thinking, state, run, control>>

-----------------------------------------------------------------------------
(* The stream of the reply (run_chat_legacy_generation_attempt and, for a    *)
(* typed reply, run_chat_prose_pass)                                         *)

Open(j) ==
    /\ At(j, "opening")
    /\ Move(j, "streaming") \/ (MayFail /\ Retry(j))

Later(text) ==
    LET Rank(p) == CHOOSE i \in DOMAIN Progress : Progress[i] = p
    IN {Progress[i] : i \in {k \in DOMAIN Progress : k > Rank(text) /\ k <= Rank(text) + 2}}

\* A piece arrives. The throttle lets some texts be written and not others, though
\* the first of a legacy reply always; with thought blocks a write reads the row first.
Piece(j) ==
    /\ At(j, "streaming")
    /\ ~Cancelled(j)
    /\ \E text \in Later(run[j].text) :
        /\ text = "thought" => mode.thoughts
        /\ \/ /\ mode.typed \/ run[j].text # "none"
              /\ Update(j, "streaming", [run[j] EXCEPT !.text = text])
           \/ /\ mode.thoughts
              /\ Update(j, "merging", [run[j] EXCEPT !.text = text, !.seen = content, !.next = "streaming"])
           \/ /\ ~mode.thoughts
              /\ run' = [run EXCEPT ![j].text = text]
              /\ content' = [text |-> text, by |-> j]
              /\ UNCHANGED <<mode, thinking, audit, state, pc, control>>

\* With the next piece the task notices its token: in the prose pass of a typed
\* reply that is an error, and retried like any other.
NoticeCancel(j) ==
    /\ At(j, "streaming")
    /\ Cancelled(j)
    /\ IF mode.typed THEN Retry(j) ELSE Move(j, "rechecking")

\* The stream breaks: what a legacy reply has by then is kept.
Break(j) ==
    /\ At(j, "streaming")
    /\ MayFail
    /\ \/ /\ mode.typed \/ run[j].text = "none"
          /\ Retry(j)
       \/ /\ ~mode.typed /\ run[j].text # "none"
          /\ Goto(j, "breaking")
          /\ Count("failures")
          /\ UNCHANGED <<mode, row, state, run, requests>>

Keep(j) ==
    /\ At(j, "keeping")
    /\ IF mode.thoughts THEN ReadRow(j, "none")
       ELSE /\ thinking' = FALSE
            /\ Goto(j, "none")
            /\ UNCHANGED <<mode, content, audit, state, run, control>>

\* The stream of a typed reply ends: its text is written, then its tool calls run,
\* and another stream follows them. Without one the reply is whole, less what was
\* written as a tool call in the text and is cut out of it.
EndTyped(j) ==
    /\ At(j, "streaming") /\ mode.typed
    /\ Move(j, "ending")

Tool(j) == Effect(j, run[j].attempt, "tool")
Turn(j) ==
    /\ At(j, "turning")
    /\ \/ Tool(j) \notin run[j].applied /\ Move(j, "tooling")
       \/ /\ run[j].text # "partial" \/ Tool(j) \in run[j].applied
          /\ LET all == IF run[j].text = "partial" THEN "whole" ELSE run[j].text
             IN \E text \in {all} \cup {t \in {"none"} : MayFail} :
                    Update(j, "closing", [run[j] EXCEPT !.text = text])

EndLegacy(j) ==
    /\ At(j, "streaming") /\ ~mode.typed
    /\ run[j].text = "whole" \/ (run[j].text # "partial" /\ MayFail)
    /\ Move(j, "checking")

\* A state tool applies its changes; a marker in the text shows where.
CallTool(j) ==
    /\ At(j, "tooling")
    /\ effects' = effects \cup {Tool(j)}
    /\ run' = [run EXCEPT ![j].applied = @ \cup {Tool(j)},
                          ![j].text = IF @ = "none" THEN "partial" ELSE @]
    /\ Goto(j, "auditing")
    /\ UNCHANGED <<mode, row, status, control>>

AuditTool(j) ==
    /\ At(j, "auditing")
    /\ SaveAudit(j)
    /\ Goto(j, "flushing")
    /\ UNCHANGED <<mode, content, thinking, state, run, control>>

\* The writes of a typed reply that no throttle holds back, and where each leads.
Forced == [ending |-> "turning", flushing |-> "streaming", closing |-> "checking"]

\* finalize_message_prose
WriteProse(j) ==
    /\ pc[j] \in DOMAIN Forced
    /\ IF mode.thoughts THEN ReadRow(j, Forced[pc[j]])
       ELSE /\ content' = Reply(j)
            /\ Goto(j, Forced[pc[j]])
            /\ UNCHANGED <<mode, thinking, audit, state, run, control>>

\* Nothing visible is retried; a typed reply may consist of a thought.
Presentable(j) == HasReply(run[j].text) \/ (mode.typed /\ run[j].text = "thought")

Check(j) ==
    /\ At(j, "checking")
    /\ \/ Cancelled(j) /\ Move(j, "rechecking")
       \/ ~Cancelled(j) /\ ~Presentable(j) /\ Retry(j)
       \/ /\ ~Cancelled(j) /\ Presentable(j)
          /\ Move(j, IF mode.typed \/ mode.thoughts THEN "finalizing" ELSE "completing")

\* finalize_message_generation and finalize_message_typed_generation.
Finalize(j) ==
    /\ At(j, "finalizing")
    /\ ReadRow(j, "completing")

\* The three functions; a piece, a cancel and a break are met by either stream.
TypedAttempt(j) == mode.typed /\ (Plan(j) \/ SavePlan(j) \/ Check(j) \/ Finalize(j))
ProsePass(j) ==
    /\ mode.typed
    /\ \/ Piece(j) \/ NoticeCancel(j) \/ Break(j)
       \/ EndTyped(j) \/ Turn(j) \/ CallTool(j) \/ AuditTool(j) \/ WriteProse(j)
LegacyAttempt(j) ==
    /\ ~mode.typed
    /\ \/ Open(j) \/ Piece(j) \/ NoticeCancel(j) \/ Break(j) \/ Keep(j)
       \/ EndLegacy(j) \/ Check(j) \/ Finalize(j)

GenerationNext == \E j \in Jobs :
    TypedAttempt(j) \/ ProsePass(j) \/ LegacyAttempt(j) \/ Merge(j)

-----------------------------------------------------------------------------
(* regenerate_message: the message is the last of its chat, so that the      *)
(* rewind has nothing to delete.                                             *)

NextJob == CHOOSE j \in Jobs : status[j] = "none" /\ \A i \in Jobs : i < j => status[i] # "none"

\* It reads the message with its audit.
RegenRequest ==
    /\ At(Regenerator, "none")
    /\ MayAsk
    /\ \E j \in Jobs : status[j] = "none"
    /\ Count("regenerates")
    /\ regen' = [snapshot |-> audit, todo |-> {}]
    /\ busy' = (busy \/ ~Quiet \/ \E j \in Jobs : status[j] \in Active)
    /\ Goto(Regenerator, "reverting")
    /\ UNCHANGED <<mode, row, state, run, subject>>

\* Move of the handler: it reads or writes nothing but its own state.
RegenStep(place) == Goto(Regenerator, place) /\ UNCHANGED <<mode, row, run, subject, used, busy>>

\* revert_message_state_changes.
Revert ==
    /\ At(Regenerator, "reverting")
    /\ effects' = IF mode.typed THEN effects \ regen.snapshot ELSE effects
    /\ regen' = NothingRead
    /\ RegenStep("listing")
    /\ UNCHANGED status

\* list_active_jobs_for_message.
ListActive ==
    /\ At(Regenerator, "listing")
    /\ regen' = [regen EXCEPT !.todo = {j \in Jobs : status[j] \in Active}]
    /\ RegenStep("cancelling")
    /\ UNCHANGED state

\* It cancels them one by one; one that has settled meanwhile is an error, and the
\* request ends with what it has done.
CancelOne ==
    /\ At(Regenerator, "cancelling")
    /\ \E j \in regen.todo :
        /\ \A i \in regen.todo : j <= i
        /\ subject' = [subject EXCEPT ![Regenerator] = j]
        /\ \/ /\ status[j] \in Active
              /\ Goto(Regenerator, IF status[j] = "running" THEN "signalling" ELSE "rechecking")
              /\ UNCHANGED regen
           \/ /\ status[j] \notin Active
              /\ Goto(Regenerator, "none")
              /\ regen' = NothingRead
    /\ UNCHANGED <<mode, row, state, run, used, busy>>

AllCancelled ==
    /\ At(Regenerator, "cancelling")
    /\ regen.todo = {}
    /\ RegenStep("clearing")
    /\ UNCHANGED <<state, regen>>

\* A slip: the text stays.
KeepText == content

\* The text, the thoughts, the audit: one UPDATE each.
ClearedText == Empty

ClearRow ==
    /\ \/ /\ At(Regenerator, "clearing")
          /\ content' = ClearedText
          /\ Goto(Regenerator, "forgetting")
          /\ UNCHANGED <<thinking, audit>>
       \/ /\ At(Regenerator, "forgetting")
          /\ thinking' = FALSE
          /\ Goto(Regenerator, "untyping")
          /\ UNCHANGED <<content, audit>>
       \/ /\ At(Regenerator, "untyping")
          /\ audit' = {}
          /\ Goto(Regenerator, "enqueueing")
          /\ UNCHANGED <<content, thinking>>
    /\ UNCHANGED <<mode, state, run, control>>

EnqueueAgain ==
    /\ At(Regenerator, "enqueueing")
    /\ status' = [status EXCEPT ![NextJob] = "queued"]
    /\ RegenStep("none")
    /\ UNCHANGED <<effects, regen>>

RegenNext ==
    \/ RegenRequest \/ Revert \/ ListActive \/ CancelOne \/ AllCancelled
    \/ ClearRow \/ EnqueueAgain

-----------------------------------------------------------------------------
\* The process crashes and restarts: tasks and handlers are gone, running jobs are
\* queued again.
Crash ==
    /\ MayFail
    /\ Count("crashes")
    /\ status' = [j \in Jobs |-> IF status[j] = "running" THEN "queued" ELSE status[j]]
    /\ pc' = [a \in Actors |-> "none"]
    /\ busy' = (busy \/ ~At(Regenerator, "none"))
    /\ UNCHANGED <<mode, row, effects, run, subject, regen>>

Next == CancelNext \/ JobNext \/ GenerationNext \/ RegenNext \/ Crash

Spec == Init /\ [][Next]_vars

-----------------------------------------------------------------------------
(* Properties                                                               *)

AtRest == Quiet /\ status[Latest] \notin Active
Retried == \E j \in Jobs : run[j].attempt > 1
Crashed == used.crashes > 0
\* The text is written as it comes and never taken back by the job itself.
Streamed == ~mode.typed /\ ~mode.thoughts /\ ~Retried

\* A streamed message whose generation has ended shows something: the reply, what
\* came of it, or a placeholder, whoever of the stream, the failure, a cancel and a
\* regenerate beside them wrote last. So does any message without thought blocks
\* that completed or failed without a regenerate at work. Elsewhere a late write of
\* an empty text can replace the placeholder (cancel_job_record,
\* fail_chat_message_generation).
SettledReplyHasText ==
    /\ AtRest
    /\ \/ Streamed /\ ~Crashed
       \/ ~mode.thoughts /\ ~busy /\ status[Latest] # "cancelled"
    => content # Empty

\* Undisturbed by crashes, retries and regenerates of a message at work, the audit
\* names exactly the changes that are in the table once the generation has ended,
\* however it ended and whenever it was cancelled: a regenerate undoes them all
\* and no other (save_message_plan, update_message_state_changes).
AuditMatchesEffects ==
    Quiet /\ ~Crashed /\ ~Retried /\ ~busy => audit = effects

\* A job reported as completed, with thought blocks or typed state, has left all of
\* its own reply in the message, after however many attempts, unless it was
\* cancelled, or disturbed by a crash or by a regenerate of a message at work.
\* A plain reply does not: what the throttle held back is never written.
CompletedReplyIsWhole ==
    LET j == Latest IN
    /\ AtRest /\ ~Crashed /\ used.cancels = 0 /\ ~busy
    /\ status[j] = "completed" /\ (mode.typed \/ mode.thoughts)
    => content = Reply(j) /\ run[j].text \in {"whole", "thought"} /\ ~thinking
=============================================================================
