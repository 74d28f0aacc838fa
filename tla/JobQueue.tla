------------------------------ MODULE JobQueue ------------------------------
(***************************************************************************)
(* The shared generation queue of the server (crates/server/src/queue.rs   *)
(* and the generation_jobs functions of db.rs): one worker loop that       *)
(* requeues, claims and spawns, one task per claimed job, cancel requests  *)
(* arriving from HTTP handlers, and a process that may crash and restart.  *)
(* Every step below is the code between two awaits of its thread: one SQL  *)
(* statement or transaction, or one critical section of the token map.     *)
(*                                                                         *)
(* Time is not modelled: a running row may be older than                   *)
(* STUCK_JOB_MAX_AGE_SECS whenever the worker looks.                       *)
(***************************************************************************)
EXTENDS Integers, FiniteSets

CONSTANTS
    Jobs,        \* ids of generation_jobs rows, numbered in creation order
    Kind,        \* Kind[j]: how the handler of j treats its cancellation token
    Story,       \* Story[j]: the story whose outline j rewrites, or NoStory
    NoStory,
    ClaimLimit,  \* the limit the worker passes to claim_jobs
    DefaultCap,  \* DREAMWELL_MAX_CONCURRENT_JOBS
    Requests,    \* the values a settings request may give max_concurrent_jobs
    Slots,       \* bound: how many tasks of one job can be alive together
    NoSlot,
    Cancellable, \* bound: the jobs somebody may ask to cancel
    Deletable,   \* bound: the jobs whose message, story, beat... may be deleted
    Ageable,     \* bound: the jobs that may outlive STUCK_JOB_MAX_AGE_SECS
    Panicking,   \* bound: the jobs whose handler may panic
    MaxCrashes,  \* bound: crashes of the process
    MaxFaults    \* bound: failed SQL statements, dropped requests and panics

\* "stream" polls its token while it generates (chat replies, outlines, prose);
\* "once" looks at it only before it starts (rechecks, summaries, mechanicals);
\* "turn" answers a token cancelled while it works with Err (game turns); "summarize" is a
\* "once" whose row goes away with its marker message (ON DELETE CASCADE).
Kinds == {"stream", "once", "turn", "summarize"}

ASSUME JobsAssumption == Jobs \subseteq Nat /\ IsFiniteSet(Jobs)
ASSUME KindAssumption == Kind \in [Jobs -> Kinds]
ASSUME CapAssumption == Requests \subseteq Int /\ DefaultCap \in Nat \ {0}
ASSUME ClaimLimitAssumption == ClaimLimit \in Nat
ASSUME SlotsAssumption == NoSlot \notin Slots
ASSUME BoundsAssumption ==
    /\ Ageable \subseteq Jobs
    /\ MaxCrashes \in Nat
    /\ MaxFaults \in Nat

VARIABLES
    status,    \* generation_jobs.status; "none" before the INSERT, "deleted" after it is gone
    cap,       \* MAX_CONCURRENT_JOBS
    up,        \* the server process runs
    wake,      \* a message waits in the work channel
    tokens,    \* active_tokens: the task whose token the map holds for a job
    task,      \* task[j][s]: where the task in slot s of job j is, and its token
    worker,    \* the worker loop: where it is, and the ids it has in hand
    submitter, \* enqueued rows whose handler has not called wake yet
    canceller, \* canceller[j]: where a cancel_job call for j is
    crashes,
    faults

volatile == <<wake, tokens, task, worker, submitter, canceller>>
bounds == <<crashes, faults>>
vars == <<status, cap, up, volatile, bounds>>

Active == {"queued", "running"}
Settled == {"completed", "failed", "cancelled"}
Status == {"none", "deleted"} \cup Active \cup Settled

TaskPC == {"none", "loading", "checking", "working", "completing", "failing",
           "cancelling", "cancelWriting", "guarding", "lastFailing", "cleaning",
           "exiting"}
WorkerPC == {"waiting", "listed", "requeueing", "stuck", "claiming", "spawning"}
CancelPC == {"idle", "signalling", "rechecking", "writing", "cleaning", "waking"}

NoTask == [pc |-> "none", token |-> "clear"]
Waiting == [pc |-> "waiting", ids |-> {}]

Queued == {j \in Jobs : status[j] = "queued"}
Running == {j \in Jobs : status[j] = "running"}
Live(j) == {s \in Slots : task[j][s].pc # "none"}
Exists(j) == status[j] \in Active \cup Settled

At(j, s, pc) == up /\ task[j][s].pc = pc
Goto(j, s, pc) == task' = [task EXCEPT ![j][s].pc = pc]
Signal(j, s) == task' = [task EXCEPT ![j][s].token = "cancelled"]

Fault ==
    /\ faults < MaxFaults
    /\ faults' = faults + 1
    /\ UNCHANGED crashes

Init ==
    /\ status = [j \in Jobs |-> "none"]
    /\ cap = DefaultCap
    /\ up = TRUE
    /\ wake = TRUE
    /\ tokens = [j \in Jobs |-> NoSlot]
    /\ task = [j \in Jobs |-> [s \in Slots |-> NoTask]]
    /\ worker = Waiting
    /\ submitter = {}
    /\ canceller = [j \in Jobs |-> "idle"]
    /\ crashes = 0
    /\ faults = 0

-----------------------------------------------------------------------------
(* Slips that the properties at the end must notice; the specification does *)
(* not use them.                                                            *)

UnclampedRequest(n) == n
UpdatedOrInserted(j, st) == [status EXCEPT ![j] = st]
RequeuedWhateverItsStatus(j) == [status EXCEPT ![j] = "queued"]
EveryListedJob == worker.ids
TokenLeftBehind(j) == tokens
SlotsIgnoringRunning == IF cap < ClaimLimit THEN cap ELSE ClaimLimit
CancelWithoutWake(j) ==
    /\ up
    /\ canceller[j] = "waking"
    /\ canceller' = [canceller EXCEPT ![j] = "idle"]
    /\ UNCHANGED <<status, cap, up, wake, tokens, task, worker, submitter, bounds>>

-----------------------------------------------------------------------------
(* HTTP handlers that create, cancel and delete jobs.                       *)

\* UPDATE generation_jobs SET status = st WHERE id = j: no row, no effect.
Updated(j, st) == IF Exists(j) THEN [status EXCEPT ![j] = st] ELSE status
Write(j, st) == status' = Updated(j, st)

\* INSERT INTO generation_jobs ... 'queued'.
Enqueue(j) ==
    /\ up
    /\ status[j] = "none"
    /\ \A i \in Jobs : i < j => status[i] # "none"
    /\ status' = [status EXCEPT ![j] = "queued"]
    /\ submitter' = submitter \cup {j}
    /\ UNCHANGED <<cap, up, wake, tokens, task, worker, canceller, bounds>>

\* The handler's queue.wake() after the INSERT.
EnqueueWake(j) ==
    /\ up
    /\ j \in submitter
    /\ submitter' = submitter \ {j}
    /\ wake' = TRUE
    /\ UNCHANGED <<status, cap, up, tokens, task, worker, canceller, bounds>>

\* Deleting the owner of a job deletes its row, whatever its status.
DeleteOwner(j) ==
    /\ up
    /\ j \in Deletable
    /\ Exists(j)
    /\ status' = [status EXCEPT ![j] = "deleted"]
    /\ UNCHANGED <<cap, up, volatile, bounds>>

\* v.max(1) in update_settings.
Clamp(n) == IF n < 1 THEN 1 ELSE n

SetConcurrency(n) ==
    /\ up
    /\ cap' = Clamp(n)
    /\ UNCHANGED <<status, up, volatile, bounds>>

\* cancel_job reads the row; an inactive one is refused.
CancelRead(j) ==
    /\ up
    /\ j \in Cancellable
    /\ canceller[j] = "idle"
    /\ status[j] \in Active
    /\ canceller' = [canceller EXCEPT
         ![j] = IF status[j] = "running" THEN "signalling" ELSE "rechecking"]
    /\ UNCHANGED <<status, cap, up, wake, tokens, task, worker, submitter, bounds>>

\* It cancels the token the map holds now, if there is one.
CancelSignal(j) ==
    /\ up
    /\ canceller[j] = "signalling"
    /\ canceller' = [canceller EXCEPT ![j] = "rechecking"]
    /\ IF tokens[j] = NoSlot THEN UNCHANGED task ELSE Signal(j, tokens[j])
    /\ UNCHANGED <<status, cap, up, wake, tokens, worker, submitter, bounds>>

\* cancel_job_record reads the row again: deleted is an error that skips the wake.
CancelRecheck(j) ==
    /\ up
    /\ canceller[j] = "rechecking"
    /\ canceller' = [canceller EXCEPT
         ![j] = CASE status[j] \in Active -> "writing"
                  [] status[j] \in Settled -> "waking"
                  [] OTHER -> "idle"]
    /\ UNCHANGED <<status, cap, up, wake, tokens, task, worker, submitter, bounds>>

\* complete_job(Cancelled), unconditional.
CancelWrite(j) ==
    /\ up
    /\ canceller[j] = "writing"
    /\ Write(j, "cancelled")
    /\ canceller' = [canceller EXCEPT
         ![j] = IF Kind[j] = "summarize" THEN "cleaning" ELSE "waking"]
    /\ UNCHANGED <<cap, up, wake, tokens, task, worker, submitter, bounds>>

\* remove_summarize_marker deletes the marker message, and the row with it.
CancelClean(j) ==
    /\ up
    /\ canceller[j] = "cleaning"
    /\ Write(j, "deleted")
    /\ canceller' = [canceller EXCEPT ![j] = "waking"]
    /\ UNCHANGED <<cap, up, wake, tokens, task, worker, submitter, bounds>>

CancelWake(j) ==
    /\ up
    /\ canceller[j] = "waking"
    /\ canceller' = [canceller EXCEPT ![j] = "idle"]
    /\ wake' = TRUE
    /\ UNCHANGED <<status, cap, up, tokens, task, worker, submitter, bounds>>

\* A statement fails, or the client goes away and the handler's future is dropped
\* at an await: what is left of the handler, its wake included, does not happen.
DropHandler(j) ==
    /\ up
    /\ Fault
    /\ \/ /\ j \in submitter
          /\ submitter' = submitter \ {j}
          /\ UNCHANGED canceller
       \/ /\ canceller[j] # "idle"
          /\ canceller' = [canceller EXCEPT ![j] = "idle"]
          /\ UNCHANGED submitter
    /\ UNCHANGED <<status, cap, up, wake, tokens, task, worker>>

HandlerNext ==
    \/ \E j \in Jobs : \/ Enqueue(j) \/ EnqueueWake(j) \/ DeleteOwner(j)
                       \/ CancelRead(j) \/ CancelSignal(j) \/ CancelRecheck(j)
                       \/ CancelWrite(j) \/ CancelClean(j) \/ CancelWake(j)
                       \/ DropHandler(j)
    \/ \E n \in Requests : SetConcurrency(n)

-----------------------------------------------------------------------------
(* The worker loop (spawn_loop).                                            *)

\* select!: a wake-up message goes straight to the claim loop.
ReceiveWake ==
    /\ up
    /\ worker.pc = "waiting"
    /\ wake
    /\ wake' = FALSE
    /\ worker' = [pc |-> "claiming", ids |-> {}]
    /\ UNCHANGED <<status, cap, up, tokens, task, submitter, canceller, bounds>>

\* select!: the poll tick (every QUEUE_POLL_INTERVAL) lists the running rows.
PollTick ==
    /\ up
    /\ worker.pc = "waiting"
    /\ \/ worker' = [pc |-> "listed", ids |-> Running] /\ UNCHANGED bounds
       \/ worker' = [pc |-> "stuck", ids |-> {}] /\ Fault
    /\ UNCHANGED <<status, cap, up, wake, tokens, task, submitter, canceller>>

\* Under the lock of the token map: an orphan is a listed job without a token.
Orphans == {j \in worker.ids : tokens[j] = NoSlot}

FilterOrphans ==
    /\ up
    /\ worker.pc = "listed"
    /\ worker' = [pc |-> "requeueing", ids |-> Orphans]
    /\ UNCHANGED <<status, cap, up, wake, tokens, task, submitter, canceller, bounds>>

\* requeue_jobs_by_id, one UPDATE per id: only a row that is still running.
RequeuedById(j) == IF status[j] = "running" THEN [status EXCEPT ![j] = "queued"] ELSE status

RequeueOrphan(j) ==
    /\ up
    /\ worker.pc = "requeueing"
    /\ j \in worker.ids
    /\ \/ /\ status' = RequeuedById(j)
          /\ worker' = [worker EXCEPT !.ids = @ \ {j}]
          /\ UNCHANGED bounds
       \/ /\ Fault
          /\ worker' = [worker EXCEPT !.ids = {}]
          /\ UNCHANGED status
    /\ UNCHANGED <<cap, up, wake, tokens, task, submitter, canceller>>

OrphansRequeued ==
    /\ up
    /\ worker.pc = "requeueing"
    /\ worker.ids = {}
    /\ worker' = [pc |-> "stuck", ids |-> {}]
    /\ UNCHANGED <<status, cap, up, wake, tokens, task, submitter, canceller, bounds>>

\* Rows that may be older than the cutoff: a panic left them without a task, or their
\* task is slow, and past its first query, which gives up after 30 seconds (db.rs:66).
MayBeOld ==
    {j \in Running :
        \/ j \in Panicking /\ Live(j) = {}
        \/ /\ j \in Ageable
           /\ Live(j) # Slots
           /\ \A s \in Slots : task[j][s].pc # "loading"}

\* requeue_stuck_jobs: the rows older than the cutoff, whether or not their tasks
\* are alive.
RequeueStuck ==
    /\ up
    /\ worker.pc = "stuck"
    /\ \/ /\ \E old \in SUBSET MayBeOld :
               status' = [j \in Jobs |-> IF j \in old THEN "queued" ELSE status[j]]
          /\ UNCHANGED bounds
       \/ Fault /\ UNCHANGED status
    /\ worker' = [pc |-> "claiming", ids |-> {}]
    /\ UNCHANGED <<cap, up, wake, tokens, task, submitter, canceller>>

\* claim_jobs_in_tx: a queued job is passed over while another job that rewrites
\* the outline of its story runs; the oldest of the others fill the free slots.
OutlineBusy(j) ==
    /\ Story[j] # NoStory
    /\ \E r \in Running : Story[r] = Story[j]

Eligible == {j \in Queued : ~OutlineBusy(j)}

FreeSlots ==
    LET free == cap - Cardinality(Running)
    IN  IF free < 0 THEN 0 ELSE IF free < ClaimLimit THEN free ELSE ClaimLimit

Claimed(S) ==
    /\ S \subseteq Eligible
    /\ Cardinality(S) <= FreeSlots
    /\ S # Eligible => Cardinality(S) = FreeSlots
    /\ \A i \in S, j \in Eligible \ S : i < j

ClaimJobs ==
    /\ up
    /\ worker.pc = "claiming"
    /\ \E S \in SUBSET Jobs :
          /\ Claimed(S)
          /\ status' = [j \in Jobs |-> IF j \in S THEN "running" ELSE status[j]]
          /\ worker' = IF S = {} THEN Waiting ELSE [pc |-> "spawning", ids |-> S]
    /\ UNCHANGED <<cap, up, wake, tokens, task, submitter, canceller, bounds>>

\* A token into the map and a task on the runtime, in creation order.  The map
\* keeps one token per job: that of an older task of the same job is dropped.
Spawn(j, s) ==
    /\ up
    /\ worker.pc = "spawning"
    /\ j \in worker.ids
    /\ \A i \in worker.ids : j <= i
    /\ task[j][s].pc = "none"
    /\ tokens' = [tokens EXCEPT ![j] = s]
    /\ task' = [task EXCEPT ![j][s] = [pc |-> "loading", token |-> "clear"]]
    /\ worker' = IF worker.ids = {j} THEN [pc |-> "claiming", ids |-> {}]
                 ELSE [worker EXCEPT !.ids = @ \ {j}]
    /\ UNCHANGED <<status, cap, up, wake, submitter, canceller, bounds>>

WorkerNext ==
    \/ ReceiveWake \/ PollTick \/ FilterOrphans \/ OrphansRequeued
    \/ RequeueStuck \/ ClaimJobs
    \/ \E j \in Jobs : RequeueOrphan(j) \/ \E s \in Slots : Spawn(j, s)

-----------------------------------------------------------------------------
(* The task of a claimed job (run_job_guarded, run_job and the handlers).   *)

\* run_job: get_job; a row that is no longer running ends the task, a missing one
\* is an error.
Load(j, s) ==
    /\ At(j, s, "loading")
    /\ \/ /\ Goto(j, s, IF status[j] = "running" THEN "checking"
                         ELSE IF Exists(j) THEN "exiting"
                         ELSE "guarding")
          /\ UNCHANGED bounds
       \/ Goto(j, s, "guarding") /\ Fault
    /\ UNCHANGED <<status, cap, up, wake, tokens, worker, submitter, canceller>>

\* run_job looks at the token; without a provider the job fails.
Check(j, s) ==
    /\ At(j, s, "checking")
    /\ \E next \in IF task[j][s].token = "clear" THEN {"working", "failing", "guarding"}
                  ELSE {"cancelling"} :
          Goto(j, s, next)
    /\ UNCHANGED <<status, cap, up, wake, tokens, worker, submitter, canceller, bounds>>

\* The handler generates: it succeeds, gives up with fail_job, or returns Err.
Finish(j, s) ==
    /\ At(j, s, "working")
    /\ \E next \in {"completing", "failing", "guarding"} : Goto(j, s, next)
    /\ UNCHANGED <<status, cap, up, wake, tokens, worker, submitter, canceller, bounds>>

\* A handler that polls its token notices the cancellation while it generates.
NoticeCancel(j, s) ==
    /\ At(j, s, "working")
    /\ task[j][s].token = "cancelled"
    /\ \/ Kind[j] = "stream" /\ Goto(j, s, "cancelling")
       \/ Kind[j] = "turn" /\ Goto(j, s, "guarding")
    /\ UNCHANGED <<status, cap, up, wake, tokens, worker, submitter, canceller, bounds>>

\* A panic (a summary or an error message cut inside a character, summarize.rs:716
\* and model_fallback.rs:61) ends the task alone: its token stays in the map and
\* nobody is woken.
Panic(j, s) ==
    /\ At(j, s, "working")
    /\ j \in Panicking
    /\ Fault
    /\ task' = [task EXCEPT ![j][s] = NoTask]
    /\ UNCHANGED <<status, cap, up, wake, tokens, worker, submitter, canceller>>

\* Nothing to summarize: the marker is deleted, and the row with it.
DropMarker(j, s) ==
    /\ At(j, s, "working")
    /\ Kind[j] = "summarize"
    /\ Write(j, "deleted")
    /\ Goto(j, s, "completing")
    /\ UNCHANGED <<cap, up, wake, tokens, worker, submitter, canceller, bounds>>

\* complete_job is unconditional: it overwrites whatever the row says by now.
Complete(j, s) ==
    /\ At(j, s, "completing")
    /\ \/ Write(j, "completed") /\ Goto(j, s, "exiting") /\ UNCHANGED bounds
       \/ Goto(j, s, "guarding") /\ Fault /\ UNCHANGED status
    /\ UNCHANGED <<cap, up, wake, tokens, worker, submitter, canceller>>

AfterSettling(j) == IF Kind[j] = "summarize" THEN "cleaning" ELSE "exiting"

\* fail_job: its error goes to the guard when a handler called it, and is ignored
\* when the guard itself did.
Fail(j, s) ==
    /\ At(j, s, "failing") \/ At(j, s, "lastFailing")
    /\ \/ Write(j, "failed") /\ Goto(j, s, AfterSettling(j)) /\ UNCHANGED bounds
       \/ /\ Goto(j, s, IF At(j, s, "failing") THEN "guarding" ELSE "exiting")
          /\ Fault
          /\ UNCHANGED status
    /\ UNCHANGED <<cap, up, wake, tokens, worker, submitter, canceller>>

\* cancel_job_record in the task: it reads the row, then writes it.
Cancel(j, s) ==
    /\ At(j, s, "cancelling")
    /\ \/ /\ Goto(j, s, CASE status[j] \in Active -> "cancelWriting"
                           [] status[j] \in Settled -> "exiting"
                           [] OTHER -> "guarding")
          /\ UNCHANGED bounds
       \/ Goto(j, s, "guarding") /\ Fault
    /\ UNCHANGED <<status, cap, up, wake, tokens, worker, submitter, canceller>>

RecordCancelled(j, s) ==
    /\ At(j, s, "cancelWriting")
    /\ \/ Write(j, "cancelled") /\ Goto(j, s, AfterSettling(j)) /\ UNCHANGED bounds
       \/ Goto(j, s, "guarding") /\ Fault /\ UNCHANGED status
    /\ UNCHANGED <<cap, up, wake, tokens, worker, submitter, canceller>>

\* remove_summarize_marker; its error changes no row.
Clean(j, s) ==
    /\ At(j, s, "cleaning")
    /\ \/ Write(j, "deleted") /\ UNCHANGED bounds
       \/ Fault /\ UNCHANGED status
    /\ Goto(j, s, "exiting")
    /\ UNCHANGED <<cap, up, wake, tokens, worker, submitter, canceller>>

\* run_job returned Err: the guard fails the job if its row is still running.
Guard(j, s) ==
    /\ At(j, s, "guarding")
    /\ \/ /\ Goto(j, s, IF status[j] = "running" THEN "lastFailing" ELSE "exiting")
          /\ UNCHANGED bounds
       \/ Goto(j, s, "exiting") /\ Fault
    /\ UNCHANGED <<status, cap, up, wake, tokens, worker, submitter, canceller>>

\* The task removes the token of its job, whichever task that token belongs to,
\* and wakes the worker.
Forgotten(j) == [tokens EXCEPT ![j] = NoSlot]

Exit(j, s) ==
    /\ At(j, s, "exiting")
    /\ tokens' = Forgotten(j)
    /\ task' = [task EXCEPT ![j][s] = NoTask]
    /\ wake' = TRUE
    /\ UNCHANGED <<status, cap, up, worker, submitter, canceller, bounds>>

TaskStep(j, s) ==
    \/ Load(j, s) \/ Check(j, s) \/ Finish(j, s) \/ NoticeCancel(j, s)
    \/ Panic(j, s) \/ DropMarker(j, s) \/ Complete(j, s) \/ Fail(j, s) \/ Cancel(j, s)
    \/ RecordCancelled(j, s) \/ Clean(j, s) \/ Guard(j, s) \/ Exit(j, s)

\* What the runtime must execute when it can: a panic is no duty.
TaskDuty(j, s) == TaskStep(j, s) /\ ~Panic(j, s)

-----------------------------------------------------------------------------
(* The process.                                                             *)

Crash ==
    /\ up
    /\ crashes < MaxCrashes
    /\ crashes' = crashes + 1
    /\ up' = FALSE
    /\ wake' = FALSE
    /\ tokens' = [j \in Jobs |-> NoSlot]
    /\ task' = [j \in Jobs |-> [s \in Slots |-> NoTask]]
    /\ worker' = Waiting
    /\ submitter' = {}
    /\ canceller' = [j \in Jobs |-> "idle"]
    /\ UNCHANGED <<status, cap, faults>>

\* main: read the environment, requeue_stale_jobs, then start the worker and wake it.
Restart ==
    /\ ~up
    /\ up' = TRUE
    /\ cap' = DefaultCap
    /\ status' = [j \in Jobs |-> IF j \in Running THEN "queued" ELSE status[j]]
    /\ wake' = TRUE
    /\ UNCHANGED <<tokens, task, worker, submitter, canceller, bounds>>

Next ==
    \/ HandlerNext
    \/ WorkerNext
    \/ \E j \in Jobs, s \in Slots : TaskStep(j, s)
    \/ Crash
    \/ Restart

Spec == Init /\ [][Next]_vars

\* The worker and the tasks are driven by the runtime, the poll by its timer, the
\* handlers by their request; inference ends because the client gives up on a
\* silent or endless server; a row that stays running gets older than the cutoff; a
\* supervisor restarts the process.
Fairness ==
    /\ WF_vars(WorkerNext)
    /\ WF_vars(PollTick)
    /\ \A j \in Jobs, s \in Slots : WF_vars(TaskDuty(j, s))
    /\ \A j \in Ageable \cup Panicking :
          SF_vars(RequeueStuck /\ status[j] = "running" /\ status'[j] = "queued")
    /\ WF_vars(Restart)

FairSpec == Spec /\ Fairness

-----------------------------------------------------------------------------
(* Properties.                                                              *)

\* The types of the variables; a task that does not exist has no token.
TypeOK ==
    /\ status \in [Jobs -> Status]
    /\ cap \in Nat \ {0}
    /\ up \in BOOLEAN
    /\ wake \in BOOLEAN
    /\ tokens \in [Jobs -> Slots \cup {NoSlot}]
    /\ task \in [Jobs -> [Slots -> [pc : TaskPC, token : {"clear", "cancelled"}]]]
    /\ worker \in [pc : WorkerPC, ids : SUBSET Jobs]
    /\ submitter \subseteq Jobs
    /\ canceller \in [Jobs -> CancelPC]
    /\ crashes \in 0..MaxCrashes
    /\ faults \in 0..MaxFaults

\* A step that starts a job leaves no more rows running than the concurrency
\* setting allows at that moment, although the setting may have been lowered below
\* what already runs (claim_jobs_in_tx).
StartsWithinCap ==
    [][(\E j \in Jobs : status[j] # "running" /\ status'[j] = "running")
          => Cardinality(Running') <= cap]_vars

\* A settled or deleted row is never active again: an orphan list that went stale,
\* a restart, or a second task of the job cannot bring it back (requeue_jobs_by_id,
\* requeue_stuck_jobs, requeue_stale_jobs, claim_jobs).
SettledIsNeverActive ==
    [][\A j \in Jobs : status[j] \in Settled \cup {"deleted"} => status'[j] \notin Active]_vars

\* Unless a handler panics, a token in the map is that of a task that is alive, so
\* that it never hides from the poll a running row whose task is gone (spawn_loop).
TokenHasTask ==
    \A j \in Jobs \ Panicking : tokens[j] # NoSlot => tokens[j] \in Live(j)

\* A job that does not outlive the cutoff is never executed by two tasks at once:
\* not by the poll racing the end of a task, nor by a claim after a crash.
OneTaskPerJob ==
    \A j \in Jobs \ Ageable : \A s, t \in Live(j) : s = t

\* A wake-up that somebody still has to send.
WakeOwed ==
    \/ submitter # {}
    \/ \E j \in Jobs : canceller[j] \in {"cleaning", "waking"}
    \/ \E j \in Jobs, s \in Slots :
          \/ task[j][s].pc \in {"cleaning", "exiting"}
          \/ task[j][s].pc = "completing" /\ status[j] # "running"

\* As long as no statement fails, no request is dropped, no handler panics and the
\* setting is not raised (which wakes nobody), the worker never sleeps until the next
\* poll while a job could start: a wake-up is in the channel or on its way.
NoLostWakeup ==
    up /\ faults = 0 /\ Eligible # {} /\ FreeSlots > 0
        => wake \/ worker.pc # "waiting" \/ WakeOwed

\* Every queued job is settled or deleted in the end, in spite of crashes, failed
\* statements, dropped requests and tasks that left their row running.
EveryJobSettles ==
    \A j \in Jobs : status[j] = "queued" ~> status[j] \in Settled \cup {"deleted"}

\* The rows evolve as JobLifecycle promises.
Lifecycle == INSTANCE JobLifecycle WITH status <- status, cap <- cap
RowsFollowLifecycle == Lifecycle!LSpec
=============================================================================
