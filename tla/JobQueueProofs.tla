--------------------------- MODULE JobQueueProofs ---------------------------
(***************************************************************************)
(* What holds of the generation queue for every set of jobs, every mix of  *)
(* handlers and every concurrency, with any number of crashes and faults.  *)
(***************************************************************************)
EXTENDS JobQueue, FiniteSetTheorems, TLAPS

USE DEF vars, volatile, bounds, Active, Settled, Status

LEMMA TypeInit == Init => TypeOK
  BY CapAssumption, SlotsAssumption, BoundsAssumption
  DEF Init, TypeOK, NoTask, Waiting, TaskPC, WorkerPC, CancelPC

LEMMA UpdatedType ==
  ASSUME TypeOK, NEW j \in Jobs, NEW st \in Settled \cup {"deleted"}
  PROVE  Updated(j, st) \in [Jobs -> Status]
  BY DEF TypeOK, Updated, Exists

\* A step of a task, or a signal to it, changes one field of one record.
TaskRecord == [pc : TaskPC, token : {"clear", "cancelled"}]

LEMMA GotoType ==
  ASSUME TypeOK, NEW j \in Jobs, NEW s \in Slots, NEW pc \in TaskPC, Goto(j, s, pc)
  PROVE  task' \in [Jobs -> [Slots -> TaskRecord]]
  <1> DEFINE r == [task[j][s] EXCEPT !.pc = pc]
  <1>1. task \in [Jobs -> [Slots -> TaskRecord]]
    BY DEF TypeOK, TaskRecord
  <1>2. r \in TaskRecord
    BY <1>1 DEF TaskRecord
  <1>3. task' = [task EXCEPT ![j] = [task[j] EXCEPT ![s] = r]]
    BY DEF Goto
  <1> HIDE DEF r
  <1> QED BY <1>1, <1>2, <1>3

LEMMA SignalType ==
  ASSUME TypeOK, NEW j \in Jobs, NEW s \in Slots, Signal(j, s)
  PROVE  task' \in [Jobs -> [Slots -> TaskRecord]]
  <1> DEFINE r == [task[j][s] EXCEPT !.token = "cancelled"]
  <1>1. task \in [Jobs -> [Slots -> TaskRecord]]
    BY DEF TypeOK, TaskRecord
  <1>2. r \in TaskRecord
    BY <1>1 DEF TaskRecord
  <1>3. task' = [task EXCEPT ![j] = [task[j] EXCEPT ![s] = r]]
    BY DEF Signal
  <1> HIDE DEF r
  <1> QED BY <1>1, <1>2, <1>3

LEMMA TaskStepType ==
  ASSUME TypeOK, NEW j \in Jobs, NEW s \in Slots, TaskStep(j, s)
  PROVE  task' \in [Jobs -> [Slots -> TaskRecord]]
  <1>1. CASE Exit(j, s) \/ Panic(j, s)
    <2>1. NoTask \in TaskRecord
      BY DEF NoTask, TaskRecord, TaskPC
    <2>2. task \in [Jobs -> [Slots -> TaskRecord]]
      BY DEF TypeOK, TaskRecord
    <2>3. task' = [task EXCEPT ![j] = [task[j] EXCEPT ![s] = NoTask]]
      BY <1>1 DEF Exit, Panic
    <2> QED BY <2>1, <2>2, <2>3
  <1>2. CASE ~Exit(j, s) /\ ~Panic(j, s)
    <2>1. \E pc \in TaskPC : Goto(j, s, pc)
      <3>1. CASE Load(j, s) \/ Cancel(j, s) \/ Guard(j, s)
        BY <3>1 DEF Load, Cancel, Guard, TaskPC
      <3>2. CASE Check(j, s) \/ Finish(j, s) \/ NoticeCancel(j, s) \/ DropMarker(j, s)
        BY <3>2 DEF Check, Finish, NoticeCancel, DropMarker, TaskPC
      <3>3. CASE Complete(j, s) \/ Fail(j, s) \/ RecordCancelled(j, s) \/ Clean(j, s)
        BY <3>3 DEF Complete, Fail, RecordCancelled, Clean, AfterSettling, TaskPC
      <3> QED BY <1>2, <3>1, <3>2, <3>3 DEF TaskStep
    <2> QED BY <2>1, GotoType
  <1> QED BY <1>1, <1>2

LEMMA TypeStep == TypeOK /\ [Next]_vars => TypeOK'
  <1> SUFFICES ASSUME TypeOK, [Next]_vars PROVE TypeOK'
    OBVIOUS
  <1>1. ASSUME HandlerNext PROVE TypeOK'
    <2>1. ASSUME NEW j \in Jobs, Enqueue(j) \/ EnqueueWake(j) \/ DeleteOwner(j) PROVE TypeOK'
      BY <2>1 DEF Enqueue, EnqueueWake, DeleteOwner, TypeOK
    <2>2. ASSUME NEW j \in Jobs, CancelRead(j) \/ CancelRecheck(j) \/ CancelWake(j)
          PROVE  TypeOK'
      <3>1. PICK pc \in CancelPC : canceller' = [canceller EXCEPT ![j] = pc]
        BY <2>2 DEF CancelRead, CancelRecheck, CancelWake, CancelPC
      <3> QED BY <2>2, <3>1 DEF CancelRead, CancelRecheck, CancelWake, TypeOK
    <2>3. ASSUME NEW j \in Jobs, CancelSignal(j) PROVE TypeOK'
      <3>1. task' \in [Jobs -> [Slots -> TaskRecord]]
        BY <2>3, SignalType DEF CancelSignal, TypeOK, TaskRecord
      <3> QED BY <2>3, <3>1 DEF CancelSignal, TypeOK, TaskRecord, CancelPC
    <2>4. ASSUME NEW j \in Jobs, CancelWrite(j) \/ CancelClean(j) PROVE TypeOK'
      <3>1. status' \in [Jobs -> Status]
        BY <2>4, UpdatedType DEF CancelWrite, CancelClean, Write
      <3>2. PICK pc \in CancelPC : canceller' = [canceller EXCEPT ![j] = pc]
        BY <2>4 DEF CancelWrite, CancelClean, CancelPC
      <3> QED BY <2>4, <3>1, <3>2 DEF CancelWrite, CancelClean, TypeOK
    <2>5. ASSUME NEW j \in Jobs, DropHandler(j) PROVE TypeOK'
      BY <2>5, BoundsAssumption DEF DropHandler, Fault, TypeOK, CancelPC
    <2>6. ASSUME NEW n \in Requests, SetConcurrency(n) PROVE TypeOK'
      BY <2>6, CapAssumption DEF SetConcurrency, Clamp, TypeOK
    <2> QED BY <1>1, <2>1, <2>2, <2>3, <2>4, <2>5, <2>6 DEF HandlerNext
  <1>2. ASSUME WorkerNext PROVE TypeOK'
    <2>1. CASE ReceiveWake \/ PollTick \/ FilterOrphans \/ OrphansRequeued
      <3>1. worker' \in [pc : WorkerPC, ids : SUBSET Jobs]
        BY <2>1
        DEF ReceiveWake, PollTick, FilterOrphans, OrphansRequeued, Orphans, Running,
            TypeOK, WorkerPC
      <3>4. wake' \in BOOLEAN
        BY <2>1 DEF ReceiveWake, PollTick, FilterOrphans, OrphansRequeued, TypeOK
      <3>2. crashes' \in 0..MaxCrashes /\ faults' \in 0..MaxFaults
        BY <2>1, BoundsAssumption
        DEF ReceiveWake, PollTick, FilterOrphans, OrphansRequeued, Fault, TypeOK
      <3>3. UNCHANGED <<status, cap, up, tokens, task, submitter, canceller>>
        BY <2>1 DEF ReceiveWake, PollTick, FilterOrphans, OrphansRequeued
      <3> QED BY <3>1, <3>2, <3>3, <3>4 DEF TypeOK
    <2>2. CASE RequeueStuck
      BY <2>2, BoundsAssumption DEF RequeueStuck, MayBeOld, Fault, TypeOK, WorkerPC
    <2>3. CASE ClaimJobs
      BY <2>3 DEF ClaimJobs, Waiting, TypeOK, WorkerPC
    <2>4. ASSUME NEW j \in Jobs, RequeueOrphan(j) PROVE TypeOK'
      <3>1. status' \in [Jobs -> Status]
        BY <2>4 DEF RequeueOrphan, RequeuedById, TypeOK
      <3>2. worker' \in [pc : WorkerPC, ids : SUBSET Jobs]
        BY <2>4 DEF RequeueOrphan, TypeOK
      <3>3. crashes' \in 0..MaxCrashes /\ faults' \in 0..MaxFaults
        BY <2>4, BoundsAssumption DEF RequeueOrphan, Fault, TypeOK
      <3> QED BY <2>4, <3>1, <3>2, <3>3 DEF RequeueOrphan, TypeOK
    <2>5. ASSUME NEW j \in Jobs, NEW s \in Slots, Spawn(j, s) PROVE TypeOK'
      <3> DEFINE r == [pc |-> "loading", token |-> "clear"]
      <3>1. r \in TaskRecord
        BY DEF TaskRecord, TaskPC
      <3>2. task' = [task EXCEPT ![j] = [task[j] EXCEPT ![s] = r]]
        BY <2>5 DEF Spawn
      <3>3. task' \in [Jobs -> [Slots -> TaskRecord]]
        BY <3>1, <3>2 DEF TypeOK, TaskRecord
      <3> QED BY <2>5, <3>3 DEF Spawn, TypeOK, TaskRecord, WorkerPC
    <2> QED BY <1>2, <2>1, <2>2, <2>3, <2>4, <2>5 DEF WorkerNext
  <1>3. ASSUME NEW j \in Jobs, NEW s \in Slots, TaskStep(j, s) PROVE TypeOK'
    <2>1. task' \in [Jobs -> [Slots -> TaskRecord]]
      BY <1>3, TaskStepType
    <2>2. status' \in [Jobs -> Status]
      BY <1>3, UpdatedType
      DEF TaskStep, Load, Check, Finish, NoticeCancel, DropMarker, Complete, Fail, Cancel,
          RecordCancelled, Clean, Guard, Panic, Exit, Write, TypeOK
    <2>3. tokens' \in [Jobs -> Slots \cup {NoSlot}] /\ wake' \in BOOLEAN
      BY <1>3
      DEF TaskStep, Load, Check, Finish, NoticeCancel, DropMarker, Complete, Fail, Cancel,
          RecordCancelled, Clean, Guard, Panic, Exit, Forgotten, TypeOK
    <2>4. crashes' \in 0..MaxCrashes /\ faults' \in 0..MaxFaults
      BY <1>3, BoundsAssumption
      DEF TaskStep, Load, Check, Finish, NoticeCancel, DropMarker, Complete, Fail, Cancel,
          RecordCancelled, Clean, Guard, Panic, Exit, Fault, TypeOK
    <2>5. UNCHANGED <<cap, up, worker, submitter, canceller>>
      BY <1>3
      DEF TaskStep, Load, Check, Finish, NoticeCancel, DropMarker, Complete, Fail, Cancel,
          RecordCancelled, Clean, Guard, Panic, Exit
    <2> QED BY <2>1, <2>2, <2>3, <2>4, <2>5 DEF TypeOK, TaskRecord
  <1>4. CASE Crash
    <2>1. task' \in [Jobs -> [Slots -> TaskRecord]]
      BY <1>4 DEF Crash, NoTask, TaskRecord, TaskPC
    <2>2. worker' \in [pc : WorkerPC, ids : SUBSET Jobs]
      BY <1>4 DEF Crash, Waiting, WorkerPC
    <2>3. canceller' \in [Jobs -> CancelPC] /\ crashes' \in 0..MaxCrashes
      BY <1>4, BoundsAssumption DEF Crash, TypeOK, CancelPC
    <2>4. tokens' \in [Jobs -> Slots \cup {NoSlot}] /\ submitter' \subseteq Jobs
      BY <1>4 DEF Crash
    <2>5. up' \in BOOLEAN /\ wake' \in BOOLEAN /\ UNCHANGED <<status, cap, faults>>
      BY <1>4 DEF Crash
    <2> QED BY <2>1, <2>2, <2>3, <2>4, <2>5 DEF TypeOK, TaskRecord
  <1>5. CASE Restart
    BY <1>5, CapAssumption DEF Restart, TypeOK
  <1>6. CASE UNCHANGED vars
    BY <1>6 DEF TypeOK
  <1> QED BY <1>1, <1>2, <1>3, <1>4, <1>5, <1>6 DEF Next

\* Every variable keeps its type: in particular no step invents a status, and the
\* concurrency setting stays positive whatever is requested.
THEOREM TypeCorrect == Spec => []TypeOK
  BY TypeInit, TypeStep, PTL DEF Spec

-----------------------------------------------------------------------------
(* The rows follow the life cycle, and what follows from that.              *)

\* complete_job on a row that exists settles it; on a missing row it does nothing.
LEMMA WriteSettles ==
  ASSUME TypeOK, NEW j \in Jobs, NEW st \in Settled, Write(j, st), UNCHANGED cap
  PROVE  [Lifecycle!LNext]_(Lifecycle!lifecycleVars)
  <1>1. CASE Exists(j)
    <2>1. Lifecycle!Settle(j)
      BY <1>1 DEF Write, Updated, Exists, Lifecycle!Settle, Lifecycle!Active, Lifecycle!Settled
    <2> QED BY <2>1 DEF Lifecycle!LNext
  <1>2. CASE ~Exists(j)
    BY <1>2 DEF Write, Updated, Lifecycle!lifecycleVars
  <1> QED BY <1>1, <1>2

LEMMA WriteDeletes ==
  ASSUME TypeOK, NEW j \in Jobs, Write(j, "deleted"), UNCHANGED cap
  PROVE  [Lifecycle!LNext]_(Lifecycle!lifecycleVars)
  <1>1. CASE Exists(j)
    <2>1. Lifecycle!Delete(j)
      BY <1>1 DEF Write, Updated, Exists, Lifecycle!Delete, Lifecycle!Active, Lifecycle!Settled
    <2> QED BY <2>1 DEF Lifecycle!LNext
  <1>2. CASE ~Exists(j)
    BY <1>2 DEF Write, Updated, Lifecycle!lifecycleVars
  <1> QED BY <1>1, <1>2

LEMMA SameCardinality ==
  ASSUME NEW S PROVE Lifecycle!Cardinality(S) = Cardinality(S)
  BY DEF Cardinality, Lifecycle!Cardinality

LEMMA ClaimIsAbstractClaim ==
  ASSUME TypeOK, ClaimJobs
  PROVE  Lifecycle!LNext
  <1>1. PICK S \in SUBSET Jobs :
          /\ Claimed(S)
          /\ status' = [j \in Jobs |-> IF j \in S THEN "running" ELSE status[j]]
    BY DEF ClaimJobs
  <1>2. Running = Lifecycle!Running /\ Queued = Lifecycle!Queued
    BY DEF Running, Queued, Lifecycle!Running, Lifecycle!Queued, Lifecycle!RowsIn
  <1>3. Eligible = Lifecycle!Claimable
    BY <1>2 DEF Eligible, OutlineBusy, Lifecycle!Claimable, Lifecycle!OutlineBusy
  <1>4. FreeSlots = Lifecycle!FreeSlots
    <2>1. Cardinality(Running) = Lifecycle!Cardinality(Lifecycle!Running)
      BY <1>2, SameCardinality
    <2> QED BY <2>1 DEF FreeSlots, Lifecycle!FreeSlots
  <1>5. Lifecycle!OldestClaimable(S)
    <2>1. S \subseteq Eligible /\ Cardinality(S) <= FreeSlots
      BY <1>1 DEF Claimed
    <2>2. ASSUME NEW j \in Eligible \ S
          PROVE  (\A i \in S : i < j) /\ Cardinality(S) = FreeSlots
      <3>1. S # Eligible
        OBVIOUS
      <3> QED BY <1>1, <3>1 DEF Claimed
    <2>3. S \subseteq Lifecycle!Claimable /\ Cardinality(S) <= Lifecycle!FreeSlots
      BY <1>3, <1>4, <2>1
    <2>4. \A j \in Lifecycle!Claimable \ S :
            (\A i \in S : i < j) /\ Cardinality(S) = Lifecycle!FreeSlots
      BY <1>3, <1>4, <2>2
    <2> QED BY <2>3, <2>4, SameCardinality DEF Lifecycle!OldestClaimable
  <1>6. Lifecycle!Claim(S)
    BY <1>1, <1>5 DEF Lifecycle!Claim, ClaimJobs
  <1> QED BY <1>6 DEF Lifecycle!LNext

LEMMA RequeueIsAbstract ==
  ASSUME NEW S \in SUBSET Running, cap' \in Nat \ {0},
         status' = [j \in Jobs |-> IF j \in S THEN "queued" ELSE status[j]]
  PROVE  Lifecycle!LNext
  <1>1. S \in SUBSET Jobs /\ S \subseteq Lifecycle!Running
    BY DEF Running, Lifecycle!Running, Lifecycle!RowsIn
  <1>2. Lifecycle!Requeue(S)
    BY <1>1 DEF Lifecycle!Requeue
  <1> QED BY <1>1, <1>2 DEF Lifecycle!LNext

LEMMA StepFollowsLifecycle ==
  TypeOK /\ [Next]_vars => [Lifecycle!LNext]_(Lifecycle!lifecycleVars)
  <1> SUFFICES ASSUME TypeOK, [Next]_vars
               PROVE  [Lifecycle!LNext]_(Lifecycle!lifecycleVars)
    OBVIOUS
  <1>0. TypeOK'
    BY TypeStep
  <1>1. ASSUME HandlerNext PROVE [Lifecycle!LNext]_(Lifecycle!lifecycleVars)
    <2>1. ASSUME NEW j \in Jobs, Enqueue(j)
          PROVE  Lifecycle!LNext
      <3>1. Lifecycle!Submit(j)
        BY <2>1 DEF Enqueue, Lifecycle!Submit
      <3> QED BY <3>1 DEF Lifecycle!LNext
    <2>2. ASSUME NEW j \in Jobs, DeleteOwner(j)
          PROVE  Lifecycle!LNext
      <3>1. Lifecycle!Delete(j)
        BY <2>2 DEF DeleteOwner, Exists, Lifecycle!Delete, Lifecycle!Active, Lifecycle!Settled
      <3> QED BY <3>1 DEF Lifecycle!LNext
    <2>3. ASSUME NEW j \in Jobs,
                 EnqueueWake(j) \/ CancelRead(j) \/ CancelSignal(j) \/ CancelRecheck(j)
                   \/ CancelWake(j) \/ DropHandler(j)
          PROVE  UNCHANGED Lifecycle!lifecycleVars
      BY <2>3 DEF EnqueueWake, CancelRead, CancelSignal, CancelRecheck, CancelWake,
                  DropHandler, Lifecycle!lifecycleVars
    <2>4. ASSUME NEW j \in Jobs, CancelWrite(j)
          PROVE  [Lifecycle!LNext]_(Lifecycle!lifecycleVars)
      BY <2>4, WriteSettles DEF CancelWrite
    <2>5. ASSUME NEW j \in Jobs, CancelClean(j)
          PROVE  [Lifecycle!LNext]_(Lifecycle!lifecycleVars)
      BY <2>5, WriteDeletes DEF CancelClean
    <2>6. ASSUME NEW n \in Requests, SetConcurrency(n)
          PROVE  Lifecycle!LNext
      <3> PICK none \in SUBSET Running : none = {}
        OBVIOUS
      <3>1. status' = [j \in Jobs |-> IF j \in none THEN "queued" ELSE status[j]]
        BY <2>6 DEF SetConcurrency, TypeOK
      <3>2. cap' \in Nat \ {0}
        BY <1>0 DEF TypeOK
      <3> QED BY <3>1, <3>2, RequeueIsAbstract
    <2> QED BY <1>1, <2>1, <2>2, <2>3, <2>4, <2>5, <2>6 DEF HandlerNext
  <1>2. ASSUME WorkerNext PROVE [Lifecycle!LNext]_(Lifecycle!lifecycleVars)
    <2>1. CASE ReceiveWake \/ PollTick \/ FilterOrphans \/ OrphansRequeued
      BY <2>1 DEF ReceiveWake, PollTick, FilterOrphans, OrphansRequeued, Lifecycle!lifecycleVars
    <2>2. CASE RequeueStuck
      <3>1. CASE UNCHANGED status
        BY <2>2, <3>1 DEF RequeueStuck, Lifecycle!lifecycleVars
      <3>2. CASE ~UNCHANGED status
        <4>1. PICK old \in SUBSET Running :
                status' = [j \in Jobs |-> IF j \in old THEN "queued" ELSE status[j]]
          BY <2>2, <3>2 DEF RequeueStuck, MayBeOld
        <4>2. cap' \in Nat \ {0}
          BY <1>0 DEF TypeOK
        <4> QED BY <4>1, <4>2, RequeueIsAbstract
      <3> QED BY <3>1, <3>2
    <2>3. CASE ClaimJobs
      BY <2>3, ClaimIsAbstractClaim
    <2>4. ASSUME NEW j \in Jobs, RequeueOrphan(j)
          PROVE  [Lifecycle!LNext]_(Lifecycle!lifecycleVars)
      <3>1. CASE UNCHANGED status
        BY <2>4, <3>1 DEF RequeueOrphan, Lifecycle!lifecycleVars
      <3>2. CASE ~UNCHANGED status
        <4>1. status[j] = "running" /\ status' = [status EXCEPT ![j] = "queued"]
          BY <2>4, <3>2 DEF RequeueOrphan, RequeuedById
        <4>2. status' = [i \in Jobs |-> IF i \in {j} THEN "queued" ELSE status[i]]
          BY <4>1 DEF TypeOK
        <4>3. {j} \in SUBSET Running
          BY <4>1 DEF Running
        <4>4. cap' \in Nat \ {0}
          BY <1>0 DEF TypeOK
        <4> QED BY <4>2, <4>3, <4>4, RequeueIsAbstract
      <3> QED BY <3>1, <3>2
    <2>5. ASSUME NEW j \in Jobs, NEW s \in Slots, Spawn(j, s)
          PROVE  UNCHANGED Lifecycle!lifecycleVars
      BY <2>5 DEF Spawn, Lifecycle!lifecycleVars
    <2> QED BY <1>2, <2>1, <2>2, <2>3, <2>4, <2>5 DEF WorkerNext
  <1>3. ASSUME NEW j \in Jobs, NEW s \in Slots, TaskStep(j, s)
        PROVE  [Lifecycle!LNext]_(Lifecycle!lifecycleVars)
    <2>1. CASE Load(j, s) \/ Check(j, s) \/ Finish(j, s) \/ NoticeCancel(j, s)
                 \/ Cancel(j, s) \/ Guard(j, s) \/ Panic(j, s) \/ Exit(j, s)
      BY <2>1 DEF Load, Check, Finish, NoticeCancel, Cancel, Guard, Panic, Exit,
                  Lifecycle!lifecycleVars
    <2>2. CASE DropMarker(j, s)
      BY <2>2, WriteDeletes DEF DropMarker
    <2>3. CASE Complete(j, s)
      BY <2>3, WriteSettles DEF Complete, Lifecycle!lifecycleVars
    <2>4. CASE Fail(j, s)
      BY <2>4, WriteSettles DEF Fail, Lifecycle!lifecycleVars
    <2>5. CASE RecordCancelled(j, s)
      BY <2>5, WriteSettles DEF RecordCancelled, Lifecycle!lifecycleVars
    <2>6. CASE Clean(j, s)
      BY <2>6, WriteDeletes DEF Clean, Lifecycle!lifecycleVars
    <2> QED BY <1>3, <2>1, <2>2, <2>3, <2>4, <2>5, <2>6 DEF TaskStep
  <1>4. CASE Crash
    BY <1>4 DEF Crash, Lifecycle!lifecycleVars
  <1>5. CASE Restart
    <2>1. status' = [j \in Jobs |-> IF j \in Running THEN "queued" ELSE status[j]]
      BY <1>5 DEF Restart
    <2>2. cap' \in Nat \ {0}
      BY <1>0 DEF TypeOK
    <2> QED BY <2>1, <2>2, RequeueIsAbstract
  <1>6. CASE UNCHANGED vars
    BY <1>6 DEF Lifecycle!lifecycleVars
  <1> QED BY <1>1, <1>2, <1>3, <1>4, <1>5, <1>6 DEF Next

\* The queue implements JobLifecycle: claims take the oldest eligible rows under the
\* cap, only running rows go back to the queue, settled rows stay settled.
THEOREM QueueImplementsLifecycle == Spec => RowsFollowLifecycle
  <1>1. Init => Lifecycle!LInit
    BY CapAssumption DEF Init, Lifecycle!LInit
  <1> QED BY <1>1, TypeCorrect, StepFollowsLifecycle, PTL
          DEF Spec, RowsFollowLifecycle, Lifecycle!LSpec

\* Of the abstract rows alone: a settled or deleted row is not activated by any step.
LEMMA LifecycleNeverReactivates ==
  ASSUME TypeOK, TypeOK', [Lifecycle!LNext]_(Lifecycle!lifecycleVars),
         NEW j \in Jobs, status[j] \in Settled \cup {"deleted"}
  PROVE  status'[j] \notin Active
  <1>1. CASE UNCHANGED Lifecycle!lifecycleVars
    BY <1>1 DEF Lifecycle!lifecycleVars
  <1>2. ASSUME NEW i \in Jobs, Lifecycle!Submit(i) \/ Lifecycle!Settle(i) \/ Lifecycle!Delete(i)
        PROVE  status'[j] \notin Active
    BY <1>2 DEF Lifecycle!Submit, Lifecycle!Settle, Lifecycle!Delete, Lifecycle!Active,
                Lifecycle!Settled, TypeOK
  <1>3. ASSUME NEW S \in SUBSET Jobs, Lifecycle!Claim(S) PROVE status'[j] \notin Active
    <2>1. j \notin S
      BY <1>3 DEF Lifecycle!Claim, Lifecycle!OldestClaimable, Lifecycle!Claimable,
                  Lifecycle!Queued, Lifecycle!RowsIn
    <2> QED BY <1>3, <2>1 DEF Lifecycle!Claim
  <1>4. ASSUME NEW S \in SUBSET Jobs, Lifecycle!Requeue(S) PROVE status'[j] \notin Active
    <2>1. j \notin S
      BY <1>4 DEF Lifecycle!Requeue, Lifecycle!Running, Lifecycle!RowsIn
    <2> QED BY <1>4, <2>1 DEF Lifecycle!Requeue
  <1> QED BY <1>1, <1>2, <1>3, <1>4 DEF Lifecycle!LNext

\* No interleaving of the poll, a restart, cancel requests and stale tasks makes a
\* settled or deleted row active again.
THEOREM SettledNeverActiveAgain == Spec => SettledIsNeverActive
  <1>1. TypeOK /\ TypeOK' /\ [Next]_vars
          => \A j \in Jobs : status[j] \in Settled \cup {"deleted"} => status'[j] \notin Active
    BY StepFollowsLifecycle, LifecycleNeverReactivates
  <1> QED BY <1>1, TypeCorrect, PTL DEF Spec, SettledIsNeverActive

\* Rows only start running in a claim, and a claim counts what already runs.
LEMMA StartsAreCapped ==
  ASSUME TypeOK, TypeOK', [Lifecycle!LNext]_(Lifecycle!lifecycleVars),
         NEW j \in Jobs, status[j] # "running", status'[j] = "running"
  PROVE  Cardinality(Running') <= cap
  <1>1. ~ UNCHANGED Lifecycle!lifecycleVars
    BY DEF Lifecycle!lifecycleVars
  <1>2. ~ \E i \in Jobs : Lifecycle!Submit(i) \/ Lifecycle!Settle(i) \/ Lifecycle!Delete(i)
    BY DEF Lifecycle!Submit, Lifecycle!Settle, Lifecycle!Delete, Lifecycle!Settled, TypeOK
  <1>3. ~ \E S \in SUBSET Jobs : Lifecycle!Requeue(S)
    BY DEF Lifecycle!Requeue
  <1>4. PICK S \in SUBSET Jobs : Lifecycle!Claim(S)
    BY <1>1, <1>2, <1>3 DEF Lifecycle!LNext
  <1>5. Running' = Running \cup S
    BY <1>4 DEF Lifecycle!Claim, Running
  <1>6. j \in S
    BY <1>4 DEF Lifecycle!Claim
  <1>7. IsFiniteSet(Running) /\ IsFiniteSet(S)
    BY JobsAssumption, FS_Subset DEF Running
  <1>8. Running \cap S = {}
    BY <1>4 DEF Lifecycle!Claim, Lifecycle!OldestClaimable, Lifecycle!Claimable,
                Lifecycle!Queued, Lifecycle!RowsIn, Running
  <1>9. Cardinality(Running') = Cardinality(Running) + Cardinality(S)
    <2>1. Cardinality(Running \cap S) = 0
      BY <1>8, FS_EmptySet
    <2>2. Cardinality(Running \cup S)
            = Cardinality(Running) + Cardinality(S) - Cardinality(Running \cap S)
      BY <1>7, FS_Union
    <2>3. Cardinality(Running) \in Nat /\ Cardinality(S) \in Nat
      BY <1>7, FS_CardinalityType
    <2> QED BY <1>5, <2>1, <2>2, <2>3
  <1>10. Cardinality(S) # 0
    BY <1>6, <1>7, FS_EmptySet
  <1>11. Cardinality(S) <= cap - Cardinality(Running)
    <2>1. Cardinality(S) <= Lifecycle!FreeSlots
      BY <1>4, SameCardinality DEF Lifecycle!Claim, Lifecycle!OldestClaimable
    <2>2. Lifecycle!Cardinality(Lifecycle!Running) = Cardinality(Running)
      BY SameCardinality DEF Lifecycle!Running, Lifecycle!RowsIn, Running
    <2>3. Cardinality(Running) \in Nat /\ Cardinality(S) \in Nat
      BY <1>7, FS_CardinalityType
    <2>4. cap \in Int
      BY DEF TypeOK
    <2> QED BY <1>10, <2>1, <2>2, <2>3, <2>4, ClaimLimitAssumption DEF Lifecycle!FreeSlots
  <1>12. Cardinality(Running) \in Nat /\ Cardinality(S) \in Nat /\ cap \in Int
    BY <1>7, FS_CardinalityType DEF TypeOK
  <1> QED BY <1>9, <1>11, <1>12

\* The concurrency cap is respected by every start, for every setting and every
\* change of it at run time.
THEOREM StartsRespectCap == Spec => StartsWithinCap
  <1>1. TypeOK /\ TypeOK' /\ [Next]_vars
          => ((\E j \in Jobs : status[j] # "running" /\ status'[j] = "running")
                => Cardinality(Running') <= cap)
    BY StepFollowsLifecycle, StartsAreCapped
  <1> QED BY <1>1, TypeCorrect, PTL DEF Spec, StartsWithinCap

-----------------------------------------------------------------------------
(* Tasks and tokens.                                                        *)

\* Why no second task of a job can start while one is alive, unless the cutoff of
\* requeue_stuck_jobs intervenes: the live task's token is in the map, so the poll
\* does not take the job for an orphan, and neither a row in the queue nor an id
\* the worker is about to requeue or to spawn has a live task.
Unstarted(j) == status[j] \in {"none", "queued"}
InHand(j) == worker.pc \in {"requeueing", "spawning"} /\ j \in worker.ids

DownHasNoTasks == ~up => \A j \in Jobs : Live(j) = {}
LiveTaskHasToken == \A j \in Jobs \ Ageable : \A s \in Live(j) : tokens[j] = s
UnstartedHasNoTask == \A j \in Jobs \ Ageable : Unstarted(j) => Live(j) = {}
InHandHasNoTask == \A j \in Jobs \ Ageable : InHand(j) => Live(j) = {}
SpawningIsStarted ==
    worker.pc = "spawning" => up /\ \A j \in worker.ids \ Ageable : ~Unstarted(j)

TaskInv ==
    /\ TypeOK
    /\ TokenHasTask
    /\ DownHasNoTasks
    /\ LiveTaskHasToken
    /\ UnstartedHasNoTask
    /\ InHandHasNoTask
    /\ SpawningIsStarted

LEMMA TaskInvInit == Init => TaskInv
  <1> SUFFICES ASSUME Init PROVE TaskInv
    OBVIOUS
  <1>1. \A j \in Jobs : Live(j) = {}
    BY DEF Init, Live, NoTask
  <1> QED BY <1>1, TypeInit DEF Init, Waiting, TaskInv, TokenHasTask, DownHasNoTasks,
          LiveTaskHasToken, UnstartedHasNoTask, InHandHasNoTask, SpawningIsStarted, InHand

\* A step that neither starts nor ends a task, and puts no row back into the queue.
LEMMA QuietStep ==
  ASSUME TaskInv, TypeOK',
         \A j \in Jobs : Live(j)' = Live(j),
         \A j \in Jobs : Unstarted(j)' => Unstarted(j),
         \A j \in Jobs : InHand(j)' => InHand(j),
         worker'.pc = "spawning" => worker.pc = "spawning" /\ worker'.ids \subseteq worker.ids,
         UNCHANGED <<tokens, up>>
  PROVE  TaskInv'
  BY DEF TaskInv, TypeOK, TokenHasTask, DownHasNoTasks, LiveTaskHasToken,
         UnstartedHasNoTask, InHandHasNoTask, SpawningIsStarted

LEMMA GotoKeepsLive ==
  ASSUME TypeOK, NEW j \in Jobs, NEW s \in Slots, task[j][s].pc # "none",
         NEW pc \in TaskPC \ {"none"}, Goto(j, s, pc)
  PROVE  \A i \in Jobs : Live(i)' = Live(i)
  <1>1. task' = [task EXCEPT ![j] = [task[j] EXCEPT ![s] = [task[j][s] EXCEPT !.pc = pc]]]
    BY DEF Goto
  <1>2. \A i \in Jobs, t \in Slots :
          task'[i][t].pc = IF i = j /\ t = s THEN pc ELSE task[i][t].pc
    BY <1>1 DEF TypeOK
  <1> QED BY <1>2 DEF Live

LEMMA SignalKeepsLive ==
  ASSUME TypeOK, NEW j \in Jobs, NEW s \in Slots, Signal(j, s)
  PROVE  \A i \in Jobs : Live(i)' = Live(i)
  <1>1. task' = [task EXCEPT ![j] =
                   [task[j] EXCEPT ![s] = [task[j][s] EXCEPT !.token = "cancelled"]]]
    BY DEF Signal
  <1>2. \A i \in Jobs, t \in Slots : task'[i][t].pc = task[i][t].pc
    BY <1>1 DEF TypeOK
  <1> QED BY <1>2 DEF Live

LEMMA WriteStartsNothing ==
  ASSUME TypeOK, NEW j \in Jobs, NEW st \in Settled \cup {"deleted"}, Write(j, st)
  PROVE  \A i \in Jobs : Unstarted(i)' => Unstarted(i)
  BY DEF Write, Updated, Exists, Unstarted, TypeOK

LEMMA EndedTask ==
  ASSUME TypeOK, NEW j \in Jobs, NEW s \in Slots, task' = [task EXCEPT ![j][s] = NoTask]
  PROVE  \A i \in Jobs : Live(i)' = IF i = j THEN Live(i) \ {s} ELSE Live(i)
  <1>1. task' = [task EXCEPT ![j] = [task[j] EXCEPT ![s] = NoTask]]
    OBVIOUS
  <1> QED BY <1>1 DEF Live, NoTask, TypeOK

LEMMA TaskStepKeepsTaskInv ==
  ASSUME TaskInv, TypeOK', NEW j \in Jobs, NEW s \in Slots, TaskStep(j, s)
  PROVE  TaskInv'
  <1>0. TypeOK
    BY DEF TaskInv
  <1>1. CASE Exit(j, s)
    <2>2. \A i \in Jobs : Live(i)' = IF i = j THEN Live(i) \ {s} ELSE Live(i)
      BY <1>0, <1>1, EndedTask DEF Exit
    <2>3. s \in Live(j)
      BY <1>1 DEF Exit, At, Live
    <2>4. j \notin Ageable => Live(j) \subseteq {s}
      BY <2>3 DEF TaskInv, LiveTaskHasToken
    <2>5. tokens' = [tokens EXCEPT ![j] = NoSlot] /\ UNCHANGED <<status, up, worker>>
      BY <1>1 DEF Exit, Forgotten
    <2>6. \A i \in Jobs : Live(i)' \subseteq Live(i)
      BY <2>2
    <2>7. TokenHasTask'
      BY <1>0, <2>2, <2>5, SlotsAssumption DEF TaskInv, TypeOK, TokenHasTask
    <2>8. LiveTaskHasToken'
      BY <1>0, <2>2, <2>4, <2>5 DEF TaskInv, TypeOK, LiveTaskHasToken
    <2>9. DownHasNoTasks' /\ UnstartedHasNoTask' /\ InHandHasNoTask' /\ SpawningIsStarted'
      BY <2>5, <2>6 DEF TaskInv, DownHasNoTasks, UnstartedHasNoTask, InHandHasNoTask,
                        SpawningIsStarted, Unstarted, InHand
    <2> QED BY <2>7, <2>8, <2>9 DEF TaskInv
  <1>2. CASE Panic(j, s)
    <2>1. \A i \in Jobs : Live(i)' = IF i = j THEN Live(i) \ {s} ELSE Live(i)
      BY <1>0, <1>2, EndedTask DEF Panic
    <2>2. j \in Panicking /\ UNCHANGED <<status, tokens, up, worker>>
      BY <1>2 DEF Panic
    <2> QED BY <2>1, <2>2
            DEF TaskInv, TokenHasTask, DownHasNoTasks, LiveTaskHasToken, UnstartedHasNoTask,
                InHandHasNoTask, SpawningIsStarted, Unstarted, InHand
  <1>3. CASE ~Exit(j, s) /\ ~Panic(j, s)
    <2>1. task[j][s].pc # "none" /\ \E pc \in TaskPC \ {"none"} : Goto(j, s, pc)
      <3>1. CASE Load(j, s) \/ Cancel(j, s) \/ Guard(j, s)
        BY <3>1 DEF Load, Cancel, Guard, TaskPC, At
      <3>2. CASE Check(j, s) \/ Finish(j, s) \/ NoticeCancel(j, s) \/ DropMarker(j, s)
        BY <3>2 DEF Check, Finish, NoticeCancel, DropMarker, TaskPC, At
      <3>3. CASE Complete(j, s) \/ Fail(j, s) \/ RecordCancelled(j, s) \/ Clean(j, s)
        BY <3>3 DEF Complete, Fail, RecordCancelled, Clean, AfterSettling, TaskPC, At
      <3> QED BY <1>3, <3>1, <3>2, <3>3 DEF TaskStep
    <2>2. \A i \in Jobs : Live(i)' = Live(i)
      BY <1>0, <2>1, GotoKeepsLive
    <2>3. UNCHANGED status \/ \E st \in Settled \cup {"deleted"} : Write(j, st)
      BY <1>3 DEF TaskStep, Load, Check, Finish, NoticeCancel, DropMarker, Complete, Fail,
                  Cancel, RecordCancelled, Clean, Guard
    <2>4. \A i \in Jobs : Unstarted(i)' => Unstarted(i)
      BY <1>0, <2>3, WriteStartsNothing DEF Unstarted
    <2>5. UNCHANGED <<tokens, up, worker>>
      BY <1>3 DEF TaskStep, Load, Check, Finish, NoticeCancel, DropMarker, Complete, Fail,
                  Cancel, RecordCancelled, Clean, Guard
    <2> QED BY <2>2, <2>4, <2>5, QuietStep DEF InHand
  <1> QED BY <1>1, <1>2, <1>3

LEMMA HandlerKeepsTaskInv ==
  ASSUME TaskInv, TypeOK', HandlerNext
  PROVE  TaskInv'
  <1>0. TypeOK
    BY DEF TaskInv
  <1>1. ASSUME NEW j \in Jobs, Enqueue(j) PROVE TaskInv'
    <2>1. status[j] = "none" /\ status' = [status EXCEPT ![j] = "queued"]
      BY <1>1 DEF Enqueue
    <2>2. \A i \in Jobs : Live(i)' = Live(i) /\ (Unstarted(i)' => Unstarted(i))
      BY <1>0, <1>1, <2>1 DEF Enqueue, Live, Unstarted, TypeOK
    <2>3. UNCHANGED <<tokens, up, worker>>
      BY <1>1 DEF Enqueue
    <2> QED BY <2>2, <2>3, QuietStep DEF InHand
  <1>2. ASSUME NEW j \in Jobs, CancelSignal(j) PROVE TaskInv'
    <2>1. UNCHANGED <<status, tokens, up, worker>>
      BY <1>2 DEF CancelSignal
    <2>2. \A i \in Jobs : Live(i)' = Live(i)
      <3>1. CASE tokens[j] = NoSlot
        BY <1>2, <3>1 DEF CancelSignal, Live
      <3>2. CASE tokens[j] # NoSlot
        <4>1. tokens[j] \in Slots
          BY <1>0, <3>2 DEF TypeOK
        <4> QED BY <1>0, <1>2, <3>2, <4>1, SignalKeepsLive DEF CancelSignal
      <3> QED BY <3>1, <3>2
    <2> QED BY <2>1, <2>2, QuietStep DEF InHand, Unstarted
  <1>3. ASSUME NEW j \in Jobs,
               EnqueueWake(j) \/ CancelRead(j) \/ CancelRecheck(j) \/ CancelWake(j)
                 \/ DropHandler(j) \/ (\E n \in Requests : SetConcurrency(n))
        PROVE  TaskInv'
    <2>1. UNCHANGED <<status, tokens, task, up, worker>>
      BY <1>3 DEF EnqueueWake, CancelRead, CancelRecheck, CancelWake, DropHandler,
                  SetConcurrency
    <2> QED BY <2>1, QuietStep DEF InHand, Unstarted, Live
  <1>4. ASSUME NEW j \in Jobs, DeleteOwner(j) \/ CancelWrite(j) \/ CancelClean(j)
        PROVE  TaskInv'
    <2>1. \A i \in Jobs : Unstarted(i)' => Unstarted(i)
      <3>1. CASE DeleteOwner(j)
        BY <1>0, <3>1 DEF DeleteOwner, Unstarted, TypeOK
      <3>2. CASE CancelWrite(j)
        BY <1>0, <3>2, WriteStartsNothing DEF CancelWrite
      <3>3. CASE CancelClean(j)
        BY <1>0, <3>3, WriteStartsNothing DEF CancelClean
      <3> QED BY <1>4, <3>1, <3>2, <3>3
    <2>2. UNCHANGED <<tokens, task, up, worker>>
      BY <1>4 DEF DeleteOwner, CancelWrite, CancelClean
    <2> QED BY <2>1, <2>2, QuietStep DEF InHand, Live
  <1>5. ASSUME NEW n \in Requests, SetConcurrency(n) PROVE TaskInv'
    <2>1. UNCHANGED <<status, tokens, task, up, worker>>
      BY <1>5 DEF SetConcurrency
    <2> QED BY <2>1, QuietStep DEF InHand, Unstarted, Live
  <1> QED BY <1>1, <1>2, <1>3, <1>4, <1>5 DEF HandlerNext

LEMMA WorkerKeepsTaskInv ==
  ASSUME TaskInv, TypeOK', WorkerNext
  PROVE  TaskInv'
  <1>0. TypeOK
    BY DEF TaskInv
  <1>1. CASE ReceiveWake \/ PollTick \/ OrphansRequeued
    <2>1. UNCHANGED <<status, tokens, task, up>> /\ worker'.pc \notin {"requeueing", "spawning"}
      BY <1>1 DEF ReceiveWake, PollTick, OrphansRequeued
    <2> QED BY <2>1, QuietStep DEF InHand, Unstarted, Live
  <1>2. CASE FilterOrphans
    <2>1. UNCHANGED <<status, tokens, task, up>>
      BY <1>2 DEF FilterOrphans
    <2>2. \A j \in Jobs : Live(j)' = Live(j) /\ (Unstarted(j)' <=> Unstarted(j))
      BY <2>1 DEF Live, Unstarted
    <2>3. worker'.pc = "requeueing" /\ \A j \in worker'.ids : tokens[j] = NoSlot
      BY <1>2 DEF FilterOrphans, Orphans
    <2>4. \A j \in Jobs \ Ageable : tokens[j] = NoSlot => Live(j) = {}
      BY SlotsAssumption DEF TaskInv, LiveTaskHasToken, Live
    <2>5. InHandHasNoTask'
      BY <2>2, <2>3, <2>4 DEF InHandHasNoTask, InHand
    <2> QED BY <2>1, <2>2, <2>3, <2>5
            DEF TaskInv, TokenHasTask, DownHasNoTasks, LiveTaskHasToken,
                UnstartedHasNoTask, SpawningIsStarted
  <1>3. CASE RequeueStuck
    <2>1. UNCHANGED <<tokens, task, up>> /\ worker'.pc = "claiming"
      BY <1>3 DEF RequeueStuck
    <2>2. \A j \in Jobs \ Ageable : Unstarted(j)' => Unstarted(j) \/ Live(j) = {}
      BY <1>0, <1>3 DEF RequeueStuck, MayBeOld, Unstarted, TypeOK
    <2>3. \A j \in Jobs : Live(j)' = Live(j)
      BY <2>1 DEF Live
    <2> QED BY <2>1, <2>2, <2>3
            DEF TaskInv, TokenHasTask, DownHasNoTasks, LiveTaskHasToken,
                UnstartedHasNoTask, InHandHasNoTask, SpawningIsStarted, InHand
  <1>4. CASE ClaimJobs
    <2>1. PICK S \in SUBSET Jobs :
            /\ Claimed(S)
            /\ status' = [j \in Jobs |-> IF j \in S THEN "running" ELSE status[j]]
            /\ worker' = IF S = {} THEN Waiting ELSE [pc |-> "spawning", ids |-> S]
      BY <1>4 DEF ClaimJobs
    <2>2. UNCHANGED <<tokens, task, up>>
      BY <1>4 DEF ClaimJobs
    <2>8. up
      BY <1>4 DEF ClaimJobs
    <2>3. \A j \in Jobs : Live(j)' = Live(j)
      BY <2>2 DEF Live
    <2>4. \A j \in Jobs : Unstarted(j)' => Unstarted(j)
      BY <2>1 DEF Unstarted
    <2>5. \A j \in S : Unstarted(j) /\ ~Unstarted(j)'
      BY <2>1 DEF Claimed, Eligible, Queued, Unstarted
    <2>6. \A j \in Jobs : InHand(j)' => j \in S
      BY <2>1 DEF InHand, Waiting
    <2>7. worker'.pc = "spawning" => worker'.ids = S
      BY <2>1 DEF Waiting
    <2> QED BY <2>2, <2>3, <2>4, <2>5, <2>6, <2>7, <2>8
            DEF TaskInv, TokenHasTask, DownHasNoTasks, LiveTaskHasToken,
                UnstartedHasNoTask, InHandHasNoTask, SpawningIsStarted
  <1>5. ASSUME NEW j \in Jobs, RequeueOrphan(j) PROVE TaskInv'
    <2>1. worker.pc = "requeueing" /\ j \in worker.ids /\ UNCHANGED <<tokens, task, up>>
      BY <1>5 DEF RequeueOrphan
    <2>2. worker'.pc = "requeueing" /\ worker'.ids \subseteq worker.ids
      BY <1>0, <1>5, <2>1 DEF RequeueOrphan, TypeOK
    <2>3. \A i \in Jobs : Live(i)' = Live(i)
      BY <2>1 DEF Live
    <2>4. \A i \in Jobs : Unstarted(i)' => Unstarted(i) \/ i = j
      BY <1>0, <1>5 DEF RequeueOrphan, RequeuedById, Unstarted, TypeOK
    <2>5. j \notin Ageable => Live(j) = {}
      BY <2>1 DEF TaskInv, InHandHasNoTask, InHand
    <2>6. UnstartedHasNoTask'
      BY <2>3, <2>4, <2>5 DEF TaskInv, UnstartedHasNoTask
    <2>7. InHandHasNoTask'
      BY <2>1, <2>2, <2>3 DEF TaskInv, InHandHasNoTask, InHand
    <2> QED BY <2>1, <2>2, <2>3, <2>6, <2>7
            DEF TaskInv, TokenHasTask, DownHasNoTasks, LiveTaskHasToken, SpawningIsStarted
  <1>6. ASSUME NEW j \in Jobs, NEW s \in Slots, Spawn(j, s) PROVE TaskInv'
    <2> DEFINE new == [pc |-> "loading", token |-> "clear"]
    <2>1. /\ up /\ worker.pc = "spawning" /\ j \in worker.ids
          /\ tokens' = [tokens EXCEPT ![j] = s]
          /\ task' = [task EXCEPT ![j] = [task[j] EXCEPT ![s] = new]]
          /\ UNCHANGED <<status, up>>
      BY <1>6 DEF Spawn
    <2>2. worker'.pc = "spawning" => worker'.ids = worker.ids \ {j}
      BY <1>0, <1>6 DEF Spawn, TypeOK
    <2>3. worker'.pc \in {"spawning", "claiming"}
      BY <1>0, <1>6 DEF Spawn, TypeOK
    <2>4. \A i \in Jobs : Live(i)' = IF i = j THEN Live(i) \cup {s} ELSE Live(i)
      BY <1>0, <2>1 DEF Live, TypeOK
    <2>5. j \notin Ageable => Live(j) = {} /\ ~Unstarted(j)
      BY <2>1 DEF TaskInv, InHandHasNoTask, InHand, SpawningIsStarted
    <2>6. TokenHasTask' /\ DownHasNoTasks' /\ LiveTaskHasToken'
      BY <1>0, <2>1, <2>4, <2>5 DEF TaskInv, TypeOK, TokenHasTask, DownHasNoTasks,
                                    LiveTaskHasToken
    <2>7. UnstartedHasNoTask'
      BY <2>1, <2>4, <2>5 DEF TaskInv, UnstartedHasNoTask, Unstarted
    <2>8. InHandHasNoTask' /\ SpawningIsStarted'
      BY <2>1, <2>2, <2>3, <2>4 DEF TaskInv, InHandHasNoTask, InHand, SpawningIsStarted,
                                    Unstarted
    <2> QED BY <2>6, <2>7, <2>8 DEF TaskInv
  <1> QED BY <1>1, <1>2, <1>3, <1>4, <1>5, <1>6 DEF WorkerNext

LEMMA TaskInvStep == TaskInv /\ [Next]_vars => TaskInv'
  <1> SUFFICES ASSUME TaskInv, [Next]_vars PROVE TaskInv'
    OBVIOUS
  <1>0. TypeOK /\ TypeOK'
    BY TypeStep DEF TaskInv
  <1>1. CASE HandlerNext
    BY <1>0, <1>1, HandlerKeepsTaskInv
  <1>2. CASE WorkerNext
    BY <1>0, <1>2, WorkerKeepsTaskInv
  <1>3. ASSUME NEW j \in Jobs, NEW s \in Slots, TaskStep(j, s) PROVE TaskInv'
    BY <1>0, <1>3, TaskStepKeepsTaskInv
  <1>4. CASE Crash
    <2>1. \A j \in Jobs : Live(j)' = {} /\ tokens'[j] = NoSlot /\ ~InHand(j)'
      BY <1>4 DEF Crash, Live, NoTask, Waiting, InHand
    <2>2. worker'.pc # "spawning"
      BY <1>4 DEF Crash, Waiting
    <2> QED BY <1>0, <2>1, <2>2
            DEF TaskInv, TokenHasTask, DownHasNoTasks, LiveTaskHasToken,
                UnstartedHasNoTask, InHandHasNoTask, SpawningIsStarted
  <1>5. CASE Restart
    <2>1. \A j \in Jobs : Live(j) = {} /\ Live(j)' = {}
      BY <1>5 DEF Restart, TaskInv, DownHasNoTasks, Live
    <2>2. UNCHANGED <<tokens, worker>>
      BY <1>5 DEF Restart
    <2>3. worker.pc # "spawning"
      BY <1>5 DEF Restart, TaskInv, SpawningIsStarted
    <2> QED BY <1>0, <2>1, <2>2, <2>3
            DEF TaskInv, TokenHasTask, DownHasNoTasks, LiveTaskHasToken,
                UnstartedHasNoTask, InHandHasNoTask, SpawningIsStarted
  <1>6. CASE UNCHANGED vars
    BY <1>6, <1>0, QuietStep DEF Live, Unstarted, InHand
  <1> QED BY <1>1, <1>2, <1>3, <1>4, <1>5, <1>6 DEF Next

\* The tokens, the rows and the worker's list of ids agree with the tasks alive.
THEOREM TaskInvariant == Spec => []TaskInv
  BY TaskInvInit, TaskInvStep, PTL DEF Spec

\* The token map never shields from the poll a row whose task is gone.
THEOREM TokensHaveTasks == Spec => []TokenHasTask
  BY TaskInvariant, PTL DEF TaskInv

\* However the poll, crashes, faults and cancel requests interleave, a job that
\* requeue_stuck_jobs leaves alone has one task at most.
THEOREM NoJobRunsTwice == Spec => []OneTaskPerJob
  <1>1. TaskInv => OneTaskPerJob
    BY DEF TaskInv, LiveTaskHasToken, OneTaskPerJob
  <1> QED BY <1>1, TaskInvariant, PTL

-----------------------------------------------------------------------------
(* No wake-up is lost.  Two things wake nobody although they free a slot: a request *)
(* that raises the setting and the deletion of a running row, so the theorem is    *)
(* about queues without them.                                                      *)

NeverRaised == \A m, n \in Requests : Clamp(n) <= Clamp(m) /\ Clamp(n) <= DefaultCap

CapAsRequested == cap = DefaultCap \/ \E n \in Requests : cap = Clamp(n)
Startable == Eligible # {} /\ FreeSlots > 0
Owes(j, s) ==
    \/ task[j][s].pc \in {"cleaning", "exiting"}
    \/ task[j][s].pc = "completing" /\ status[j] # "running"

WakeInv == TypeOK /\ CapAsRequested /\ NoLostWakeup

\* Rows that go on running, leave the queue or stay in it make nothing startable.
LEMMA NothingFreed ==
  ASSUME TypeOK, TypeOK', cap' <= cap,
         Running \subseteq Running', Queued' \subseteq Queued, Startable'
  PROVE  Startable
  <1>1. Eligible' \subseteq Eligible
    BY DEF Eligible, OutlineBusy
  <1>2. Cardinality(Running) <= Cardinality(Running')
    <2>1. IsFiniteSet(Running')
      BY JobsAssumption, FS_Subset DEF Running
    <2> QED BY <2>1, FS_Subset
  <1>3. Cardinality(Running) \in Nat /\ Cardinality(Running') \in Nat
    BY JobsAssumption, FS_Subset, FS_CardinalityType DEF Running
  <1>4. FreeSlots' <= FreeSlots /\ FreeSlots' \in Nat /\ FreeSlots \in Nat
    <2>1. cap \in Nat /\ cap' \in Nat
      BY DEF TypeOK
    <2>2. cap' - Cardinality(Running') <= cap - Cardinality(Running)
      BY <1>2, <1>3, <2>1
    <2> QED BY <1>3, <2>1, <2>2, ClaimLimitAssumption DEF FreeSlots
  <1>5. Eligible' # {} /\ FreeSlots' > 0
    BY DEF Startable
  <1> QED BY <1>1, <1>4, <1>5 DEF Startable

\* A step of a task that may free something owes the worker a wake-up, or sends it.
LEMMA TaskStepOwes ==
  ASSUME TypeOK, NEW j \in Jobs, NEW s \in Slots, TaskStep(j, s), faults' = faults
  PROVE  \/ wake'
         \/ Owes(j, s)'
         \/ UNCHANGED <<status, wake>> /\ ~Owes(j, s)
  <1>1. CASE Exit(j, s)
    BY <1>1 DEF Exit
  <1>2. CASE Load(j, s) \/ Check(j, s) \/ Finish(j, s) \/ NoticeCancel(j, s) \/ Cancel(j, s)
               \/ Guard(j, s)
    BY <1>2 DEF Load, Check, Finish, NoticeCancel, Cancel, Guard, At, Owes
  <1>3. CASE Panic(j, s)
    BY <1>3 DEF Panic, Fault, TypeOK
  <1>4. ASSUME NEW pc \in {"cleaning", "exiting"}, Goto(j, s, pc) PROVE Owes(j, s)'
    <2>1. task' = [task EXCEPT ![j] = [task[j] EXCEPT ![s] = [task[j][s] EXCEPT !.pc = pc]]]
      BY <1>4 DEF Goto
    <2>2. task'[j][s].pc = pc
      BY <2>1 DEF TypeOK
    <2> QED BY <2>2 DEF Owes
  <1>5. CASE DropMarker(j, s)
    <2>1. task' = [task EXCEPT ![j] =
                     [task[j] EXCEPT ![s] = [task[j][s] EXCEPT !.pc = "completing"]]]
      BY <1>5 DEF DropMarker, Goto
    <2>2. task'[j][s].pc = "completing"
      BY <2>1 DEF TypeOK
    <2>3. status'[j] # "running"
      BY <1>5 DEF DropMarker, Write, Updated, Exists, TypeOK
    <2> QED BY <2>2, <2>3 DEF Owes
  <1>6. ~Fault
    BY DEF Fault, TypeOK
  <1>7. CASE Complete(j, s) \/ Fail(j, s) \/ RecordCancelled(j, s) \/ Clean(j, s)
    BY <1>4, <1>6, <1>7 DEF Complete, Fail, RecordCancelled, Clean, AfterSettling
  <1> QED BY <1>1, <1>2, <1>3, <1>5, <1>7 DEF TaskStep

LEMMA TaskStepKeepsWakeInv ==
  ASSUME WakeInv, TypeOK', NEW j \in Jobs, NEW s \in Slots, TaskStep(j, s)
  PROVE  NoLostWakeup'
  <1> SUFFICES ASSUME up', faults' = 0, Startable' PROVE wake' \/ worker'.pc # "waiting" \/ WakeOwed'
    BY DEF NoLostWakeup, Startable
  <1>1. UNCHANGED <<cap, up, worker, submitter, canceller>> /\ faults' = faults
    <2>1. ~Fault
      BY DEF Fault, WakeInv, TypeOK
    <2>2. UNCHANGED <<cap, up, worker, submitter, canceller>>
      BY DEF TaskStep, Load, Check, Finish, NoticeCancel, DropMarker, Complete, Fail, Cancel,
             RecordCancelled, Clean, Guard, Panic, Exit
    <2>3. UNCHANGED bounds
      BY <2>1 DEF TaskStep, Load, Check, Finish, NoticeCancel, DropMarker, Complete, Fail,
                  Cancel, RecordCancelled, Clean, Guard, Panic, Exit
    <2> QED BY <2>2, <2>3
  <1>2. CASE wake'
    BY <1>2
  <1>3. CASE Owes(j, s)'
    BY <1>3 DEF Owes, WakeOwed
  <1>4. CASE UNCHANGED <<status, wake>> /\ ~Owes(j, s)
    <2>1. Startable
      BY <1>1, <1>4, NothingFreed DEF WakeInv, TypeOK, Running, Queued
    <2>2. wake \/ worker.pc # "waiting" \/ WakeOwed
      BY <1>1, <2>1 DEF WakeInv, NoLostWakeup, Startable
    <2>3. ASSUME NEW i \in Jobs, NEW t \in Slots, Owes(i, t) PROVE Owes(i, t)'
      <3>1. i # j \/ t # s
        BY <1>4, <2>3
      <3>2. task'[i][t] = task[i][t]
        <4>1. task \in [Jobs -> [Slots -> TaskRecord]]
          BY DEF WakeInv, TypeOK, TaskRecord
        <4>2. \E r : task' = [task EXCEPT ![j] = [task[j] EXCEPT ![s] = r]]
          BY DEF TaskStep, Load, Check, Finish, NoticeCancel, DropMarker, Complete, Fail,
                 Cancel, RecordCancelled, Clean, Guard, Panic, Exit, Goto
        <4> QED BY <3>1, <4>1, <4>2
      <3> QED BY <1>4, <2>3, <3>2 DEF Owes
    <2> QED BY <1>1, <1>4, <2>2, <2>3 DEF WakeOwed, Owes
  <1> QED BY <1>1, <1>2, <1>3, <1>4, TaskStepOwes DEF WakeInv

LEMMA HandlerKeepsWakeInv ==
  ASSUME Deletable = {}, NeverRaised, WakeInv, TypeOK', HandlerNext
  PROVE  NoLostWakeup' /\ CapAsRequested'
  <1>1. CapAsRequested' /\ cap' <= cap
    <2>1. CASE cap' = cap
      BY <2>1 DEF WakeInv, TypeOK, CapAsRequested
    <2>2. ASSUME NEW n \in Requests, SetConcurrency(n) PROVE CapAsRequested' /\ cap' <= cap
      BY <2>2 DEF SetConcurrency, NeverRaised, WakeInv, CapAsRequested
    <2> QED BY <2>1, <2>2 DEF HandlerNext, Enqueue, EnqueueWake, DeleteOwner, CancelRead,
            CancelSignal, CancelRecheck, CancelWrite, CancelClean, CancelWake, DropHandler
  <1>2. SUFFICES ASSUME up', faults' = 0, Startable'
                 PROVE  wake' \/ worker'.pc # "waiting" \/ WakeOwed'
    BY <1>1 DEF NoLostWakeup, Startable
  <1>3. ASSUME NEW j \in Jobs, Enqueue(j) \/ EnqueueWake(j) \/ CancelWake(j)
        PROVE  wake' \/ WakeOwed'
    BY <1>3 DEF Enqueue, EnqueueWake, CancelWake, WakeOwed
  <1>4. ASSUME NEW j \in Jobs, CancelWrite(j) \/ CancelClean(j) PROVE WakeOwed'
    <2>1. canceller \in [Jobs -> CancelPC]
      BY DEF WakeInv, TypeOK
    <2>2. canceller'[j] \in {"cleaning", "waking"}
      BY <1>4, <2>1 DEF CancelWrite, CancelClean
    <2> QED BY <2>2 DEF WakeOwed
  <1>5. ASSUME NEW j \in Jobs, DropHandler(j) \/ DeleteOwner(j) PROVE FALSE
    BY <1>2, <1>5 DEF DropHandler, Fault, DeleteOwner, WakeInv, TypeOK
  <1>6. ASSUME UNCHANGED <<status, up, wake, worker, submitter, faults>>,
               \A i \in Jobs : canceller[i] \in {"cleaning", "waking"} => canceller'[i] = canceller[i],
               \A i \in Jobs, t \in Slots : task'[i][t].pc = task[i][t].pc
        PROVE  wake' \/ worker'.pc # "waiting" \/ WakeOwed'
    <2>1. Startable
      BY <1>1, <1>2, <1>6, NothingFreed DEF WakeInv, TypeOK, Running, Queued
    <2>2. wake \/ worker.pc # "waiting" \/ WakeOwed
      BY <1>2, <1>6, <2>1 DEF WakeInv, NoLostWakeup, Startable
    <2> QED BY <1>6, <2>2 DEF WakeOwed
  <1>7. ASSUME NEW j \in Jobs, CancelRead(j) \/ CancelRecheck(j)
        PROVE  wake' \/ worker'.pc # "waiting" \/ WakeOwed'
    <2>1. \A i \in Jobs : canceller[i] \in {"cleaning", "waking"} => canceller'[i] = canceller[i]
      BY <1>7 DEF CancelRead, CancelRecheck, WakeInv, TypeOK
    <2> QED BY <1>6, <1>7, <2>1 DEF CancelRead, CancelRecheck
  <1>8. ASSUME NEW j \in Jobs, CancelSignal(j)
        PROVE  wake' \/ worker'.pc # "waiting" \/ WakeOwed'
    <2>1. \A i \in Jobs : canceller[i] \in {"cleaning", "waking"} => canceller'[i] = canceller[i]
      BY <1>8 DEF CancelSignal, WakeInv, TypeOK
    <2>2. \A i \in Jobs, t \in Slots : task'[i][t].pc = task[i][t].pc
      <3>1. CASE UNCHANGED task
        BY <3>1
      <3>2. CASE tokens[j] # NoSlot /\ Signal(j, tokens[j])
        <4>1. tokens[j] \in Slots
          BY <3>2 DEF WakeInv, TypeOK
        <4>2. task' = [task EXCEPT ![j] = [task[j] EXCEPT ![tokens[j]] =
                         [task[j][tokens[j]] EXCEPT !.token = "cancelled"]]]
          BY <3>2 DEF Signal
        <4> QED BY <4>1, <4>2 DEF WakeInv, TypeOK
      <3> QED BY <1>8, <3>1, <3>2 DEF CancelSignal
    <2> QED BY <1>6, <1>8, <2>1, <2>2 DEF CancelSignal
  <1>9. ASSUME NEW n \in Requests, SetConcurrency(n)
        PROVE  wake' \/ worker'.pc # "waiting" \/ WakeOwed'
    BY <1>6, <1>9 DEF SetConcurrency
  <1> QED BY <1>3, <1>4, <1>5, <1>7, <1>8, <1>9 DEF HandlerNext

\* The worker goes to sleep only after a claim that found nothing it could start.
LEMMA WorkerKeepsWakeInv ==
  ASSUME WakeInv, TypeOK', WorkerNext
  PROVE  NoLostWakeup'
  <1>1. CASE ReceiveWake \/ PollTick \/ FilterOrphans \/ OrphansRequeued \/ RequeueStuck
    <2>1. worker'.pc # "waiting"
      BY <1>1 DEF ReceiveWake, PollTick, FilterOrphans, OrphansRequeued, RequeueStuck
    <2> QED BY <2>1 DEF NoLostWakeup
  <1>2. ASSUME NEW j \in Jobs, RequeueOrphan(j) PROVE NoLostWakeup'
    <2>1. worker'.pc # "waiting"
      BY <1>2 DEF RequeueOrphan, WakeInv, TypeOK
    <2> QED BY <2>1 DEF NoLostWakeup
  <1>3. ASSUME NEW j \in Jobs, NEW s \in Slots, Spawn(j, s) PROVE NoLostWakeup'
    <2>1. worker'.pc # "waiting"
      BY <1>3 DEF Spawn, WakeInv, TypeOK
    <2> QED BY <2>1 DEF NoLostWakeup
  <1>4. CASE ClaimJobs
    <2>1. PICK S \in SUBSET Jobs :
            /\ Claimed(S)
            /\ status' = [j \in Jobs |-> IF j \in S THEN "running" ELSE status[j]]
            /\ worker' = IF S = {} THEN Waiting ELSE [pc |-> "spawning", ids |-> S]
      BY <1>4 DEF ClaimJobs
    <2>2. CASE S # {}
      BY <2>1, <2>2 DEF NoLostWakeup
    <2>3. CASE S = {}
      <3>1. status' = status /\ cap' = cap
        BY <1>4, <2>1, <2>3 DEF ClaimJobs, WakeInv, TypeOK
      <3>2. ~Startable
        <4>1. Eligible # {} => FreeSlots = 0
          BY <2>1, <2>3, FS_EmptySet DEF Claimed
        <4> QED BY <4>1 DEF Startable
      <3>3. cap' <= cap
        BY <3>1 DEF WakeInv, TypeOK
      <3>4. ~Startable'
        BY <3>1, <3>2, <3>3, NothingFreed DEF WakeInv, Running, Queued
      <3> QED BY <3>4 DEF Startable, NoLostWakeup
    <2> QED BY <2>2, <2>3
  <1> QED BY <1>1, <1>2, <1>3, <1>4 DEF WorkerNext

LEMMA WakeInvStep ==
  ASSUME Deletable = {}, NeverRaised
  PROVE  WakeInv /\ [Next]_vars => WakeInv'
  <1> SUFFICES ASSUME WakeInv, [Next]_vars PROVE WakeInv'
    OBVIOUS
  <1>0. TypeOK'
    BY TypeStep DEF WakeInv
  <1>1. CASE HandlerNext
    BY <1>0, <1>1, HandlerKeepsWakeInv DEF WakeInv
  <1>2. CASE WorkerNext
    <2>1. cap' = cap
      BY <1>2 DEF WorkerNext, ReceiveWake, PollTick, FilterOrphans, OrphansRequeued,
                  RequeueStuck, ClaimJobs, RequeueOrphan, Spawn
    <2> QED BY <1>0, <1>2, <2>1, WorkerKeepsWakeInv DEF WakeInv, CapAsRequested
  <1>3. ASSUME NEW j \in Jobs, NEW s \in Slots, TaskStep(j, s) PROVE WakeInv'
    <2>1. cap' = cap
      BY <1>3 DEF TaskStep, Load, Check, Finish, NoticeCancel, DropMarker, Complete, Fail,
                  Cancel, RecordCancelled, Clean, Guard, Panic, Exit
    <2> QED BY <1>0, <1>3, <2>1, TaskStepKeepsWakeInv DEF WakeInv, CapAsRequested
  <1>4. CASE Crash
    BY <1>0, <1>4 DEF Crash, WakeInv, CapAsRequested, NoLostWakeup
  <1>5. CASE Restart
    BY <1>0, <1>5 DEF Restart, WakeInv, CapAsRequested, NoLostWakeup
  <1>6. CASE UNCHANGED vars
    BY <1>0, <1>6 DEF WakeInv, CapAsRequested, NoLostWakeup, WakeOwed, Eligible, OutlineBusy,
                      FreeSlots, Running, Queued
  <1> QED BY <1>1, <1>2, <1>3, <1>4, <1>5, <1>6 DEF Next

\* Whoever enqueues, cancels, claims, ends or crashes, and in whatever order: as long as
\* nothing fails, the worker does not sleep over a job that could start.
THEOREM NoWakeupIsLost ==
  ASSUME Deletable = {}, NeverRaised
  PROVE  Spec => []NoLostWakeup
  <1>1. Init => WakeInv
    BY TypeInit DEF Init, WakeInv, CapAsRequested, NoLostWakeup
  <1>2. WakeInv => NoLostWakeup
    BY DEF WakeInv
  <1> QED BY <1>1, <1>2, WakeInvStep, PTL DEF Spec
=============================================================================
