----------------------------- MODULE ChatProofs -----------------------------
(* A chat from both ends: the message the tasks write, and the page that follows it.  *)
(* The two specifications share nothing but this module; the page comes last.         *)
(*                                                                                    *)
(* Why a message, its audit and the changes of the chat's state agree.  Beside        *)
(* regenerates that meet nobody (~busy) only the latest job of a message is at work,  *)
(* or the handler of a regenerate and nobody else (Only).  What the latest job may    *)
(* find and has to leave is then said by its place: of the audit (Audited), of the    *)
(* text it completes (Wholly) and of the text anybody leaves (Telling).  Where        *)
(* regenerates do race with the tasks they replace, an empty streamed message still   *)
(* waits for somebody (Awaited).                                                      *)
EXTENDS ChatReply, LiveSync, FiniteSetTheorems, SequenceTheorems, WellFoundedInduction, TLAPS

Contents == [text : {"empty", "placeholder", "none", "thought", "partial", "whole"}, by : Nat]
Effects == Jobs \X Nat \X {"plan", "tool"}
MergeGoals == {"none", "streaming", "turning", "checking", "completing"}
Runs == [attempt : Nat, text : {"none", "thought", "partial", "whole"}, applied : SUBSET Effects,
         seen : Contents, next : MergeGoals, token : {"clear", "cancelled"}]
Statuses == {"none", "queued", "running", "completed", "failed", "cancelled"}

Marks == {"looking", "marking"}
Recording == {"rechecking", "recording", "calming"} \cup Marks
TypedPlaces == {"planning", "savingPlan", "unthinking", "ending", "turning", "tooling",
                "auditing", "flushing", "closing"}
PlainPlaces == {"opening", "breaking", "keeping"}
Tries == {"clearing", "forgetting", "backoff", "opening", "streaming", "merging", "checking",
          "finalizing"} \cup TypedPlaces
TaskPlaces == {"none", "loading", "begin", "completing", "givingUp", "apologizing",
               "settlingThought", "failing"} \cup Tries \cup PlainPlaces \cup Recording
Clearing == {"forgetting", "untyping", "enqueueing"}
Alone == {"reverting", "listing", "cancelling", "clearing"} \cup Clearing
Places == TaskPlaces \cup {"signalling"} \cup Alone

Types ==
    /\ mode \in ModeTypes /\ content \in Contents /\ thinking \in BOOLEAN /\ busy \in BOOLEAN
    /\ audit \in SUBSET Effects /\ effects \in SUBSET Effects
    /\ status \in [Jobs -> Statuses]
    /\ run \in [Jobs -> Runs]
    /\ pc \in [Actors -> Places]
    /\ subject \in [Handlers -> Jobs]
    /\ regen \in [snapshot : SUBSET Effects, todo : SUBSET Jobs]
    /\ used \in [cancels : Nat, regenerates : Nat, crashes : Nat, failures : Nat]

Started(j) == status[j] # "none"

\* Jobs come one after the other, and handlers deal with those that came.
Numbered ==
    /\ \E j \in Jobs : Started(j) /\ \A i \in Jobs : i > j => status[i] = "none"
    /\ \A i, j \in Jobs : i < j /\ Started(j) => Started(i)
    /\ \A h \in Handlers : Started(subject[h])
    /\ \A j \in regen.todo : Started(j)

HandlersAt ==
    /\ pc[Canceller] \in {"none", "signalling"} \cup Recording
    /\ pc[Regenerator] \in {"none", "signalling"} \cup Recording \cup Alone
    /\ ~At(Regenerator, "none") => \E j \in Jobs : ~Started(j)
    /\ used.cancels = 0 => At(Canceller, "none")

\* What the place p of a task says of its job's status and its run r under the settings m.
ShapeOf(m, st, p, r) ==
    /\ p \in TaskPlaces
    /\ st \in {"none", "queued"} => p = "none"
    /\ IF p = "keeping" \/ (p = "merging" /\ r.next = "none")
       THEN st \in {"failed", "cancelled"} ELSE p # "none" => st \in {"running", "cancelled"}
    /\ p \in {"calming"} \cup Marks => st = "cancelled"
    /\ p \in TypedPlaces => m.typed
    /\ p \in PlainPlaces => ~m.typed
    /\ p = "unthinking" => m.thoughts
    /\ p = "finalizing" => m.typed \/ m.thoughts
    /\ ~m.thoughts => r.text # "thought"
    /\ p \in Tries \cup PlainPlaces => r.attempt > 0
    /\ p \in {"clearing", "forgetting", "backoff"} => r.attempt > 1
    /\ p \in {"loading", "begin"} => r.attempt = 0
    /\ p \in {"clearing", "forgetting", "backoff", "loading", "begin", "planning", "savingPlan",
              "unthinking", "opening"} => r.text = "none"
    /\ p = "merging" =>
           /\ m.typed \/ m.thoughts
           /\ r.next \in {"turning", "checking"} => m.typed
           /\ r.next = "none" => ~m.typed
           /\ r.next # "completing" => m.thoughts
    /\ p \in {"closing", "checking"} \/ (p = "merging" /\ r.next = "checking") => r.text # "partial"
    /\ p = "finalizing" \/ (p = "merging" /\ r.next = "completing") =>
           r.text = "whole" \/ (m.typed /\ r.text = "thought")
    /\ p \in {"breaking", "keeping"} => r.text # "none"
Shape(j) == ShapeOf(mode, status[j], pc[j], run[j])

\* Until a crash, a running job has its task, and a queued one has had none.
Unbroken ==
    ~Crashed => \A j \in Jobs :
        /\ status[j] \in {"none", "queued"} => run[j].attempt = 0
        /\ status[j] = "running" => ~At(j, "none")

Only ==
    ~busy =>
        /\ \A j \in Jobs : j # Latest => At(j, "none") /\ status[j] \notin Active
        /\ ~At(Regenerator, "none") =>
               /\ \A a \in Actors : a # Regenerator => At(a, "none")
               /\ \A j \in Jobs : status[j] \notin Active
               /\ pc[Regenerator] \in Alone
               /\ regen.todo = {}

Early == {"loading", "begin", "planning", "opening"}
Unsaved == {"savingPlan", "auditing"}
AfterPlan == {"unthinking", "streaming", "merging", "ending", "turning", "tooling", "flushing",
              "closing", "checking", "finalizing", "breaking", "keeping"}

\* The audit au tells the changes ef, but for those the job is about to save.
AuditOf(au, ef, st, p, r) ==
    /\ p \notin Unsaved => au = ef
    /\ st = "queued" => ef = {}
    /\ p \in Early => ef = {} /\ r.applied = {}
    /\ p \in Unsaved \cup AfterPlan => r.applied = ef
AuditedByRegenerate ==
    /\ At(Regenerator, "reverting") => audit = effects /\ regen.snapshot = effects
    /\ ~At(Regenerator, "reverting") => effects = {}
    /\ At(Regenerator, "enqueueing") => audit = {}
Audited ==
    /\ ~mode.typed => effects = {}
    /\ ~Crashed /\ ~Retried /\ ~busy =>
           IF At(Regenerator, "none")
           THEN AuditOf(audit, effects, status[Latest], pc[Latest], run[Latest])
           ELSE AuditedByRegenerate

ReplyOf(j, text) == IF HasReply(text) THEN [text |-> text, by |-> j] ELSE Empty

\* The content c of a message that nobody but job j writes becomes its whole reply.
WholeOf(j, c, th, st, p, r) ==
    /\ st = "queued" \/ p \in {"loading", "begin"} => c = Empty
    /\ p \in Tries \cup PlainPlaces /\ r.text = "thought" => c = Empty
    /\ p \in Tries /\ r.text = "none" =>
           \/ c = Empty
           \/ p \in {"clearing", "closing", "checking"}
           \/ p = "merging" /\ r.next = "checking"
    /\ p = "merging" => r.seen = c
    /\ p = "completing" \/ st = "completed" =>
           c = ReplyOf(j, r.text) /\ r.text \in {"whole", "thought"} /\ ~th
Wholly ==
    ~Crashed /\ used.cancels = 0 /\ ~busy /\ (mode.typed \/ mode.thoughts) =>
        IF At(Regenerator, "none")
        THEN WholeOf(Latest, content, thinking, status[Latest], pc[Latest], run[Latest])
        ELSE pc[Regenerator] \in Clearing => content = Empty

Done == {"completing", "settlingThought", "failing", "breaking", "keeping"}

\* Without thought blocks, the content c that a job settles is not empty.
TellOf(m, c, st, p, r) ==
    /\ st \in {"completed", "failed"} \/ p \in Done => c # Empty
    /\ ~m.typed /\ p # "none" /\ r.text # "none" => c # Empty
Telling ==
    ~mode.thoughts =>
        /\ ~thinking
        /\ ~busy /\ At(Regenerator, "none") =>
               TellOf(mode, content, status[Latest], pc[Latest], run[Latest])

\* A streamed message is empty until its latest job has written, or has been cancelled
\* by one who is about to write the placeholder.
AwaitOf(st, p, r) ==
    /\ st \in Active \cup {"cancelled"}
    /\ p \notin Done
    /\ p # "none" => r.text = "none"
Awaited ==
    Streamed /\ ~Crashed /\ content = Empty /\ pc[Regenerator] \notin Clearing =>
        /\ AwaitOf(status[Latest], pc[Latest], run[Latest])
        /\ status[Latest] = "cancelled" => \E a \in Actors : pc[a] \in Marks

ReplyInv ==
    /\ Types /\ Numbered /\ HandlersAt /\ (\A j \in Jobs : Shape(j)) /\ Unbroken /\ Only
    /\ Audited /\ Wholly /\ Telling /\ Awaited

-----------------------------------------------------------------------------
(* The latest job                                                           *)

LEMMA HandlersAre ==
    /\ Jobs \subseteq Nat /\ 1 \in Jobs
    /\ Canceller \in Handlers /\ Regenerator \in Handlers /\ Canceller # Regenerator
    /\ Handlers \subseteq Actors /\ Jobs \subseteq Actors
    /\ \A a \in Actors : a \in Jobs \/ a = Canceller \/ a = Regenerator
    /\ \A h \in Handlers : h \notin Jobs /\ (h = Canceller \/ h = Regenerator)
  BY JobsAssumption, HandlersAssumption DEF Handlers, Actors

LEMMA LatestIs ==
    ASSUME Numbered
    PROVE  /\ Latest \in Jobs /\ Started(Latest)
           /\ \A i \in Jobs : i > Latest => ~Started(i)
  BY DEF Numbered, Latest, Started

LEMMA LatestIsOne ==
    ASSUME Numbered, NEW j \in Jobs, Started(j), \A i \in Jobs : i > j => ~Started(i)
    PROVE  Latest = j
  <1>1. /\ Latest \in Jobs /\ Started(Latest) /\ \A i \in Jobs : i > Latest => ~Started(i)
    BY LatestIs
  <1>2. Latest \in Nat /\ j \in Nat
    BY <1>1, HandlersAre
  <1> QED
    BY <1>1, <1>2

\* The latest job is the same while no job comes.
LEMMA LatestStays ==
    ASSUME Numbered, \A j \in Jobs : Started(j)' <=> Started(j)
    PROVE  /\ Latest' = Latest
           /\ \E j \in Jobs : Started(j)' /\ \A i \in Jobs : i > j => status'[i] = "none"
           /\ \A i, j \in Jobs : i < j /\ Started(j)' => Started(i)'
  <1>1. /\ Latest \in Jobs /\ Started(Latest)
        /\ \A i \in Jobs : i > Latest => ~Started(i)
    BY LatestIs
  <1>2. Latest' = CHOOSE j \in Jobs : status'[j] # "none" /\ \A i \in Jobs : i > j => status'[i] = "none"
    BY DEF Latest
  <1>3. /\ status'[Latest] # "none" /\ \A i \in Jobs : i > Latest => status'[i] = "none"
    BY <1>1 DEF Started
  <1>4. /\ Latest' \in Jobs /\ status'[Latest'] # "none"
        /\ \A i \in Jobs : i > Latest' => status'[i] = "none"
    BY <1>1, <1>2, <1>3
  <1>5. Latest \in Nat /\ Latest' \in Nat
    BY <1>1, <1>4, HandlersAre
  <1>6. Latest' = Latest
    BY <1>1, <1>3, <1>4, <1>5
  <1> QED
    BY <1>1, <1>3, <1>6 DEF Numbered, Started

\* Beside regenerates that meet nobody, a job at work is the latest one.
LEMMA Mine ==
    ASSUME ReplyInv, NEW j \in Jobs, ~At(j, "none") \/ status[j] \in Active, ~busy
    PROVE  j = Latest /\ At(Regenerator, "none")
  BY HandlersAre DEF ReplyInv, Only

LEMMA NextJobIs ==
    ASSUME \E j \in Jobs : ~Started(j)
    PROVE  /\ NextJob \in Jobs /\ ~Started(NextJob)
           /\ \A i \in Jobs : i < NextJob => Started(i)
  <1> DEFINE S == {j \in Jobs : ~Started(j)}
             Below(j) == {i \in S : i < j}
             T == {Below(j) : j \in S}
  <1>1. S \subseteq Nat /\ S # {} /\ IsFiniteSet(S) /\ S \subseteq Jobs
    BY JobsAssumption, FS_Subset
  <1>2. \A j \in S : Below(j) \in FiniteSubsetsOf(S)
    BY <1>1, FS_Subset DEF FiniteSubsetsOf
  <1>3. T # {} /\ T \subseteq FiniteSubsetsOf(S)
    BY <1>1, <1>2
  <1>4. PICK t \in T : \A u \in T : ~(<<u, t>> \in StrictSubsetOrdering(S))
    <2> HIDE DEF T
    <2> QED
      BY <1>1, <1>3, FS_StrictSubsetOrderingWellFounded, WFMin
  <1>5. PICK x \in S : t = Below(x)
    BY <1>4
  <1>6. ASSUME NEW y \in S PROVE ~(y < x)
    <2>1. <<Below(y), Below(x)>> \notin StrictSubsetOrdering(S)
      BY <1>4, <1>5
    <2>2. ~(Below(y) \subseteq Below(x) /\ Below(y) # Below(x))
      BY <1>2, <2>1 DEF StrictSubsetOrdering, FiniteSubsetsOf
    <2>3. SUFFICES ASSUME y < x PROVE FALSE
      OBVIOUS
    <2>4. y \in Below(x) /\ y \notin Below(y)
      BY <1>1, <2>3
    <2>5. \A i \in Below(y) : i \in Below(x)
      BY <1>1, <2>3
    <2> QED
      BY <2>2, <2>4, <2>5
  <1>7. x \in Jobs /\ status[x] = "none" /\ \A i \in Jobs : i < x => status[i] # "none"
    BY <1>6 DEF Started
  <1> QED
    BY <1>7 DEF NextJob, Started

-----------------------------------------------------------------------------
(* Steps of tasks                                                           *)

\* A step that changes of the control only what is job j's.
Own(j) ==
    /\ pc' = [pc EXCEPT ![j] = pc'[j]]
    /\ run' = [run EXCEPT ![j] = run'[j]]
    /\ status' = [status EXCEPT ![j] = status'[j]]
    /\ UNCHANGED <<mode, subject, regen, busy>>
    /\ used'.cancels = used.cancels /\ used'.crashes = used.crashes
    /\ used' \in [cancels : Nat, regenerates : Nat, crashes : Nat, failures : Nat]

\* What such a step has to keep of the types, the shape of the task and the audit,
KeepsShape(j) ==
    /\ content' \in Contents /\ thinking' \in BOOLEAN
    /\ run'[j] \in Runs
    /\ status'[j] \in Statuses \ {"none", "queued"}
    /\ ShapeOf(mode, status'[j], pc'[j], run'[j])
    /\ status'[j] = "running" => pc'[j] # "none"
    /\ ~Crashed => run[j].attempt <= run'[j].attempt
KeepsAudit(j) ==
    /\ audit' \in SUBSET Effects /\ effects' \in SUBSET Effects
    /\ ~mode.typed => effects' = effects
    /\ run'[j].attempt <= 1 /\ AuditOf(audit, effects, status[j], pc[j], run[j]) =>
           AuditOf(audit', effects', status'[j], pc'[j], run'[j])
\* and of the text.
KeepsWhole(j) ==
    (mode.typed \/ mode.thoughts) /\ WholeOf(j, content, thinking, status[j], pc[j], run[j]) =>
        WholeOf(j, content', thinking', status'[j], pc'[j], run'[j])
KeepsTelling(j) ==
    ~mode.thoughts /\ ~thinking =>
        /\ ~thinking'
        /\ TellOf(mode, content, status[j], pc[j], run[j]) =>
               TellOf(mode, content', status'[j], pc'[j], run'[j])
KeepsAwaited(j) ==
    ~mode.typed /\ ~mode.thoughts /\ run'[j].attempt <= 1 /\ content' = Empty =>
        /\ content = Empty
        /\ AwaitOf(status[j], pc[j], run[j]) => AwaitOf(status'[j], pc'[j], run'[j])
        /\ pc[j] \in Marks => pc'[j] \in Marks
        /\ status'[j] = "cancelled" => status[j] = "cancelled" \/ pc'[j] \in Marks

LEMMA TasksGoOn ==
    ASSUME ReplyInv, NEW j \in Jobs, ~At(j, "none") \/ status[j] = "queued", Own(j),
           KeepsShape(j), KeepsAudit(j), KeepsWhole(j), KeepsTelling(j), KeepsAwaited(j)
    PROVE  ReplyInv'
  <1>1. Types
    BY DEF ReplyInv
  <1>2. /\ \A i \in Jobs : i # j => pc'[i] = pc[i] /\ run'[i] = run[i] /\ status'[i] = status[i]
        /\ \A h \in Handlers : pc'[h] = pc[h]
    <2>1. pc' = [pc EXCEPT ![j] = pc'[j]] /\ DOMAIN pc = Actors
      BY <1>1 DEF Own, Types
    <2>2. \A a \in Actors : a # j => pc'[a] = pc[a]
      BY <2>1
    <2>3. \A i \in Jobs : i # j => run'[i] = run[i] /\ status'[i] = status[i]
      BY <1>1 DEF Own, Types
    <2> QED
      BY <2>2, <2>3, HandlersAre
  <1>3. status[j] # "none" /\ status'[j] # "none" /\ status'[j] # "queued"
    BY DEF ReplyInv, Shape, ShapeOf, At, KeepsShape
  <1>4. \A i \in Jobs : Started(i)' <=> Started(i)
    BY <1>2, <1>3 DEF Started
  <1>5. Latest \in Jobs /\ Latest' = Latest
    BY <1>4, LatestIs, LatestStays DEF ReplyInv
  <1>6. Types'
    <2>1. pc'[j] \in Places
      BY DEF KeepsShape, ShapeOf, Places
    <2> QED
      BY <1>1, <2>1, HandlersAre DEF Types, Own, KeepsShape, KeepsAudit
  <1>7. Numbered'
    <2>1. \A h \in Handlers : subject[h] \in Jobs
      BY <1>1 DEF Types
    <2>2. \A i \in regen.todo : i \in Jobs
      BY <1>1 DEF Types
    <2> QED
      BY <1>4, <2>1, <2>2, LatestStays DEF ReplyInv, Numbered, Own
  <1>8. HandlersAt'
    BY <1>2, <1>4, HandlersAre DEF ReplyInv, HandlersAt, Own, At
  <1>9. \A i \in Jobs : Shape(i)'
    BY <1>2 DEF ReplyInv, Shape, Own, KeepsShape
  <1>10. Unbroken'
    BY <1>2, <1>3 DEF ReplyInv, Unbroken, Crashed, Own, KeepsShape, At
  <1>11. ASSUME ~busy
         PROVE  j = Latest /\ At(Regenerator, "none") /\ At(Regenerator, "none")'
    BY <1>2, <1>11, Mine, HandlersAre DEF At, Active
  <1>12. Only'
    BY <1>2, <1>5, <1>11 DEF ReplyInv, Only, Own, At
  <1>13. ~Crashed' /\ ~Retried' => ~Crashed /\ ~Retried /\ run'[j].attempt <= 1
    <2> SUFFICES ASSUME ~Crashed', ~Retried' PROVE ~Crashed /\ ~Retried /\ run'[j].attempt <= 1
      OBVIOUS
    <2>1. \A i \in Jobs : run'[i].attempt \in Nat /\ run[i].attempt \in Nat
      BY <1>1, <1>6 DEF Types, Runs
    <2>2. \A i \in Jobs : run'[i].attempt <= 1
      BY <2>1 DEF Retried
    <2>3. ~Crashed
      BY DEF Crashed, Own
    <2>4. run[j].attempt <= 1
      BY <2>1, <2>2, <2>3 DEF KeepsShape
    <2>5. \A i \in Jobs : run[i].attempt <= 1
      BY <1>2, <2>2, <2>4
    <2> QED
      BY <2>1, <2>2, <2>3, <2>5 DEF Retried
  <1>14. Audited'
    <2>1. ~mode'.typed => effects' = {}
      BY DEF ReplyInv, Audited, Own, KeepsAudit
    <2>2. ASSUME ~Crashed', ~Retried', ~busy'
          PROVE  AuditOf(audit', effects', status'[j], pc'[j], run'[j])
      BY <1>11, <1>13, <2>2 DEF ReplyInv, Audited, Own, KeepsAudit
    <2> QED
      BY <1>5, <1>11, <2>1, <2>2 DEF Audited, Own
  <1>15. Wholly'
    <2>1. ASSUME ~Crashed', used'.cancels = 0, ~busy', mode'.typed \/ mode'.thoughts
          PROVE  WholeOf(j, content', thinking', status'[j], pc'[j], run'[j])
      BY <1>11, <2>1 DEF ReplyInv, Wholly, Own, KeepsWhole, Crashed
    <2> QED
      BY <1>5, <1>11, <2>1 DEF Wholly, Own
  <1>16. Telling'
    <2>1. ASSUME ~mode'.thoughts PROVE ~thinking'
      BY <2>1 DEF ReplyInv, Telling, Own, KeepsTelling
    <2>2. ASSUME ~mode'.thoughts, ~busy' PROVE TellOf(mode', content', status'[j], pc'[j], run'[j])
      BY <1>11, <2>2 DEF ReplyInv, Telling, Own, KeepsTelling
    <2> QED
      BY <1>5, <1>11, <2>1, <2>2 DEF Telling, Own
  <1>17. Awaited'
    <2> SUFFICES ASSUME Streamed', ~Crashed', content' = Empty, pc'[Regenerator] \notin Clearing
                 PROVE  /\ AwaitOf(status'[Latest], pc'[Latest], run'[Latest])
                        /\ status'[Latest] = "cancelled" => \E a \in Actors : pc'[a] \in Marks
      BY <1>5 DEF Awaited
    <2>1. ~mode.typed /\ ~mode.thoughts /\ ~Retried' /\ ~Crashed /\ ~Retried /\ run'[j].attempt <= 1
      BY <1>13 DEF Streamed, Own
    <2>2. /\ content = Empty
          /\ AwaitOf(status[j], pc[j], run[j]) => AwaitOf(status'[j], pc'[j], run'[j])
          /\ pc[j] \in Marks => pc'[j] \in Marks
          /\ status'[j] = "cancelled" => status[j] = "cancelled" \/ pc'[j] \in Marks
      BY <2>1 DEF KeepsAwaited
    <2>3. pc'[Regenerator] = pc[Regenerator]
      BY <1>2, HandlersAre
    <2>4. /\ AwaitOf(status[Latest], pc[Latest], run[Latest])
          /\ status[Latest] = "cancelled" => \E a \in Actors : pc[a] \in Marks
      BY <2>1, <2>2, <2>3 DEF ReplyInv, Awaited, Streamed
    <2>5. \A a \in Actors : pc[a] \in Marks => pc'[a] \in Marks
      BY <1>2, <2>2, HandlersAre
    <2>6. j \in Actors
      BY HandlersAre
    <2> QED
      BY <1>2, <1>5, <2>2, <2>4, <2>5, <2>6
  <1> QED
    BY <1>6, <1>7, <1>8, <1>9, <1>10, <1>12, <1>14, <1>15, <1>16, <1>17 DEF ReplyInv

\* What is known of a task and its message before its step.
LEMMA Here ==
    ASSUME ReplyInv, NEW j \in Jobs
    PROVE  /\ mode \in ModeTypes /\ content \in Contents /\ thinking \in BOOLEAN
           /\ audit \in SUBSET Effects /\ effects \in SUBSET Effects
           /\ run[j] \in Runs /\ status[j] \in Statuses
           /\ ShapeOf(mode, status[j], pc[j], run[j])
           /\ j \in Nat \ {0} /\ Empty \in Contents /\ Placeholder \in Contents /\ Placeholder # Empty
  <1>1. Empty \in Contents /\ Placeholder \in Contents /\ Placeholder # Empty
    BY DEF Empty, Placeholder, Contents
  <1> QED
    BY <1>1, JobsAssumption DEF ReplyInv, Types, Shape

LEMMA MoveIs ==
    ASSUME Types, NEW j \in Jobs, NEW place, Move(j, place)
    PROVE  /\ Own(j)
           /\ pc'[j] = place /\ run'[j] = run[j] /\ status'[j] = status[j]
           /\ content' = content /\ thinking' = thinking /\ audit' = audit /\ effects' = effects
  BY HandlersAre DEF Types, Move, Goto, Own, row, state, control, requests

LEMMA UpdateIs ==
    ASSUME Types, NEW j \in Jobs, NEW place, NEW new, Update(j, place, new)
    PROVE  /\ Own(j)
           /\ pc'[j] = place /\ run'[j] = new /\ status'[j] = status[j]
           /\ content' = content /\ thinking' = thinking /\ audit' = audit /\ effects' = effects
  BY HandlersAre DEF Types, Update, Goto, Own, row, state, control, requests

Keeps(j) == KeepsShape(j) /\ KeepsAudit(j) /\ KeepsWhole(j) /\ KeepsTelling(j) /\ KeepsAwaited(j)

USE DEF Marks, Recording, TypedPlaces, PlainPlaces, Tries, TaskPlaces, Done, Early, Unsaved,
        AfterPlan, Active, At

\* A move of the task that leaves its run and the message alone.
LEMMA MoveKeeps ==
    ASSUME ReplyInv, NEW j \in Jobs, NEW place, Move(j, place), ~At(j, "none"),
           ShapeOf(mode, status[j], place, run[j]), status[j] = "running" => place # "none",
           run[j].attempt <= 1 /\ AuditOf(audit, effects, status[j], pc[j], run[j]) =>
               AuditOf(audit, effects, status[j], place, run[j]),
           (mode.typed \/ mode.thoughts) /\ WholeOf(j, content, thinking, status[j], pc[j], run[j]) =>
               WholeOf(j, content, thinking, status[j], place, run[j]),
           ~mode.thoughts /\ TellOf(mode, content, status[j], pc[j], run[j]) =>
               TellOf(mode, content, status[j], place, run[j]),
           pc[j] \in Marks => place \in Marks \/ content # Empty,
           place \in Done =>
               content # Empty \/ run[j].text # "none" \/ mode.typed \/ mode.thoughts
    PROVE  ReplyInv'
  <1>1. Types
    BY DEF ReplyInv
  <1>2. /\ Own(j)
        /\ pc'[j] = place /\ run'[j] = run[j] /\ status'[j] = status[j]
        /\ content' = content /\ thinking' = thinking /\ audit' = audit /\ effects' = effects
    BY <1>1, MoveIs
  <1>3. run[j].attempt \in Nat
    BY Here DEF Runs
  <1>4. status[j] \notin {"none", "queued"}
    BY Here DEF ShapeOf
  <1>5. KeepsShape(j)
    BY <1>2, <1>3, <1>4, Here DEF KeepsShape
  <1>6. KeepsAudit(j) /\ KeepsWhole(j)
    BY <1>2, Here DEF KeepsAudit, KeepsWhole
  <1>7. KeepsTelling(j) /\ KeepsAwaited(j)
    BY <1>2, <1>4, Here DEF KeepsTelling, KeepsAwaited, AwaitOf
  <1> QED
    BY <1>2, <1>5, <1>6, <1>7, TasksGoOn

LEMMA LoadHolds ==
    ASSUME ReplyInv, NEW j \in Jobs, Load(j)
    PROVE  ReplyInv'
  <1>1. PICK place \in {"none", "begin", "rechecking"} :
            /\ Move(j, place) /\ pc[j] = "loading"
            /\ place = "none" <=> status[j] # "running"
    BY DEF Load, Unless
  <1> QED
    BY <1>1, MoveKeeps, Here DEF ShapeOf, AuditOf, WholeOf, TellOf

LEMMA BackoffHolds ==
    ASSUME ReplyInv, NEW j \in Jobs, Backoff(j)
    PROVE  ReplyInv'
  <1>1. PICK place \in {FirstPhase, "rechecking"} : Move(j, place) /\ pc[j] = "backoff"
    BY DEF Backoff, Unless
  <1>2. FirstPhase = IF mode.typed THEN "planning" ELSE "opening"
    BY DEF FirstPhase
  <1>3. ~(run[j].attempt <= 1)
    BY <1>1, Here DEF ShapeOf, Runs
  <1> QED
    BY <1>1, <1>2, <1>3, MoveKeeps, Here DEF ShapeOf, AuditOf, WholeOf, TellOf

LEMMA GiveUpHolds ==
    ASSUME ReplyInv, NEW j \in Jobs, GiveUp(j)
    PROVE  ReplyInv'
  <1>1. PICK place \in {"apologizing", "settlingThought"} :
            /\ Move(j, place) /\ pc[j] = "givingUp"
            /\ place = "settlingThought" => content # Empty
    BY DEF GiveUp
  <1> QED
    BY <1>1, MoveKeeps, Here DEF ShapeOf, AuditOf, WholeOf, TellOf

LEMMA EndTypedHolds ==
    ASSUME ReplyInv, NEW j \in Jobs, EndTyped(j)
    PROVE  ReplyInv'
  <1>1. Move(j, "ending") /\ pc[j] = "streaming" /\ mode.typed
    BY DEF EndTyped
  <1> QED
    BY <1>1, MoveKeeps, Here DEF ShapeOf, AuditOf, WholeOf, TellOf

LEMMA EndLegacyHolds ==
    ASSUME ReplyInv, NEW j \in Jobs, EndLegacy(j)
    PROVE  ReplyInv'
  <1>1. Move(j, "checking") /\ pc[j] = "streaming" /\ ~mode.typed /\ run[j].text # "partial"
    BY DEF EndLegacy
  <1> QED
    BY <1>1, MoveKeeps, Here DEF ShapeOf, AuditOf, WholeOf, TellOf

\* The next attempt, or none.
LEMMA RetryHolds ==
    ASSUME ReplyInv, NEW j \in Jobs, Retry(j), pc[j] \in {"planning", "opening", "streaming", "checking"}
    PROVE  ReplyInv'
  <1>1. Types /\ run[j].attempt \in Nat /\ run[j].attempt > 0 /\ status[j] \in {"running", "cancelled"}
    BY Here DEF ReplyInv, Runs, ShapeOf
  <1>2. /\ Own(j) /\ status'[j] = status[j]
        /\ content' = content /\ thinking' = thinking /\ audit' = audit /\ effects' = effects
    <2>1. used' = [used EXCEPT !["failures"] = @ + 1]
      BY DEF Retry, Count
    <2>2. /\ used'.cancels = used.cancels /\ used'.crashes = used.crashes
          /\ used' \in [cancels : Nat, regenerates : Nat, crashes : Nat, failures : Nat]
      BY <1>1, <2>1 DEF Types
    <2>3. pc \in [Actors -> Places] /\ run \in [Jobs -> Runs] /\ status \in [Jobs -> Statuses]
      BY <1>1 DEF Types
    <2>4. /\ pc' = [pc EXCEPT ![j] = pc'[j]] /\ run' = [run EXCEPT ![j] = run'[j]]
          /\ UNCHANGED <<mode, content, thinking, audit, effects, status, subject, regen, busy>>
      BY <2>3, HandlersAre DEF Retry, Goto, row, state, requests
    <2> QED
      BY <2>2, <2>3, <2>4 DEF Own
  <1> DEFINE next == [run[j] EXCEPT !.attempt = run[j].attempt + 1, !.text = "none", !.applied = {}]
  <1>3. \/ pc'[j] = "givingUp" /\ run'[j] = run[j]
        \/ pc'[j] \in {"clearing", "rechecking"} /\ run'[j] = next
    <2>1. j \in DOMAIN pc /\ j \in DOMAIN run
      BY <1>1, HandlersAre DEF Types
    <2>2. CASE run[j].attempt = MaxAttempts
      BY <2>1, <2>2 DEF Retry, Goto
    <2>3. CASE run[j].attempt # MaxAttempts
      <3>1. /\ Goto(j, Unless(j, "clearing"))
            /\ run' = [run EXCEPT ![j] = next]
        BY <2>3 DEF Retry
      <3> HIDE DEF next
      <3> QED
        BY <2>1, <3>1 DEF Goto, Unless
    <2> QED
      BY <2>2, <2>3
  <1>4. CASE pc'[j] = "givingUp" /\ run'[j] = run[j]
    <2>1. KeepsShape(j)
      BY <1>1, <1>2, <1>4, Here DEF KeepsShape, ShapeOf
    <2>2. KeepsAudit(j) /\ KeepsWhole(j)
      BY <1>1, <1>2, <1>4, Here DEF KeepsAudit, KeepsWhole, AuditOf, WholeOf
    <2>3. KeepsTelling(j) /\ KeepsAwaited(j)
      BY <1>1, <1>2, <1>4, Here DEF KeepsTelling, TellOf, KeepsAwaited, AwaitOf
    <2> QED
      BY <1>1, <1>2, <2>1, <2>2, <2>3, TasksGoOn
  <1>5. CASE pc'[j] \in {"clearing", "rechecking"} /\ run'[j] = next
    <2>1. /\ run'[j] \in Runs /\ run'[j].attempt = run[j].attempt + 1 /\ run'[j].text = "none"
          /\ run'[j].attempt > 1 /\ ~(run'[j].attempt <= 1)
      <3>1. run[j] \in Runs /\ run[j].attempt + 1 \in Nat /\ run[j].attempt + 1 > 1
        BY <1>1, Here
      <3>2. next \in Runs /\ next.attempt = run[j].attempt + 1 /\ next.text = "none"
        BY <3>1 DEF Runs
      <3> QED
        BY <1>1, <1>5, <3>1, <3>2
    <2> HIDE DEF next
    <2>2. KeepsShape(j)
      BY <1>1, <1>2, <1>5, <2>1, Here DEF KeepsShape, ShapeOf
    <2>3. KeepsAudit(j) /\ KeepsAwaited(j)
      BY <1>2, <2>1, Here DEF KeepsAudit, KeepsAwaited
    <2>4. KeepsWhole(j) /\ KeepsTelling(j)
      BY <1>1, <1>2, <1>5, <2>1, Here DEF KeepsWhole, WholeOf, KeepsTelling, TellOf
    <2> QED
      BY <1>1, <1>2, <2>2, <2>3, <2>4, TasksGoOn
  <1> QED
    BY <1>3, <1>4, <1>5

LEMMA OpenHolds ==
    ASSUME ReplyInv, NEW j \in Jobs, Open(j)
    PROVE  ReplyInv'
  <1>1. CASE Move(j, "streaming")
    BY <1>1, MoveKeeps, Here DEF Open, ShapeOf, AuditOf, WholeOf, TellOf
  <1> QED
    BY <1>1, RetryHolds DEF Open

LEMMA NoticeCancelHolds ==
    ASSUME ReplyInv, NEW j \in Jobs, NoticeCancel(j)
    PROVE  ReplyInv'
  <1>1. CASE Move(j, "rechecking")
    BY <1>1, MoveKeeps, Here DEF NoticeCancel, ShapeOf, AuditOf, WholeOf, TellOf
  <1> QED
    BY <1>1, RetryHolds DEF NoticeCancel

LEMMA CheckHolds ==
    ASSUME ReplyInv, NEW j \in Jobs, Check(j)
    PROVE  ReplyInv'
  <1>1. CASE Move(j, "rechecking")
    BY <1>1, MoveKeeps, Here DEF Check, ShapeOf, AuditOf, WholeOf, TellOf
  <1>2. CASE Presentable(j) /\ Move(j, IF mode.typed \/ mode.thoughts THEN "finalizing" ELSE "completing")
    <2>1. pc[j] = "checking" /\ (run[j].text = "whole" \/ (mode.typed /\ run[j].text = "thought"))
      BY <1>2, Here DEF Check, Presentable, HasReply, ShapeOf
    <2>2. CASE mode.typed \/ mode.thoughts
      <3>1. Move(j, "finalizing")
        BY <1>2, <2>2
      <3> QED
        BY <2>1, <2>2, <3>1, MoveKeeps, Here DEF ShapeOf, AuditOf, WholeOf, TellOf
    <2>3. CASE ~(mode.typed \/ mode.thoughts)
      <3>1. Move(j, "completing")
        BY <1>2, <2>3
      <3> QED
        BY <2>1, <2>3, <3>1, MoveKeeps, Here DEF ShapeOf, AuditOf, WholeOf, TellOf
    <2> QED
      BY <2>2, <2>3
  <1> QED
    BY <1>1, <1>2, RetryHolds DEF Check

\* An update of the task's run, or a move, that leaves the message alone.
LEMMA UpdateKeeps ==
    ASSUME ReplyInv, NEW j \in Jobs, NEW place, NEW new \in Runs, Update(j, place, new),
           ~At(j, "none"), run[j].attempt <= new.attempt,
           ShapeOf(mode, status[j], place, new), place # "none",
           AuditOf(audit, effects, status[j], pc[j], run[j]) =>
               AuditOf(audit, effects, status[j], place, new),
           (mode.typed \/ mode.thoughts) /\ WholeOf(j, content, thinking, status[j], pc[j], run[j]) =>
               WholeOf(j, content, thinking, status[j], place, new),
           ~mode.thoughts /\ TellOf(mode, content, status[j], pc[j], run[j]) =>
               TellOf(mode, content, status[j], place, new),
           pc[j] \notin Marks, place \notin Done,
           ~mode.typed /\ ~mode.thoughts => new.text = "none" \/ run[j].text # "none"
    PROVE  ReplyInv'
  <1>1. Types
    BY DEF ReplyInv
  <1>2. /\ Own(j)
        /\ pc'[j] = place /\ run'[j] = new /\ status'[j] = status[j]
        /\ content' = content /\ thinking' = thinking /\ audit' = audit /\ effects' = effects
    BY <1>1, UpdateIs
  <1>3. status[j] \notin {"none", "queued"}
    BY Here DEF ShapeOf
  <1>4. KeepsShape(j)
    BY <1>2, <1>3, Here DEF KeepsShape
  <1>5. KeepsAudit(j) /\ KeepsWhole(j)
    BY <1>2, Here DEF KeepsAudit, KeepsWhole
  <1>6. KeepsTelling(j) /\ KeepsAwaited(j)
    BY <1>2, <1>3, Here DEF KeepsTelling, KeepsAwaited, AwaitOf
  <1> QED
    BY <1>2, <1>4, <1>5, <1>6, TasksGoOn

LEMMA BeginHolds ==
    ASSUME ReplyInv, NEW j \in Jobs, Begin(j)
    PROVE  ReplyInv'
  <1>1. pc[j] = "begin"
    BY DEF Begin
  <1>2. CASE content # Empty /\ Move(j, "completing")
    BY <1>1, <1>2, MoveKeeps, Here DEF ShapeOf, AuditOf, WholeOf, TellOf
  <1>3. CASE Update(j, Unless(j, FirstPhase), [run[j] EXCEPT !.attempt = 1])
    <2> DEFINE new == [run[j] EXCEPT !.attempt = 1]
    <2>1. /\ new \in Runs /\ new.text = run[j].text /\ new.applied = run[j].applied
          /\ new.next = run[j].next /\ new.attempt = 1 /\ run[j].attempt = 0
      <3>1. run[j] \in Runs /\ run[j].attempt = 0
        BY <1>1, Here DEF ShapeOf
      <3> QED
        BY <3>1 DEF Runs
    <2> HIDE DEF new
    <2>2. PICK place \in {"rechecking", "planning", "opening"} :
             /\ Update(j, place, new)
             /\ place = "planning" => mode.typed
             /\ place = "opening" => ~mode.typed
      BY <1>3 DEF Unless, FirstPhase, new
    <2> QED
      BY <1>1, <2>1, <2>2, UpdateKeeps, Here DEF ShapeOf, AuditOf, WholeOf, TellOf
  <1> QED
    BY <1>2, <1>3 DEF Begin

\* The SELECT of an update_message_generation.
LEMMA ReadRowHolds ==
    ASSUME ReplyInv, NEW j \in Jobs, NEW next \in MergeGoals, ReadRow(j, next),
           \/ pc[j] = "finalizing" /\ next = "completing"
           \/ pc[j] = "keeping" /\ next = "none" /\ mode.thoughts
           \/ pc[j] = "ending" /\ next = "turning" /\ mode.thoughts
           \/ pc[j] = "flushing" /\ next = "streaming" /\ mode.thoughts
           \/ pc[j] = "closing" /\ next = "checking" /\ mode.thoughts
    PROVE  ReplyInv'
  <1> DEFINE new == [run[j] EXCEPT !.seen = content, !.next = next]
  <1>1. /\ new \in Runs /\ new.text = run[j].text /\ new.applied = run[j].applied
        /\ new.seen = content /\ new.next = next /\ new.attempt = run[j].attempt
        /\ run[j].attempt <= new.attempt
    <2>1. run[j] \in Runs /\ content \in Contents
      BY Here
    <2>2. run[j].attempt \in Nat
      BY <2>1 DEF Runs
    <2>3. run[j].attempt <= run[j].attempt
      BY <2>2
    <2>4. new \in Runs
      BY <2>1 DEF Runs
    <2> QED
      BY <2>1, <2>3, <2>4 DEF Runs
  <1>2. Update(j, "merging", new)
    BY DEF ReadRow
  <1> HIDE DEF new
  <1>3. ShapeOf(mode, status[j], "merging", new)
    BY <1>1, Here DEF ShapeOf
  <1> QED
    BY <1>1, <1>2, <1>3, UpdateKeeps, Here DEF ShapeOf, AuditOf, WholeOf, TellOf

LEMMA FinalizeHolds ==
    ASSUME ReplyInv, NEW j \in Jobs, Finalize(j)
    PROVE  ReplyInv'
  BY ReadRowHolds DEF Finalize, MergeGoals

LEMMA TurnHolds ==
    ASSUME ReplyInv, NEW j \in Jobs, Turn(j)
    PROVE  ReplyInv'
  <1>1. pc[j] = "turning"
    BY DEF Turn
  <1>2. CASE Move(j, "tooling")
    BY <1>1, <1>2, MoveKeeps, Here DEF ShapeOf, AuditOf, WholeOf, TellOf
  <1>3. ASSUME NEW text \in {"none", "thought", "whole"}, text = "none" \/ text = run[j].text \/
                   (text = "whole" /\ run[j].text = "partial"),
               Update(j, "closing", [run[j] EXCEPT !.text = text])
        PROVE  ReplyInv'
    <2> DEFINE new == [run[j] EXCEPT !.text = text]
    <2>1. /\ new \in Runs /\ new.text = text /\ new.applied = run[j].applied
          /\ new.next = run[j].next /\ new.attempt = run[j].attempt /\ run[j].attempt <= new.attempt
      BY Here DEF Runs
    <2>2. Update(j, "closing", new)
      BY <1>3
    <2> HIDE DEF new
    <2>3. ShapeOf(mode, status[j], "closing", new)
      BY <1>1, <1>3, <2>1, Here DEF ShapeOf
    <2> QED
      BY <1>1, <1>3, <2>1, <2>2, <2>3, UpdateKeeps, Here DEF ShapeOf, AuditOf, WholeOf, TellOf
  <1>4. CASE \E text \in {IF run[j].text = "partial" THEN "whole" ELSE run[j].text}
                            \cup {t \in {"none"} : MayFail} :
                Update(j, "closing", [run[j] EXCEPT !.text = text])
    <2>1. run[j].text \in {"none", "thought", "partial", "whole"}
      BY Here DEF Runs
    <2>2. PICK text \in {IF run[j].text = "partial" THEN "whole" ELSE run[j].text} \cup {"none"} :
             Update(j, "closing", [run[j] EXCEPT !.text = text])
      BY <1>4
    <2> QED
      BY <1>3, <2>1, <2>2
  <1> QED
    BY <1>2, <1>4 DEF Turn

\* A write of the text or of the thoughts.
LEMMA WriteIs ==
    ASSUME Types, NEW j \in Jobs, NEW place, Goto(j, place), UNCHANGED <<mode, audit, state, run, control>>
    PROVE  /\ Own(j)
           /\ pc'[j] = place /\ run'[j] = run[j] /\ status'[j] = status[j]
           /\ audit' = audit /\ effects' = effects
  BY HandlersAre DEF Types, Goto, Own, row, state, control, requests

LEMMA WriteKeeps ==
    ASSUME ReplyInv, NEW j \in Jobs, NEW place, Goto(j, place),
           UNCHANGED <<mode, audit, state, run, control>>,
           ~At(j, "none"), content' \in Contents, thinking' \in BOOLEAN, ~thinking => ~thinking',
           ShapeOf(mode, status[j], place, run[j]), status[j] = "running" => place # "none",
           run[j].attempt <= 1 /\ AuditOf(audit, effects, status[j], pc[j], run[j]) =>
               AuditOf(audit, effects, status[j], place, run[j]),
           KeepsWhole(j),
           ~mode.thoughts /\ TellOf(mode, content, status[j], pc[j], run[j]) =>
               TellOf(mode, content', status[j], place, run[j]),
           ~mode.typed /\ ~mode.thoughts /\ run[j].attempt <= 1 /\ content' = Empty =>
               /\ content = Empty
               /\ place \in Done => run[j].text # "none"
               /\ pc[j] \in Marks => place \in Marks
    PROVE  ReplyInv'
  <1>1. Types
    BY DEF ReplyInv
  <1>2. /\ Own(j)
        /\ pc'[j] = place /\ run'[j] = run[j] /\ status'[j] = status[j]
        /\ audit' = audit /\ effects' = effects
    BY <1>1, WriteIs
  <1>3. run[j].attempt \in Nat
    BY Here DEF Runs
  <1>4. status[j] \notin {"none", "queued"}
    BY Here DEF ShapeOf
  <1>5. KeepsShape(j)
    BY <1>2, <1>3, <1>4, Here DEF KeepsShape
  <1>6. KeepsAudit(j)
    BY <1>2, Here DEF KeepsAudit
  <1>7. KeepsTelling(j) /\ KeepsAwaited(j)
    BY <1>2, <1>4, Here DEF KeepsTelling, KeepsAwaited, AwaitOf
  <1> QED
    BY <1>2, <1>5, <1>6, <1>7, TasksGoOn

LEMMA ClearContentHolds ==
    ASSUME ReplyInv, NEW j \in Jobs, ClearContent(j)
    PROVE  ReplyInv'
  <1>1. /\ pc[j] = "clearing" /\ content' = Empty /\ thinking' = thinking /\ Goto(j, "forgetting")
        /\ UNCHANGED <<mode, audit, state, run, control>>
    BY DEF ClearContent
  <1>2. ~(run[j].attempt <= 1) /\ run[j].text = "none" /\ status[j] \in {"running", "cancelled"}
    BY <1>1, Here DEF ShapeOf, Runs
  <1>3. ShapeOf(mode, status[j], "forgetting", run[j])
    BY <1>1, Here DEF ShapeOf
  <1>4. KeepsWhole(j)
    <2>1. pc'[j] = "forgetting" /\ run'[j] = run[j] /\ status'[j] = status[j]
      BY <1>1, WriteIs DEF ReplyInv
    <2> QED
      BY <1>1, <1>2, <2>1 DEF KeepsWhole, WholeOf
  <1> QED
    BY <1>1, <1>2, <1>3, <1>4, WriteKeeps, Here DEF TellOf

LEMMA ClearThoughtsHolds ==
    ASSUME ReplyInv, NEW j \in Jobs, ClearThoughts(j)
    PROVE  ReplyInv'
  <1>1. PICK place \in {"backoff", "streaming"} :
            /\ pc[j] = IF place = "backoff" THEN "forgetting" ELSE "unthinking"
            /\ thinking' = FALSE /\ content' = content /\ Goto(j, place)
            /\ UNCHANGED <<mode, audit, state, run, control>>
    BY DEF ClearThoughts
  <1>2. ShapeOf(mode, status[j], place, run[j]) /\ status[j] # "queued" /\ status[j] # "completed"
    BY <1>1, Here DEF ShapeOf
  <1>3. KeepsWhole(j)
    <2>1. pc'[j] = place /\ run'[j] = run[j] /\ status'[j] = status[j]
      BY <1>1, WriteIs DEF ReplyInv
    <2> QED
      BY <1>1, <1>2, <2>1 DEF KeepsWhole, WholeOf
  <1> QED
    BY <1>1, <1>2, <1>3, WriteKeeps, Here DEF AuditOf, TellOf

LEMMA ApologizeHolds ==
    ASSUME ReplyInv, NEW j \in Jobs, Apologize(j)
    PROVE  ReplyInv'
  <1>1. /\ pc[j] = "apologizing" /\ content' = Placeholder /\ thinking' = thinking
        /\ Goto(j, "settlingThought") /\ UNCHANGED <<mode, audit, state, run, control>>
    BY DEF Apologize
  <1>2. ShapeOf(mode, status[j], "settlingThought", run[j]) /\ status[j] # "queued" /\ status[j] # "completed"
    BY <1>1, Here DEF ShapeOf
  <1>3. KeepsWhole(j)
    <2>1. pc'[j] = "settlingThought" /\ run'[j] = run[j] /\ status'[j] = status[j]
      BY <1>1, WriteIs DEF ReplyInv
    <2> QED
      BY <1>1, <1>2, <2>1 DEF KeepsWhole, WholeOf
  <1> QED
    BY <1>1, <1>2, <1>3, WriteKeeps, Here DEF AuditOf, TellOf

LEMMA SettleThoughtHolds ==
    ASSUME ReplyInv, NEW j \in Jobs, SettleThought(j)
    PROVE  ReplyInv'
  <1>1. /\ pc[j] = "settlingThought" /\ content' = content /\ thinking' = FALSE
        /\ Goto(j, "failing") /\ UNCHANGED <<mode, audit, state, run, control>>
    BY DEF SettleThought
  <1>2. ShapeOf(mode, status[j], "failing", run[j]) /\ status[j] # "queued" /\ status[j] # "completed"
    BY <1>1, Here DEF ShapeOf
  <1>3. Own(j) /\ pc'[j] = "failing" /\ run'[j] = run[j] /\ status'[j] = status[j]
        /\ audit' = audit /\ effects' = effects
    BY <1>1, WriteIs DEF ReplyInv
  <1>4. KeepsWhole(j)
    BY <1>1, <1>2, <1>3 DEF KeepsWhole, WholeOf
  <1>5. KeepsAwaited(j) /\ KeepsTelling(j)
    BY <1>1, <1>2, <1>3 DEF KeepsAwaited, AwaitOf, KeepsTelling, TellOf
  <1>6. KeepsAudit(j) /\ run[j].attempt \in Nat /\ status[j] # "none"
    BY <1>1, <1>2, <1>3, Here DEF KeepsAudit, AuditOf, Runs, ShapeOf
  <1>7. KeepsShape(j)
    <2>1. thinking' \in BOOLEAN
      BY <1>1, Zenon
    <2> QED
      BY <1>1, <1>2, <1>3, <1>6, <2>1, Here DEF KeepsShape
  <1> QED
    BY <1>1, <1>3, <1>4, <1>5, <1>6, <1>7, TasksGoOn

LEMMA KeepHolds ==
    ASSUME ReplyInv, NEW j \in Jobs, Keep(j)
    PROVE  ReplyInv'
  <1>1. pc[j] = "keeping"
    BY DEF Keep
  <1>2. CASE mode.thoughts
    BY <1>1, <1>2, ReadRowHolds DEF Keep, MergeGoals
  <1>3. CASE ~mode.thoughts
    <2>1. /\ content' = content /\ thinking' = FALSE
          /\ Goto(j, "none") /\ UNCHANGED <<mode, audit, state, run, control>>
      BY <1>3 DEF Keep
    <2>2. ShapeOf(mode, status[j], "none", run[j]) /\ status[j] \in {"failed", "cancelled"}
      BY <1>1, Here DEF ShapeOf
    <2>3. Own(j) /\ pc'[j] = "none" /\ run'[j] = run[j] /\ status'[j] = status[j]
          /\ audit' = audit /\ effects' = effects
      BY <2>1, WriteIs DEF ReplyInv
    <2>4. KeepsWhole(j)
      BY <2>2, <2>3 DEF KeepsWhole, WholeOf
    <2>5. KeepsAwaited(j) /\ KeepsTelling(j)
      BY <1>1, <2>1, <2>2, <2>3 DEF KeepsAwaited, AwaitOf, KeepsTelling, TellOf
    <2>6. KeepsAudit(j) /\ run[j].attempt \in Nat
      BY <1>1, <2>1, <2>2, <2>3, Here DEF KeepsAudit, AuditOf, Runs
    <2>7. KeepsShape(j)
      <3>1. thinking' \in BOOLEAN
        BY <2>1, Zenon
      <3> QED
        BY <2>1, <2>2, <2>3, <2>6, <3>1, Here DEF KeepsShape
    <2> QED
      BY <1>1, <2>3, <2>4, <2>5, <2>6, <2>7, TasksGoOn
  <1> QED
    BY <1>2, <1>3

LEMMA ReplyIs ==
    ASSUME NEW j \in Jobs
    PROVE  /\ Reply(j) = ReplyOf(j, run[j].text)
           /\ ReplyOf(j, run[j].text) = Empty <=> run[j].text \notin {"partial", "whole"}
           /\ ReplyOf(j, run[j].text) \in Contents
  <1>1. CASE HasReply(run[j].text)
    BY <1>1, JobsAssumption DEF Reply, ReplyOf, HasReply, Empty, Contents
  <1>2. CASE ~HasReply(run[j].text)
    BY <1>2 DEF Reply, ReplyOf, HasReply, Empty, Contents
  <1> QED
    BY <1>1, <1>2

LEMMA WriteProseHolds ==
    ASSUME ReplyInv, NEW j \in Jobs, WriteProse(j)
    PROVE  ReplyInv'
  <1>1. PICK next \in {"turning", "streaming", "checking"} :
           /\ pc[j] = IF next = "turning" THEN "ending" ELSE IF next = "streaming" THEN "flushing"
                      ELSE "closing"
           /\ mode.thoughts => ReadRow(j, next)
           /\ ~mode.thoughts => /\ content' = Reply(j) /\ Goto(j, next) /\ thinking' = thinking
                                /\ UNCHANGED <<mode, audit, state, run, control>>
    BY DEF WriteProse, Forced
  <1>2. CASE mode.thoughts
    BY <1>1, <1>2, ReadRowHolds DEF MergeGoals
  <1>3. CASE ~mode.thoughts
    <2>1. /\ content' = ReplyOf(j, run[j].text) /\ content' \in Contents
          /\ run[j].text \in {"none", "partial", "whole"}
          /\ content' = Empty <=> run[j].text = "none"
      BY <1>1, <1>3, ReplyIs, Here DEF ShapeOf, Runs
    <2>2. ShapeOf(mode, status[j], next, run[j]) /\ status[j] \in {"running", "cancelled"} /\ mode.typed
      BY <1>1, Here DEF ShapeOf
    <2>3. KeepsWhole(j)
      <3>1. pc'[j] = next /\ run'[j] = run[j] /\ status'[j] = status[j]
        BY <1>1, <1>3, WriteIs DEF ReplyInv
      <3> QED
        BY <2>1, <2>2, <3>1 DEF KeepsWhole, WholeOf
    <2> QED
      BY <1>1, <1>3, <2>1, <2>2, <2>3, WriteKeeps, Here DEF AuditOf, TellOf
  <1> QED
    BY <1>2, <1>3

LEMMA MergeHolds ==
    ASSUME ReplyInv, NEW j \in Jobs, Merge(j)
    PROVE  ReplyInv'
  <1> DEFINE next == run[j].next
             reply == ReplyOf(j, run[j].text)
  <1>1. /\ pc[j] = "merging" /\ Types /\ next \in MergeGoals /\ run[j].seen \in Contents
        /\ run[j] \in Runs /\ run[j].attempt \in Nat
        /\ status[j] \notin {"none", "queued", "completed"}
    <2>1. pc[j] = "merging" /\ Types /\ run[j] \in Runs
      BY Here DEF Merge, ReplyInv
    <2> QED
      BY <2>1, Here DEF Runs, ShapeOf
  <1>2. /\ Own(j) /\ pc'[j] = next /\ status'[j] = status[j] /\ effects' = effects
    <2>1. /\ Goto(j, next) /\ run' = [run EXCEPT ![j].seen = Empty, ![j].next = "none"]
          /\ UNCHANGED <<mode, state, control>>
      BY DEF Merge
    <2>2. run' = [run EXCEPT ![j] = run'[j]]
      BY <1>1, <2>1 DEF Types
    <2> HIDE DEF next
    <2> QED
      BY <1>1, <2>1, <2>2, HandlersAre DEF Types, Goto, Own, state, control, requests
  <1>3. run'[j] = [run[j] EXCEPT !.seen = Empty, !.next = "none"]
    BY <1>1 DEF Merge, Types
  <1>4. /\ run'[j] \in Runs /\ run'[j].text = run[j].text /\ run'[j].applied = run[j].applied
        /\ run'[j].attempt = run[j].attempt
    BY <1>1, <1>3, Here DEF Runs, MergeGoals
  <1>5. /\ reply \in Contents
        /\ reply = Empty <=> run[j].text \notin {"partial", "whole"}
        /\ content' = IF reply = Empty THEN run[j].seen ELSE reply
        /\ audit' = IF mode.typed /\ next = "completing" THEN run[j].applied ELSE audit
    BY <1>1, ReplyIs DEF Merge, MergedContent
  <1>6. /\ thinking' \in BOOLEAN
        /\ next = "completing" \/ ~mode.thoughts => ~thinking'
    <2>1. thinking' = MergedThinking(run[j].seen, Reply(j),
                         run[j].text = "thought" /\ next \in {"streaming", "turning"})
      BY DEF Merge
    <2>2. \/ thinking' = FALSE
          \/ thinking' = (run[j].text = "thought" /\ next \in {"streaming", "turning"})
      BY <2>1 DEF MergedThinking
    <2>3. ~mode.thoughts => run[j].text # "thought"
      BY Here DEF ShapeOf
    <2>4. (run[j].text = "thought" /\ next \in {"streaming", "turning"}) \in BOOLEAN
      OBVIOUS
    <2>5. thinking' \in BOOLEAN
      BY <2>2, <2>4, Zenon
    <2>6. ASSUME next = "completing" \/ ~mode.thoughts PROVE ~thinking'
      <3>1. ~(run[j].text = "thought" /\ next \in {"streaming", "turning"})
        BY <2>3, <2>6
      <3> QED
        BY <2>2, <3>1, Zenon
    <2> QED
      BY <2>5, <2>6
  <1>7. ShapeOf(mode, status[j], next, run'[j]) /\ (status[j] = "running" => next # "none")
    BY <1>1, <1>4, Here DEF ShapeOf, MergeGoals
  <1> HIDE DEF next, reply
  <1>8. KeepsShape(j)
    BY <1>1, <1>2, <1>4, <1>5, <1>6, <1>7, Here DEF KeepsShape
  <1>9. KeepsAudit(j)
    <2>1. run[j].applied \in SUBSET Effects
      BY <1>1 DEF Runs
    <2> QED
      BY <1>1, <1>2, <1>4, <1>5, <2>1, Here DEF KeepsAudit, AuditOf, MergeGoals
  <1>10. /\ mode.typed \/ mode.thoughts
         /\ ~mode.thoughts => mode.typed /\ next = "completing" /\ run[j].text = "whole"
         /\ next = "completing" => run[j].text \in {"whole", "thought"}
         /\ next = "checking" => run[j].text # "partial"
    BY <1>1, Here DEF ShapeOf, next
  <1>11. KeepsWhole(j)
    <2> SUFFICES ASSUME WholeOf(j, content, thinking, status[j], pc[j], run[j])
                 PROVE  WholeOf(j, content', thinking', status'[j], pc'[j], run'[j])
      BY DEF KeepsWhole
    <2>1. /\ run[j].seen = content
          /\ run[j].text = "thought" => content = Empty
          /\ run[j].text = "none" => content = Empty \/ next = "checking"
      BY <1>1 DEF WholeOf, next
    <2>2. /\ run[j].text = "thought" => content' = Empty
          /\ run[j].text = "none" => content' = Empty \/ next = "checking"
          /\ next = "completing" => content' = reply
      BY <1>5, <1>10, <2>1
    <2> QED
      BY <1>1, <1>2, <1>4, <1>6, <1>10, <2>2 DEF WholeOf, MergeGoals, reply
  <1>12. KeepsTelling(j)
    BY <1>1, <1>2, <1>4, <1>5, <1>6, <1>10 DEF KeepsTelling, TellOf
  <1>13. KeepsAwaited(j)
    BY <1>10 DEF KeepsAwaited
  <1> QED
    BY <1>1, <1>2, <1>8, <1>9, <1>11, <1>12, <1>13, TasksGoOn

\* A piece brings some text; a thought comes first.
LEMMA LaterIs ==
    ASSUME NEW text \in {"none", "thought", "partial", "whole"}, NEW later \in Later(text)
    PROVE  later \in {"thought", "partial", "whole"} /\ (later = "thought" => text = "none")
  <1> DEFINE Rank(p) == CHOOSE i \in DOMAIN Progress : Progress[i] = p
  <1>1. /\ DOMAIN Progress = {1, 2, 3, 4}
        /\ Progress[1] = "none" /\ Progress[2] = "thought" /\ Progress[3] = "partial" /\ Progress[4] = "whole"
    BY DEF Progress
  <1>2. Rank(text) \in {1, 2, 3, 4} /\ Progress[Rank(text)] = text
    BY <1>1
  <1>3. later \in {Progress[i] : i \in {k \in DOMAIN Progress : k > Rank(text) /\ k <= Rank(text) + 2}}
    BY DEF Later
  <1> HIDE DEF Rank
  <1>4. PICK i \in {1, 2, 3, 4} : i > Rank(text) /\ later = Progress[i]
    BY <1>1, <1>3
  <1> QED
    BY <1>1, <1>2, <1>4

LEMMA PieceHolds ==
    ASSUME ReplyInv, NEW j \in Jobs, Piece(j)
    PROVE  ReplyInv'
  <1>1. /\ pc[j] = "streaming" /\ Types /\ run[j] \in Runs /\ content \in Contents
        /\ run[j].text \in {"none", "thought", "partial", "whole"} /\ run[j].attempt \in Nat
        /\ status[j] \in {"running", "cancelled"}
    <2>1. pc[j] = "streaming" /\ Types /\ run[j] \in Runs /\ content \in Contents
      BY Here DEF Piece, ReplyInv
    <2>2. status[j] \in {"running", "cancelled"}
      BY <2>1, Here DEF ShapeOf
    <2> QED
      BY <2>1, <2>2 DEF Runs
  <1>2. PICK text \in Later(run[j].text) :
           /\ text = "thought" => mode.thoughts
           /\ \/ /\ mode.typed \/ run[j].text # "none"
                 /\ Update(j, "streaming", [run[j] EXCEPT !.text = text])
              \/ /\ mode.thoughts
                 /\ Update(j, "merging", [run[j] EXCEPT !.text = text, !.seen = content, !.next = "streaming"])
              \/ /\ ~mode.thoughts
                 /\ run' = [run EXCEPT ![j].text = text]
                 /\ content' = [text |-> text, by |-> j]
                 /\ UNCHANGED <<mode, thinking, audit, state, pc, control>>
    BY DEF Piece
  <1>3. text \in {"thought", "partial", "whole"} /\ (text = "thought" => run[j].text = "none")
    BY <1>1, <1>2, LaterIs
  <1>4. CASE /\ mode.typed \/ run[j].text # "none"
             /\ Update(j, "streaming", [run[j] EXCEPT !.text = text])
    <2> DEFINE new == [run[j] EXCEPT !.text = text]
    <2>1. /\ new \in Runs /\ new.text = text /\ new.applied = run[j].applied
          /\ new.next = run[j].next /\ new.attempt = run[j].attempt
      BY <1>1, <1>3 DEF Runs
    <2>2. Update(j, "streaming", new) /\ run[j].attempt <= run[j].attempt
      BY <1>1, <1>4
    <2> HIDE DEF new
    <2>3. ShapeOf(mode, status[j], "streaming", new)
      BY <1>1, <1>2, <1>3, <2>1, Here DEF ShapeOf
    <2>4. AuditOf(audit, effects, status[j], pc[j], run[j]) =>
             AuditOf(audit, effects, status[j], "streaming", new)
      BY <1>1, <1>3, <1>4, <2>1 DEF AuditOf
    <2>5. WholeOf(j, content, thinking, status[j], pc[j], run[j]) =>
             WholeOf(j, content, thinking, status[j], "streaming", new)
      BY <1>1, <1>3, <1>4, <2>1 DEF WholeOf
    <2>6. ~mode.thoughts /\ TellOf(mode, content, status[j], pc[j], run[j]) =>
             TellOf(mode, content, status[j], "streaming", new)
      BY <1>1, <1>3, <1>4, <2>1 DEF TellOf
    <2> QED
      BY <1>1, <1>4, <2>1, <2>2, <2>3, <2>4, <2>5, <2>6, UpdateKeeps
  <1>5. CASE /\ mode.thoughts
             /\ Update(j, "merging", [run[j] EXCEPT !.text = text, !.seen = content, !.next = "streaming"])
    <2> DEFINE new == [run[j] EXCEPT !.text = text, !.seen = content, !.next = "streaming"]
    <2>1. new \in Runs
      BY <1>1, <1>3 DEF Runs, MergeGoals
    <2>2. /\ new.text = text /\ new.applied = run[j].applied /\ new.seen = content
          /\ new.next = "streaming" /\ new.attempt = run[j].attempt
      BY <1>1 DEF Runs
    <2>3. Update(j, "merging", new) /\ run[j].attempt <= run[j].attempt
      BY <1>1, <1>5
    <2> HIDE DEF new
    <2>4. ShapeOf(mode, status[j], "merging", new)
      BY <1>1, <1>3, <1>5, <2>2, Here DEF ShapeOf
    <2>5. AuditOf(audit, effects, status[j], pc[j], run[j]) =>
             AuditOf(audit, effects, status[j], "merging", new)
      BY <1>1, <1>3, <1>5, <2>2 DEF AuditOf
    <2>6. WholeOf(j, content, thinking, status[j], pc[j], run[j]) =>
             WholeOf(j, content, thinking, status[j], "merging", new)
      BY <1>1, <1>3, <1>5, <2>2 DEF WholeOf
    <2>7. ~mode.thoughts /\ TellOf(mode, content, status[j], pc[j], run[j]) =>
             TellOf(mode, content, status[j], "merging", new)
      BY <1>1, <1>3, <1>5, <2>2 DEF TellOf
    <2> QED
      BY <1>1, <1>5, <2>1, <2>2, <2>3, <2>4, <2>5, <2>6, <2>7, UpdateKeeps
  <1>6. CASE /\ ~mode.thoughts
             /\ run' = [run EXCEPT ![j].text = text]
             /\ content' = [text |-> text, by |-> j]
             /\ UNCHANGED <<mode, thinking, audit, state, pc, control>>
    <2>1. /\ run'[j] = [run[j] EXCEPT !.text = text] /\ run' = [run EXCEPT ![j] = run'[j]]
          /\ pc'[j] = "streaming" /\ status'[j] = status[j] /\ audit' = audit /\ effects' = effects
          /\ thinking' = thinking /\ mode' = mode
      BY <1>1, <1>6 DEF Types, state
    <2>2. Own(j)
      <3>1. pc' = [pc EXCEPT ![j] = pc'[j]] /\ status' = [status EXCEPT ![j] = status'[j]]
        BY <1>1, <1>6, HandlersAre DEF Types, state
      <3> QED
        BY <1>1, <1>6, <2>1, <3>1 DEF Own, control, requests, Types
    <2>3. /\ run'[j] \in Runs /\ run'[j].text = text /\ run'[j].applied = run[j].applied
          /\ run'[j].attempt = run[j].attempt /\ run[j].attempt <= run[j].attempt
      BY <1>1, <1>3, <2>1 DEF Runs
    <2>4. content' \in Contents /\ content' # Empty /\ text # "thought"
      BY <1>2, <1>3, <1>6, JobsAssumption DEF Contents, Empty
    <2>5. ShapeOf(mode, status[j], "streaming", run'[j]) /\ status[j] \in {"running", "cancelled"}
      BY <1>1, <1>3, <2>3, <2>4, Here DEF ShapeOf
    <2>6. KeepsShape(j)
      BY <2>1, <2>3, <2>4, <2>5, Here DEF KeepsShape
    <2>7. KeepsAudit(j) /\ KeepsWhole(j)
      BY <1>1, <1>3, <2>1, <2>3, <2>4, <2>5, Here DEF KeepsAudit, AuditOf, KeepsWhole, WholeOf
    <2>8. KeepsTelling(j) /\ KeepsAwaited(j)
      BY <1>1, <2>1, <2>3, <2>4, <2>5 DEF KeepsTelling, TellOf, KeepsAwaited
    <2> QED
      BY <1>1, <2>2, <2>6, <2>7, <2>8, TasksGoOn
  <1> QED
    BY <1>2, <1>4, <1>5, <1>6

LEMMA BreakHolds ==
    ASSUME ReplyInv, NEW j \in Jobs, Break(j)
    PROVE  ReplyInv'
  <1>1. pc[j] = "streaming" /\ Types /\ status[j] \in {"running", "cancelled"} /\ run[j].attempt \in Nat
    <2>1. pc[j] = "streaming" /\ Types /\ run[j] \in Runs
      BY Here DEF Break, ReplyInv
    <2> QED
      BY <2>1, Here DEF Runs, ShapeOf
  <1>2. CASE /\ ~mode.typed /\ run[j].text # "none" /\ Goto(j, "breaking")
             /\ Count("failures")
             /\ UNCHANGED <<mode, row, state, run, requests>>
    <2>1. used' = [used EXCEPT !["failures"] = @ + 1]
      BY <1>2 DEF Count
    <2>2. /\ used'.cancels = used.cancels /\ used'.crashes = used.crashes
          /\ used' \in [cancels : Nat, regenerates : Nat, crashes : Nat, failures : Nat]
      BY <1>1, <2>1 DEF Types
    <2>3. Own(j) /\ pc'[j] = "breaking" /\ run'[j] = run[j] /\ status'[j] = status[j]
      BY <1>1, <1>2, <2>2, HandlersAre DEF Types, Goto, Own, state, requests
    <2>4. content' = content /\ thinking' = thinking /\ audit' = audit /\ effects' = effects
      BY <1>2 DEF row, state
    <2>5. KeepsShape(j)
      BY <1>1, <1>2, <2>3, <2>4, Here DEF KeepsShape, ShapeOf
    <2>6. KeepsAudit(j) /\ KeepsWhole(j)
      BY <1>1, <2>3, <2>4, Here DEF KeepsAudit, AuditOf, KeepsWhole, WholeOf
    <2>7. KeepsTelling(j) /\ KeepsAwaited(j)
      BY <1>1, <1>2, <2>3, <2>4 DEF KeepsTelling, TellOf, KeepsAwaited, AwaitOf
    <2> QED
      BY <1>1, <2>3, <2>5, <2>6, <2>7, TasksGoOn
  <1> QED
    BY <1>1, <1>2, RetryHolds DEF Break

\* complete_job settles a job with what the message holds by then.
LEMMA CompleteHolds ==
    ASSUME ReplyInv, NEW j \in Jobs, Complete(j)
    PROVE  ReplyInv'
  <1>1. /\ Types /\ run[j].attempt \in Nat
        /\ \/ pc[j] = "completing" /\ status' = [status EXCEPT ![j] = "completed"] /\ Goto(j, "none")
           \/ pc[j] = "failing" /\ status' = [status EXCEPT ![j] = "failed"] /\ Goto(j, "none")
           \/ pc[j] = "breaking" /\ status' = [status EXCEPT ![j] = "failed"] /\ Goto(j, "keeping")
    BY Here DEF Complete, Settle, Job, ReplyInv, Runs
  <1>2. /\ Own(j) /\ run'[j] = run[j]
        /\ content' = content /\ thinking' = thinking /\ audit' = audit /\ effects' = effects
        /\ \/ pc[j] = "completing" /\ status'[j] = "completed" /\ pc'[j] = "none"
           \/ pc[j] = "failing" /\ status'[j] = "failed" /\ pc'[j] = "none"
           \/ pc[j] = "breaking" /\ status'[j] = "failed" /\ pc'[j] = "keeping"
    BY <1>1, HandlersAre DEF Types, Complete, Goto, Own, row, control, requests
  <1>3. KeepsShape(j)
    BY <1>1, <1>2, Here DEF KeepsShape, ShapeOf, Statuses
  <1>4. KeepsAudit(j) /\ KeepsWhole(j)
    BY <1>2, Here DEF KeepsAudit, AuditOf, KeepsWhole, WholeOf
  <1>5. KeepsTelling(j) /\ KeepsAwaited(j)
    BY <1>2, Here DEF KeepsTelling, TellOf, KeepsAwaited, AwaitOf
  <1> QED
    BY <1>2, <1>3, <1>4, <1>5, TasksGoOn

LEMMA StartHolds ==
    ASSUME ReplyInv, NEW j \in Jobs, Start(j)
    PROVE  ReplyInv'
  <1>1. /\ Types /\ pc[j] = "none" /\ status[j] = "queued" /\ run[j].attempt \in Nat
        /\ ~Crashed => run[j].attempt = 0
    BY Here DEF Start, ReplyInv, Runs, Unbroken
  <1>2. /\ Own(j) /\ run'[j] = Fresh /\ pc'[j] = "loading" /\ status'[j] = "running"
        /\ content' = content /\ thinking' = thinking /\ audit' = audit /\ effects' = effects
    BY <1>1, HandlersAre DEF Types, Start, Goto, Own, row, control, requests
  <1>3. /\ Fresh \in Runs /\ Fresh.attempt = 0 /\ Fresh.text = "none" /\ Fresh.applied = {}
        /\ Fresh.next = "none"
    BY Here DEF Fresh, Runs, MergeGoals
  <1>4. KeepsShape(j)
    BY <1>1, <1>2, <1>3, Here DEF KeepsShape, ShapeOf, Statuses
  <1>5. KeepsAudit(j) /\ KeepsWhole(j)
    BY <1>1, <1>2, <1>3, Here DEF KeepsAudit, AuditOf, KeepsWhole, WholeOf
  <1>6. KeepsTelling(j) /\ KeepsAwaited(j)
    BY <1>1, <1>2, <1>3, Here DEF KeepsTelling, TellOf, KeepsAwaited, AwaitOf
  <1> QED
    BY <1>1, <1>2, <1>4, <1>5, <1>6, TasksGoOn

\* Changes of the state, which the audit does not tell yet,
LEMMA ChangesHold ==
    ASSUME ReplyInv, NEW j \in Jobs, NEW change \in Effects, NEW new \in Runs,
           \/ pc[j] = "planning" /\ Goto(j, "savingPlan") /\ new.text = "none" /\ new.applied = {change}
           \/ pc[j] = "tooling" /\ Goto(j, "auditing") /\ new.applied = run[j].applied \cup {change}
              /\ new.text = (IF run[j].text = "none" THEN "partial" ELSE run[j].text),
           new.attempt = run[j].attempt, run' = [run EXCEPT ![j] = new],
           effects' = effects \cup {change},
           UNCHANGED <<mode, row, status, control>>
    PROVE  ReplyInv'
  <1>1. /\ Types /\ mode.typed /\ status[j] \in {"running", "cancelled"} /\ run[j].attempt \in Nat
        /\ run[j].attempt > 0
        /\ pc[j] = "planning" => run[j].text = "none"
    <2>1. Types /\ run[j] \in Runs
      BY Here DEF ReplyInv
    <2> QED
      BY <2>1, Here DEF Runs, ShapeOf
  <1>2. /\ Own(j) /\ run'[j] = new /\ status'[j] = status[j]
        /\ content' = content /\ thinking' = thinking /\ audit' = audit
        /\ \/ pc[j] = "planning" /\ pc'[j] = "savingPlan" /\ new.applied = {change}
           \/ pc[j] = "tooling" /\ pc'[j] = "auditing" /\ new.applied = run[j].applied \cup {change}
    BY <1>1, HandlersAre DEF Types, Goto, Own, row, control, requests
  <1>3. KeepsShape(j)
    BY <1>1, <1>2, Here DEF KeepsShape, ShapeOf
  <1>4. KeepsAudit(j)
    <2>1. effects' \in SUBSET Effects /\ audit' \in SUBSET Effects
      BY <1>2, Here
    <2> QED
      BY <1>1, <1>2, <2>1, Here DEF KeepsAudit, AuditOf
  <1>5. KeepsWhole(j)
    BY <1>1, <1>2, Here DEF KeepsWhole, WholeOf
  <1>6. KeepsTelling(j) /\ KeepsAwaited(j)
    BY <1>1, <1>2, Here DEF KeepsTelling, TellOf, KeepsAwaited
  <1> QED
    BY <1>1, <1>2, <1>3, <1>4, <1>5, <1>6, TasksGoOn

LEMMA EffectIs ==
    ASSUME ReplyInv, NEW j \in Jobs
    PROVE  Planned(j) \in Effects /\ Tool(j) \in Effects
  <1>1. run[j].attempt \in Nat
    BY Here DEF Runs
  <1> QED
    BY <1>1 DEF Planned, Tool, Effect, Effects

LEMMA PlanHolds ==
    ASSUME ReplyInv, NEW j \in Jobs, Plan(j)
    PROVE  ReplyInv'
  <1>1. pc[j] = "planning" /\ Types /\ run[j] \in Runs
    BY Here DEF Plan, ReplyInv
  <1>2. CASE Move(j, "rechecking")
    BY <1>1, <1>2, MoveKeeps, Here DEF ShapeOf, AuditOf, WholeOf, TellOf
  <1>3. CASE /\ effects' = effects \cup {Planned(j)}
             /\ run' = [run EXCEPT ![j].applied = {Planned(j)}]
             /\ Goto(j, "savingPlan")
             /\ UNCHANGED <<mode, row, status, control>>
    <2> DEFINE new == [run[j] EXCEPT !.applied = {Planned(j)}]
    <2>1. run[j].text = "none" /\ Planned(j) \in Effects
      BY <1>1, EffectIs, Here DEF ShapeOf
    <2>2. /\ new \in Runs /\ new.text = "none" /\ new.attempt = run[j].attempt
          /\ new.applied = {Planned(j)}
      BY <1>1, <2>1 DEF Runs
    <2>3. run' = [run EXCEPT ![j] = new]
      BY <1>1, <1>3 DEF Types
    <2> HIDE DEF new
    <2> QED
      BY <1>1, <1>3, <2>1, <2>2, <2>3, ChangesHold
  <1> QED
    BY <1>1, <1>2, <1>3, RetryHolds DEF Plan

LEMMA CallToolHolds ==
    ASSUME ReplyInv, NEW j \in Jobs, CallTool(j)
    PROVE  ReplyInv'
  <1> DEFINE new == [run[j] EXCEPT !.applied = run[j].applied \cup {Tool(j)},
                                   !.text = IF run[j].text = "none" THEN "partial" ELSE run[j].text]
  <1>1. pc[j] = "tooling" /\ Types /\ run[j] \in Runs /\ Tool(j) \in Effects
    BY Here, EffectIs DEF CallTool, ReplyInv
  <1>2. /\ new \in Runs /\ new.attempt = run[j].attempt
        /\ new.applied = run[j].applied \cup {Tool(j)}
        /\ new.text = (IF run[j].text = "none" THEN "partial" ELSE run[j].text)
    BY <1>1 DEF Runs
  <1>3. run' = [run EXCEPT ![j] = new]
    BY <1>1 DEF CallTool, Types
  <1> HIDE DEF new
  <1> QED
    BY <1>1, <1>2, <1>3, ChangesHold DEF CallTool

\* and the save of the audit that tells them.
LEMMA SavesHold ==
    ASSUME ReplyInv, NEW j \in Jobs, SavePlan(j) \/ AuditTool(j)
    PROVE  ReplyInv'
  <1>1. /\ Types /\ status[j] \in {"running", "cancelled"} /\ run[j].attempt \in Nat
        /\ run[j].attempt > 0 /\ run[j].applied \in SUBSET Effects /\ mode.typed
        /\ pc[j] \in {"savingPlan", "auditing"}
    <2>1. Types /\ run[j] \in Runs /\ pc[j] \in {"savingPlan", "auditing"}
      BY Here DEF ReplyInv, SavePlan, AuditTool
    <2> QED
      BY <2>1, Here DEF Runs, ShapeOf
  <1>2. PICK place \in {"rechecking", "unthinking", "streaming", "flushing"} :
           /\ pc[j] = "auditing" <=> place = "flushing"
           /\ place = "unthinking" => mode.thoughts
           /\ Goto(j, place)
    BY DEF SavePlan, AuditTool, Unless
  <1>3. audit' = run[j].applied /\ UNCHANGED <<mode, content, thinking, state, run, control>>
    BY DEF SavePlan, AuditTool, SaveAudit
  <1>4. /\ Own(j) /\ run'[j] = run[j] /\ pc'[j] = place /\ status'[j] = status[j]
        /\ content' = content /\ thinking' = thinking /\ effects' = effects
    BY <1>1, <1>2, <1>3, HandlersAre DEF Types, Goto, Own, state, control, requests
  <1>5. KeepsShape(j)
    BY <1>1, <1>2, <1>4, Here DEF KeepsShape, ShapeOf
  <1>6. KeepsAudit(j) /\ KeepsWhole(j)
    BY <1>1, <1>2, <1>3, <1>4, Here DEF KeepsAudit, AuditOf, KeepsWhole, WholeOf
  <1>7. KeepsTelling(j) /\ KeepsAwaited(j)
    BY <1>1, <1>2, <1>4, Here DEF KeepsTelling, TellOf, KeepsAwaited
  <1> QED
    BY <1>1, <1>4, <1>5, <1>6, <1>7, TasksGoOn

-----------------------------------------------------------------------------
(* cancel_job and cancel_job_record, by a task or by a handler              *)

LEMMA TaskRecords ==
    ASSUME ReplyInv, NEW j \in Jobs,
           CancelRecheck(j) \/ CancelRecord(j) \/ CancelLook(j) \/ CancelMark(j) \/ CancelCalm(j)
    PROVE  ReplyInv'
  <1>1. Job(j) = j /\ j # Regenerator /\ AfterRecord(j) = "none" /\ Types
    BY HandlersAre DEF Job, AfterRecord, ReplyInv
  <1>2. CASE CancelRecheck(j)
    <2>1. PICK place \in {"recording", "none"} :
             /\ pc[j] = "rechecking" /\ Move(j, place)
             /\ place = "recording" <=> status[j] \in Active
      BY <1>1, <1>2 DEF CancelRecheck, TickOff, Move, control, requests
    <2> QED
      BY <2>1, MoveKeeps, Here DEF ShapeOf, AuditOf, WholeOf, TellOf
  <1>3. CASE CancelRecord(j)
    <2>1. /\ Own(j) /\ run'[j] = run[j] /\ pc'[j] = "looking" /\ status'[j] = "cancelled"
          /\ pc[j] = "recording"
          /\ content' = content /\ thinking' = thinking /\ audit' = audit /\ effects' = effects
      BY <1>1, <1>3, HandlersAre DEF Types, CancelRecord, Settle, Goto, Own, row, control, requests
    <2>2. KeepsShape(j)
      <3>1. run[j].attempt \in Nat
        BY Here DEF Runs
      <3> QED
        BY <2>1, <3>1, Here DEF KeepsShape, ShapeOf, Statuses
    <2>3. KeepsAudit(j) /\ KeepsWhole(j)
      BY <2>1, Here DEF KeepsAudit, AuditOf, KeepsWhole, WholeOf
    <2>4. KeepsTelling(j) /\ KeepsAwaited(j)
      BY <2>1, Here DEF KeepsTelling, TellOf, KeepsAwaited, AwaitOf
    <2> QED
      BY <2>1, <2>2, <2>3, <2>4, TasksGoOn
  <1>4. CASE CancelLook(j)
    <2>1. PICK place \in {"marking", "calming"} :
             /\ pc[j] = "looking" /\ Move(j, place)
             /\ place = "marking" <=> content = Empty
      BY <1>4 DEF CancelLook, Move
    <2> QED
      BY <2>1, MoveKeeps, Here DEF ShapeOf, AuditOf, WholeOf, TellOf
  <1>5. CASE CancelMark(j)
    <2>1. /\ pc[j] = "marking" /\ content' = Placeholder /\ thinking' = thinking
          /\ Goto(j, "calming") /\ UNCHANGED <<mode, audit, state, run, control>>
      BY <1>5 DEF CancelMark
    <2>2. ShapeOf(mode, status[j], "calming", run[j]) /\ status[j] = "cancelled"
      BY <2>1, Here DEF ShapeOf
    <2>3. KeepsWhole(j)
      <3>1. pc'[j] = "calming" /\ status'[j] = status[j]
        BY <1>1, <2>1, WriteIs
      <3> QED
        BY <2>2, <3>1 DEF KeepsWhole, WholeOf
    <2> QED
      BY <2>1, <2>2, <2>3, WriteKeeps, Here DEF AuditOf, TellOf
  <1>6. CASE CancelCalm(j)
    <2>1. /\ pc[j] = "calming" /\ content' = content /\ thinking' = FALSE
          /\ Goto(j, "none") /\ UNCHANGED <<mode, audit, state, run, control>>
      BY <1>1, <1>6 DEF CancelCalm, TickOff, control, requests
    <2>2. ShapeOf(mode, status[j], "none", run[j]) /\ status[j] = "cancelled"
      BY <2>1, Here DEF ShapeOf
    <2>3. KeepsWhole(j)
      <3>1. pc'[j] = "none" /\ status'[j] = status[j]
        BY <1>1, <2>1, WriteIs
      <3> QED
        BY <2>2, <3>1 DEF KeepsWhole, WholeOf
    <2>4. thinking' \in BOOLEAN /\ (~thinking => ~thinking')
      BY <2>1, Zenon
    <2> QED
      BY <2>1, <2>2, <2>3, <2>4, WriteKeeps, Here DEF AuditOf, TellOf
  <1> QED
    BY <1>2, <1>3, <1>4, <1>5, <1>6

\* What a handler h does to the job k it deals with, and to the message.
Meddles(h, k) ==
    /\ pc' = [pc EXCEPT ![h] = pc'[h]]
    /\ status' = [status EXCEPT ![k] = status'[k]]
    /\ status'[k] = status[k] \/ (status'[k] = "cancelled" /\ pc'[h] = "looking")
    /\ run' = [run EXCEPT ![k] = run'[k]]
    /\ run'[k] = run[k] \/ run'[k] = [run[k] EXCEPT !.token = "cancelled"]
    /\ content' = content \/ content' = Placeholder
    /\ thinking' \in BOOLEAN /\ (~thinking => ~thinking')
    /\ pc[h] \in Marks => pc'[h] \in Marks \/ content' # Empty
    /\ pc[h] \notin Clearing
    /\ subject' \in [Handlers -> Jobs] /\ \A x \in Handlers : Started(subject'[x])
    /\ regen' \in [snapshot : SUBSET Effects, todo : SUBSET Jobs] /\ regen'.todo \subseteq regen.todo
    /\ used' \in [cancels : Nat, regenerates : Nat, crashes : Nat, failures : Nat]
    /\ used'.crashes = used.crashes
    /\ ~busy => used'.cancels # 0
    /\ UNCHANGED <<mode, audit, effects, busy>>

LEMMA HandlersGoOn ==
    ASSUME ReplyInv, NEW h \in Handlers, NEW k \in Jobs, Started(k), Meddles(h, k), HandlersAt',
           ~busy => h = Canceller /\ At(Regenerator, "none")
    PROVE  ReplyInv'
  <1>1. Types
    BY DEF ReplyInv
  <1>2. /\ \A i \in Actors : i # h => pc'[i] = pc[i]
        /\ \A i \in Jobs : pc'[i] = pc[i]
        /\ \A i \in Jobs : status'[i] = status[i] \/ (status'[i] = "cancelled" /\ i = k /\ pc'[h] = "looking")
    BY <1>1, HandlersAre DEF Types, Meddles
  <1>3. \A i \in Jobs : /\ run'[i] \in Runs /\ run'[i].attempt = run[i].attempt
                        /\ run'[i].text = run[i].text /\ run'[i].applied = run[i].applied
                        /\ run'[i].next = run[i].next /\ run[i].attempt \in Nat
    <2>1. \A i \in Jobs : run[i] \in Runs /\ (run'[i] = run[i] \/ run'[i] = [run[i] EXCEPT !.token = "cancelled"])
      BY <1>1 DEF Types, Meddles
    <2>2. ASSUME NEW r \in Runs
          PROVE  LET new == [r EXCEPT !.token = "cancelled"]
                 IN /\ new \in Runs /\ new.attempt = r.attempt /\ new.text = r.text
                    /\ new.applied = r.applied /\ new.next = r.next /\ r.attempt \in Nat
      BY DEF Runs
    <2> QED
      BY <2>1, <2>2
  <1>4. \A i \in Jobs : Started(i)' <=> Started(i)
    BY <1>2 DEF Started
  <1>5. Latest \in Jobs /\ Latest' = Latest
    BY <1>4, LatestIs, LatestStays DEF ReplyInv
  <1>6. Types'
    <2>1. pc'[h] \in Places
      BY HandlersAre DEF HandlersAt, Places
    <2>2. content' \in Contents
      BY Here DEF Meddles
    <2>3. pc' \in [Actors -> Places]
      BY <1>1, <2>1 DEF Types, Meddles
    <2>4. status' \in [Jobs -> Statuses] /\ run' \in [Jobs -> Runs]
      BY <1>1, <1>2, <1>3 DEF Types, Meddles, Statuses
    <2> QED
      BY <1>1, <2>2, <2>3, <2>4 DEF Types, Meddles
  <1>7. Numbered'
    <2>1. \A x \in Handlers : subject'[x] \in Jobs
      BY DEF Meddles
    <2>2. \A i \in regen'.todo : i \in Jobs /\ Started(i)
      BY <1>1 DEF Types, Meddles, ReplyInv, Numbered
    <2> QED
      BY <1>4, <2>1, <2>2, LatestStays DEF ReplyInv, Numbered, Meddles
  <1>8. \A i \in Jobs : Shape(i)'
    <2> SUFFICES ASSUME NEW i \in Jobs PROVE ShapeOf(mode, status'[i], pc'[i], run'[i])
      BY DEF Shape, Meddles
    <2>1. ShapeOf(mode, status[i], pc[i], run[i]) /\ status[k] # "none"
      BY DEF ReplyInv, Shape, Started
    <2> QED
      BY <1>2, <1>3, <2>1 DEF ShapeOf
  <1>9. Unbroken'
    BY <1>2, <1>3 DEF ReplyInv, Unbroken, Crashed, Meddles
  <1>10. ASSUME ~busy
         PROVE  h = Canceller /\ pc'[Regenerator] = "none" /\ pc[Regenerator] = "none"
    BY <1>2, <1>10, HandlersAre
  <1>11. Only'
    BY <1>2, <1>5, <1>10 DEF ReplyInv, Only, Meddles
  <1>12. Retried' <=> Retried
    BY <1>3 DEF Retried
  <1>13. Audited'
    BY <1>2, <1>3, <1>5, <1>10, <1>12 DEF ReplyInv, Audited, AuditOf, Meddles, Crashed
  <1>14. Wholly' /\ Telling'
    <2>1. Wholly'
      BY DEF Wholly, Meddles
    <2>2. ASSUME ~mode.thoughts PROVE ~thinking'
      BY <2>2 DEF ReplyInv, Telling, Meddles
    <2>3. ASSUME ~mode.thoughts, ~busy
          PROVE  TellOf(mode, content', status'[Latest], pc'[Latest], run'[Latest])
      <3>1. TellOf(mode, content, status[Latest], pc[Latest], run[Latest])
        BY <1>10, <2>3 DEF ReplyInv, Telling
      <3>2. content # Empty => content' # Empty
        BY Here DEF Meddles
      <3> QED
        BY <1>2, <1>3, <1>5, <3>1, <3>2 DEF TellOf
    <2> QED
      BY <1>5, <2>1, <2>2, <2>3 DEF Telling, Meddles
  <1>15. Awaited'
    <2> SUFFICES ASSUME Streamed', ~Crashed', content' = Empty, pc'[Regenerator] \notin Clearing
                 PROVE  /\ AwaitOf(status'[Latest], pc'[Latest], run'[Latest])
                        /\ status'[Latest] = "cancelled" => \E a \in Actors : pc'[a] \in Marks
      BY <1>5 DEF Awaited
    <2>1. content = Empty
      BY Here DEF Meddles
    <2>2. pc[Regenerator] \notin Clearing
      BY <1>2, HandlersAre DEF Meddles
    <2>3. Streamed /\ ~Crashed
      BY <1>12 DEF Streamed, Crashed, Meddles
    <2>4. /\ AwaitOf(status[Latest], pc[Latest], run[Latest])
          /\ status[Latest] = "cancelled" => \E a \in Actors : pc[a] \in Marks
      BY <2>1, <2>2, <2>3 DEF ReplyInv, Awaited
    <2>5. \A a \in Actors : pc[a] \in Marks => pc'[a] \in Marks
      BY <1>2 DEF Meddles
    <2>6. h \in Actors
      BY HandlersAre
    <2> QED
      BY <1>2, <1>3, <1>5, <2>4, <2>5, <2>6 DEF AwaitOf
  <1> QED
    BY <1>6, <1>7, <1>8, <1>9, <1>11, <1>13, <1>14, <1>15 DEF ReplyInv

LEMMA CancelRequestHolds ==
    ASSUME ReplyInv, NEW j \in Jobs, CancelRequest(j)
    PROVE  ReplyInv'
  <1>1. /\ Types /\ pc[Canceller] = "none" /\ status[j] \in Active /\ Started(j)
        /\ pc'[Canceller] \in {"signalling", "rechecking"}
        /\ pc' = [pc EXCEPT ![Canceller] = pc'[Canceller]]
        /\ subject' = [subject EXCEPT ![Canceller] = j]
        /\ used' = [used EXCEPT !["cancels"] = @ + 1]
        /\ UNCHANGED <<mode, content, thinking, audit, effects, status, run, regen, busy>>
    BY HandlersAre DEF CancelRequest, Goto, Started, Count, row, state, ReplyInv, Types
  <1>2. /\ used' \in [cancels : Nat, regenerates : Nat, crashes : Nat, failures : Nat]
        /\ used'.crashes = used.crashes /\ used'.cancels = used.cancels + 1 /\ used'.cancels # 0
    BY <1>1 DEF Types
  <1>3. subject' \in [Handlers -> Jobs] /\ \A x \in Handlers : Started(subject'[x])
    BY <1>1, HandlersAre DEF ReplyInv, Types, Numbered
  <1>4. Meddles(Canceller, j)
    <2>1. status' = [status EXCEPT ![j] = status'[j]] /\ run' = [run EXCEPT ![j] = run'[j]]
      BY <1>1 DEF Types
    <2>2. thinking \in BOOLEAN /\ regen \in [snapshot : SUBSET Effects, todo : SUBSET Jobs]
      BY <1>1 DEF Types
    <2>3. thinking' \in BOOLEAN /\ (~thinking => ~thinking')
      BY <1>1, <2>2, Zenon
    <2>4. pc[Canceller] \notin Marks /\ pc[Canceller] \notin Clearing
      BY <1>1 DEF Clearing
    <2> QED
      BY <1>1, <1>2, <1>3, <2>1, <2>2, <2>3, <2>4 DEF Meddles
  <1>5. pc'[Regenerator] = pc[Regenerator]
    BY <1>1, HandlersAre DEF Types
  <1>6. HandlersAt'
    BY <1>1, <1>2, <1>5 DEF ReplyInv, HandlersAt, Started
  <1>7. ~busy => At(Regenerator, "none")
    BY <1>1 DEF ReplyInv, Only
  <1> QED
    BY <1>1, <1>4, <1>6, <1>7, HandlersAre, HandlersGoOn

\* Only beside a regenerate that met somebody does its handler cancel.
LEMMA HandlerAt ==
    ASSUME ReplyInv, NEW h \in Handlers, pc[h] \in {"signalling"} \cup Recording
    PROVE  /\ ~busy => h = Canceller /\ At(Regenerator, "none") /\ used.cancels # 0
           /\ subject[h] \in Jobs /\ Started(subject[h]) /\ pc[h] \notin Clearing
           /\ h = Regenerator => \E j \in Jobs : ~Started(j)
  <1>1. h = Canceller \/ h = Regenerator
    BY HandlersAre
  <1>2. ASSUME ~busy PROVE h = Canceller /\ At(Regenerator, "none") /\ used.cancels # 0
    <2>1. h # Regenerator
      BY <1>2 DEF ReplyInv, Only, Alone, Clearing
    <2> QED
      BY <1>1, <1>2, <2>1, HandlersAre DEF ReplyInv, Only, HandlersAt
  <1> QED
    BY <1>1, <1>2 DEF ReplyInv, Types, Numbered, HandlersAt, Clearing

\* Where the steps of cancel_job and cancel_job_record take a handler.
LEMMA RecordMoves ==
    ASSUME ReplyInv, NEW h \in Handlers, pc[h] \in {"signalling"} \cup Recording, NEW place,
           Goto(h, place), UNCHANGED <<mode, audit, effects, subject, used, busy>>,
           place \in Recording \cup {AfterRecord(h)},
           regen' = regen \/ (h = Regenerator /\ TickOff(h, place)),
           \A j \in Jobs : Started(j)' <=> Started(j),
           status' = [status EXCEPT ![subject[h]] = status'[subject[h]]],
           status'[subject[h]] = status[subject[h]] \/
               (status'[subject[h]] = "cancelled" /\ place = "looking"),
           run' = [run EXCEPT ![subject[h]] = run'[subject[h]]],
           run'[subject[h]] = run[subject[h]] \/
               run'[subject[h]] = [run[subject[h]] EXCEPT !.token = "cancelled"],
           content' = content \/ content' = Placeholder,
           thinking' \in BOOLEAN, ~thinking => ~thinking',
           pc[h] \in Marks => place \in Marks \/ content' # Empty
    PROVE  ReplyInv'
  <1>1. Types
    BY DEF ReplyInv
  <1>2. /\ ~busy => h = Canceller /\ At(Regenerator, "none") /\ used.cancels # 0
        /\ subject[h] \in Jobs /\ Started(subject[h]) /\ pc[h] \notin Clearing
        /\ h = Regenerator => \E j \in Jobs : ~Started(j)
    BY HandlerAt
  <1>3. /\ pc' = [pc EXCEPT ![h] = pc'[h]] /\ pc'[h] = place
        /\ \A x \in Handlers : x # h => pc'[x] = pc[x]
    BY <1>1, HandlersAre DEF Types, Goto
  <1>4. regen' \in [snapshot : SUBSET Effects, todo : SUBSET Jobs] /\ regen'.todo \subseteq regen.todo
    <2>1. regen \in [snapshot : SUBSET Effects, todo : SUBSET Jobs]
      BY <1>1 DEF Types
    <2>2. regen' = regen \/ regen' = [regen EXCEPT !.todo = regen.todo \ {subject[h]}]
      BY DEF TickOff
    <2> QED
      BY <2>1, <2>2
  <1>5. \A x \in Handlers : subject[x] \in Jobs /\ Started(subject[x])
    BY <1>1 DEF Types, ReplyInv, Numbered
  <1>6. Meddles(h, subject[h])
    BY <1>1, <1>2, <1>3, <1>4, <1>5 DEF Meddles, Types
  <1>7. HandlersAt'
    <2>1. AfterRecord(h) = IF h = Regenerator THEN "cancelling" ELSE "none"
      BY DEF AfterRecord
    <2>2. h = Canceller => pc'[Canceller] \in {"none"} \cup Recording
      BY <1>3, <2>1, HandlersAre
    <2>3. h = Regenerator => pc'[Regenerator] \in {"cancelling"} \cup Recording
      BY <1>3, <2>1, HandlersAre
    <2>4. (\E j \in Jobs : ~Started(j)) => \E j \in Jobs : status'[j] = "none"
      BY DEF Started
    <2>5. used.cancels = 0 => h # Canceller
      BY DEF ReplyInv, HandlersAt
    <2> QED
      BY <1>2, <1>3, <2>2, <2>3, <2>4, <2>5, HandlersAre
      DEF ReplyInv, HandlersAt, Alone, Started
  <1> QED
    BY <1>2, <1>6, <1>7, HandlersGoOn

LEMMA HandlerRecords ==
    ASSUME ReplyInv, NEW h \in Handlers,
           \/ CancelSignal(h) \/ CancelRecheck(h) \/ CancelRecord(h)
           \/ CancelLook(h) \/ CancelMark(h) \/ CancelCalm(h)
    PROVE  ReplyInv'
  <1> DEFINE k == subject[h]
  <1>1. /\ Types /\ Job(h) = k /\ k \in Jobs /\ Started(k) /\ thinking \in BOOLEAN
        /\ run \in [Jobs -> Runs] /\ status \in [Jobs -> Statuses]
    BY HandlersAre DEF Job, ReplyInv, Types, Numbered
  <1>2. UNCHANGED status =>
           /\ status' = [status EXCEPT ![k] = status'[k]] /\ status'[k] = status[k]
           /\ \A j \in Jobs : Started(j)' <=> Started(j)
    BY <1>1 DEF Started
  <1>3. UNCHANGED run => run' = [run EXCEPT ![k] = run'[k]] /\ run'[k] = run[k]
    BY <1>1
  <1>4. ASSUME thinking' = thinking PROVE thinking' \in BOOLEAN /\ (~thinking => ~thinking')
    <2>1. thinking \in BOOLEAN
      BY <1>1
    <2>2. thinking' \in BOOLEAN
      BY <1>4, <2>1, Zenon
    <2>3. ~thinking => ~thinking'
      BY <1>4, Zenon
    <2> QED
      BY <2>2, <2>3
  <1> HIDE DEF k
  <1>5. CASE CancelSignal(h)
    <2>1. /\ pc[h] = "signalling" /\ Goto(h, "rechecking")
          /\ UNCHANGED <<mode, content, thinking, audit, effects, status, subject, regen, used, busy>>
          /\ run' = run \/ run' = [run EXCEPT ![k].token = "cancelled"]
      BY <1>5 DEF CancelSignal, row, state, control, requests, k
    <2>2. /\ run' = [run EXCEPT ![k] = run'[k]]
          /\ run'[k] = run[k] \/ run'[k] = [run[k] EXCEPT !.token = "cancelled"]
      BY <1>1, <2>1
    <2> QED
      BY <1>2, <1>4, <2>1, <2>2, RecordMoves DEF k
  <1>6. CASE CancelRecheck(h)
    <2>1. PICK place \in {"recording", AfterRecord(h)} :
             pc[h] = "rechecking" /\ Goto(h, place) /\ TickOff(h, place)
      BY <1>6 DEF CancelRecheck
    <2>2. UNCHANGED <<mode, content, thinking, audit, effects, status, run, subject, used, busy>>
      BY <1>6 DEF CancelRecheck, row, state
    <2>3. regen' = regen \/ (h = Regenerator /\ TickOff(h, place))
      BY <2>1 DEF TickOff
    <2> QED
      BY <1>2, <1>3, <1>4, <2>1, <2>2, <2>3, RecordMoves DEF k
  <1>7. CASE CancelRecord(h)
    <2>1. /\ pc[h] = "recording" /\ Goto(h, "looking")
          /\ UNCHANGED <<mode, content, thinking, audit, effects, run, subject, regen, used, busy>>
          /\ status' = [status EXCEPT ![k] = "cancelled"]
      BY <1>1, <1>7 DEF CancelRecord, Settle, row, control, requests
    <2>2. /\ status' = [status EXCEPT ![k] = status'[k]] /\ status'[k] = "cancelled"
          /\ \A j \in Jobs : Started(j)' <=> Started(j)
      BY <1>1, <2>1 DEF Started
    <2> QED
      BY <1>3, <1>4, <2>1, <2>2, RecordMoves DEF k
  <1>8. CASE CancelLook(h)
    <2>1. PICK place \in Marks \cup {"calming"} :
             /\ pc[h] = "looking" /\ Goto(h, place)
             /\ place \in Marks \/ content # Empty
      BY <1>8 DEF CancelLook
    <2>2. UNCHANGED <<mode, content, thinking, audit, effects, status, run, subject, regen, used, busy>>
      BY <1>8 DEF CancelLook, row, state, control, requests
    <2> QED
      BY <1>2, <1>3, <1>4, <2>1, <2>2, RecordMoves DEF k
  <1>9. CASE CancelMark(h)
    <2>1. /\ pc[h] = "marking" /\ Goto(h, "calming") /\ content' = Placeholder
          /\ UNCHANGED <<mode, thinking, audit, effects, status, run, subject, regen, used, busy>>
      BY <1>9 DEF CancelMark, state, control, requests
    <2>2. Placeholder # Empty
      BY DEF Placeholder, Empty
    <2> QED
      BY <1>2, <1>3, <1>4, <2>1, <2>2, RecordMoves DEF k
  <1>10. CASE CancelCalm(h)
    <2>1. /\ pc[h] = "calming" /\ Goto(h, AfterRecord(h)) /\ TickOff(h, AfterRecord(h))
          /\ UNCHANGED <<mode, content, audit, effects, status, run, subject, used, busy>>
          /\ thinking' = FALSE
      BY <1>10 DEF CancelCalm, state
    <2>2. thinking' \in BOOLEAN /\ (~thinking => ~thinking')
      BY <2>1, Zenon
    <2>3. regen' = regen \/ (h = Regenerator /\ TickOff(h, AfterRecord(h)))
      BY <2>1 DEF TickOff
    <2> QED
      BY <1>2, <1>3, <2>1, <2>2, <2>3, RecordMoves DEF k
  <1> QED
    BY <1>5, <1>6, <1>7, <1>8, <1>9, <1>10

-----------------------------------------------------------------------------
(* regenerate_message                                                       *)

\* Its steps change neither jobs nor tasks, so that what is said of them stays.
LEMMA RegeneratorMoves ==
    ASSUME ReplyInv, NEW place,
           pc' = [pc EXCEPT ![Regenerator] = place],
           place \in Alone \cup {"none", "signalling", "rechecking"},
           place # "none" => \E j \in Jobs : ~Started(j),
           UNCHANGED <<mode, status, run>>, used'.crashes = used.crashes,
           used'.cancels = used.cancels,
           used' \in [cancels : Nat, regenerates : Nat, crashes : Nat, failures : Nat],
           content' \in Contents, thinking' \in BOOLEAN, busy' \in BOOLEAN,
           audit' \in SUBSET Effects, effects' \in SUBSET Effects,
           subject' \in [Handlers -> Jobs], \A x \in Handlers : Started(subject'[x]),
           regen' \in [snapshot : SUBSET Effects, todo : SUBSET Jobs],
           \A j \in regen'.todo : Started(j)
    PROVE  /\ Types' /\ Numbered' /\ HandlersAt' /\ (\A j \in Jobs : Shape(j)') /\ Unbroken'
           /\ Latest' = Latest /\ Latest \in Jobs
           /\ pc'[Regenerator] = place /\ \A a \in Actors : a # Regenerator => pc'[a] = pc[a]
  <1>1. Types
    BY DEF ReplyInv
  <1>2. /\ pc'[Regenerator] = place /\ \A a \in Actors : a # Regenerator => pc'[a] = pc[a]
        /\ \A j \in Jobs : pc'[j] = pc[j]
    BY <1>1, HandlersAre DEF Types
  <1>3. Latest \in Jobs /\ Latest' = Latest
    BY LatestIs, LatestStays DEF ReplyInv, Started
  <1>4. Types'
    <2>1. place \in Places
      BY DEF Places, Alone, Clearing
    <2> QED
      BY <1>1, <2>1 DEF Types
  <1>5. Numbered'
    <2>1. \A x \in Handlers : subject'[x] \in Jobs
      OBVIOUS
    <2>2. \A j \in regen'.todo : j \in Jobs
      OBVIOUS
    <2> QED
      BY <2>1, <2>2 DEF ReplyInv, Numbered, Started
  <1>6. HandlersAt'
    BY <1>2, HandlersAre DEF ReplyInv, HandlersAt, Started
  <1>7. \A j \in Jobs : Shape(j)'
    BY <1>2 DEF ReplyInv, Shape
  <1>8. Unbroken'
    BY <1>2 DEF ReplyInv, Unbroken, Crashed
  <1> QED
    BY <1>2, <1>3, <1>4, <1>5, <1>6, <1>7, <1>8

\* Neither do they say anything new of an empty message that waits for somebody.
LEMMA StillAwaited ==
    ASSUME ReplyInv, UNCHANGED <<mode, status, run>>, used'.crashes = used.crashes,
           Latest' = Latest, Latest \in Jobs,
           \A a \in Actors : a # Regenerator => pc'[a] = pc[a],
           pc[Regenerator] \notin Marks,
           content' = Empty /\ pc'[Regenerator] \notin Clearing =>
               content = Empty /\ pc[Regenerator] \notin Clearing
    PROVE  Awaited'
  <1> SUFFICES ASSUME Streamed', ~Crashed', content' = Empty, pc'[Regenerator] \notin Clearing
               PROVE  /\ AwaitOf(status[Latest], pc'[Latest], run[Latest])
                      /\ status[Latest] = "cancelled" => \E a \in Actors : pc'[a] \in Marks
    BY DEF Awaited
  <1>1. Streamed /\ ~Crashed
    BY DEF Streamed, Crashed, Retried
  <1>2. /\ AwaitOf(status[Latest], pc[Latest], run[Latest])
        /\ status[Latest] = "cancelled" => \E a \in Actors : pc[a] \in Marks
    BY <1>1 DEF ReplyInv, Awaited
  <1>3. pc'[Latest] = pc[Latest]
    BY HandlersAre
  <1> QED
    BY <1>2, <1>3

LEMMA RegenRequestHolds ==
    ASSUME ReplyInv, RegenRequest
    PROVE  ReplyInv'
  <1>1. Types
    BY DEF ReplyInv
  <1>2. /\ pc[Regenerator] = "none" /\ pc' = [pc EXCEPT ![Regenerator] = "reverting"]
        /\ \E j \in Jobs : ~Started(j)
        /\ used' = [used EXCEPT !["regenerates"] = @ + 1]
        /\ regen' = [snapshot |-> audit, todo |-> {}]
        /\ busy' = (busy \/ ~Quiet \/ \E j \in Jobs : status[j] \in {"queued", "running"})
        /\ UNCHANGED <<mode, content, thinking, audit, effects, status, run, subject>>
    BY DEF RegenRequest, Goto, Started, Count, row, state
  <1>3. /\ used' \in [cancels : Nat, regenerates : Nat, crashes : Nat, failures : Nat]
        /\ used'.crashes = used.crashes /\ used'.cancels = used.cancels
    BY <1>1, <1>2 DEF Types
  <1>4. ~busy' => /\ ~busy /\ (\A a \in Actors : pc[a] = "none")
                  /\ \A j \in Jobs : status[j] \notin Active
    BY <1>2, Zenon DEF Quiet, Active, At
  <1>5. busy' \in BOOLEAN
    <2>1. (busy \/ ~Quiet \/ \E j \in Jobs : status[j] \in {"queued", "running"}) \in BOOLEAN
      OBVIOUS
    <2> QED
      BY <1>2, <2>1, Zenon
  <1>6. /\ Types' /\ Numbered' /\ HandlersAt' /\ (\A j \in Jobs : Shape(j)') /\ Unbroken'
        /\ Latest' = Latest /\ Latest \in Jobs
        /\ pc'[Regenerator] = "reverting" /\ \A a \in Actors : a # Regenerator => pc'[a] = pc[a]
    <2>1. /\ subject' \in [Handlers -> Jobs] /\ \A x \in Handlers : Started(subject'[x])
          /\ regen' \in [snapshot : SUBSET Effects, todo : SUBSET Jobs]
          /\ \A j \in regen'.todo : Started(j)
      BY <1>1, <1>2 DEF Types, ReplyInv, Numbered
    <2>2. /\ content' \in Contents /\ thinking' \in BOOLEAN
          /\ audit' \in SUBSET Effects /\ effects' \in SUBSET Effects
      BY <1>1, <1>2 DEF Types
    <2> QED
      BY <1>2, <1>3, <1>5, <2>1, <2>2, RegeneratorMoves DEF Alone
  <1>7. Only'
    BY <1>2, <1>4, <1>6, HandlersAre DEF Only, Alone
  <1>8. Audited'
    <2>1. ~busy' /\ ~Crashed /\ ~Retried => audit = effects
      <3> SUFFICES ASSUME ~busy', ~Crashed, ~Retried PROVE audit = effects
        OBVIOUS
      <3>1. AuditOf(audit, effects, status[Latest], pc[Latest], run[Latest])
        BY <1>2, <1>4 DEF ReplyInv, Audited
      <3>2. pc[Latest] = "none"
        BY <1>4, <1>6, HandlersAre
      <3> QED
        BY <3>1, <3>2 DEF AuditOf
    <2> QED
      BY <1>2, <1>3, <1>6, <2>1 DEF ReplyInv, Audited, AuditedByRegenerate, Crashed, Retried
  <1>9. Wholly' /\ Telling'
    BY <1>2, <1>4, <1>6 DEF ReplyInv, Wholly, Telling, Clearing
  <1>10. Awaited'
    BY <1>2, <1>3, <1>6, StillAwaited DEF Clearing
  <1> QED
    BY <1>6, <1>7, <1>8, <1>9, <1>10 DEF ReplyInv


\* A step of the handler after its first one and before its last.
Steps(place) ==
    /\ pc[Regenerator] \in Alone
    /\ pc' = [pc EXCEPT ![Regenerator] = place]
    /\ place \in Alone \cup {"none", "signalling", "rechecking"}
    /\ UNCHANGED <<mode, status, run, used, busy>>
    /\ content' \in Contents /\ audit' \in SUBSET Effects /\ effects' \in SUBSET Effects
    /\ thinking' \in BOOLEAN /\ (~thinking => ~thinking')
    /\ subject' \in [Handlers -> Jobs] /\ \A x \in Handlers : Started(subject'[x])
    /\ regen' \in [snapshot : SUBSET Effects, todo : SUBSET Jobs]
    /\ \A j \in regen'.todo : Started(j)
    /\ ~busy => place \in Alone /\ regen'.todo = {}
    /\ ~mode.typed /\ effects = {} => effects' = {}
    /\ ~busy /\ (mode.typed \/ effects = {}) /\ AuditedByRegenerate => AuditedByRegenerate'
    /\ place \in Clearing /\ (pc[Regenerator] \in Clearing => content = Empty) => content' = Empty
    /\ content' = Empty /\ place \notin Clearing => content = Empty /\ pc[Regenerator] \notin Clearing

LEMMA RegeneratorGoesOn ==
    ASSUME ReplyInv, NEW place, Steps(place)
    PROVE  ReplyInv'
  <1>1. /\ Types /\ pc[Regenerator] # "none" /\ pc[Regenerator] \notin Marks
        /\ \E j \in Jobs : ~Started(j)
    <2>1. pc[Regenerator] # "none" /\ pc[Regenerator] \notin Marks
      BY DEF Steps, Alone, Clearing
    <2> QED
      BY <2>1 DEF ReplyInv, HandlersAt
  <1>2. busy' \in BOOLEAN /\ used' \in [cancels : Nat, regenerates : Nat, crashes : Nat, failures : Nat]
    BY <1>1 DEF Types, Steps
  <1>3. /\ Types' /\ Numbered' /\ HandlersAt' /\ (\A j \in Jobs : Shape(j)') /\ Unbroken'
        /\ Latest' = Latest /\ Latest \in Jobs
        /\ pc'[Regenerator] = place /\ \A a \in Actors : a # Regenerator => pc'[a] = pc[a]
    BY <1>1, <1>2, RegeneratorMoves DEF Steps
  <1>4. ASSUME ~busy
        PROVE  place # "none"
    BY <1>4 DEF Steps, Alone, Clearing
  <1>5. Only'
    BY <1>1, <1>3 DEF ReplyInv, Only, Steps
  <1>6. Audited'
    <2>1. ~mode.typed => effects = {} /\ effects' = {}
      BY DEF ReplyInv, Audited, Steps
    <2>2. ASSUME ~Crashed, ~Retried, ~busy PROVE AuditedByRegenerate'
      <3>1. AuditedByRegenerate
        BY <1>1, <2>2 DEF ReplyInv, Audited
      <3> QED
        BY <2>1, <2>2, <3>1 DEF Steps
    <2>3. (Crashed' <=> Crashed) /\ (Retried' <=> Retried)
      BY DEF Crashed, Retried, Steps
    <2> QED
      BY <1>3, <1>4, <2>1, <2>2, <2>3 DEF Audited, Steps
  <1>7. Wholly'
    <2>1. ASSUME ~Crashed, used.cancels = 0, ~busy, mode.typed \/ mode.thoughts, place \in Clearing
          PROVE  content' = Empty
      BY <1>1, <2>1 DEF ReplyInv, Wholly, Steps
    <2> QED
      BY <1>3, <1>4, <2>1 DEF Wholly, Crashed, Steps
  <1>8. Telling'
    BY <1>3, <1>4 DEF ReplyInv, Telling, Steps
  <1>9. Awaited'
    BY <1>1, <1>3, StillAwaited DEF Steps
  <1> QED
    BY <1>3, <1>5, <1>6, <1>7, <1>8, <1>9 DEF ReplyInv

LEMMA RegeneratorStepsHold ==
    ASSUME ReplyInv, Revert \/ ListActive \/ CancelOne \/ AllCancelled \/ ClearRow
    PROVE  ReplyInv'
  <1>1. Types
    BY DEF ReplyInv
  <1>2. /\ subject \in [Handlers -> Jobs] /\ (\A x \in Handlers : Started(subject[x]))
        /\ regen \in [snapshot : SUBSET Effects, todo : SUBSET Jobs]
        /\ (\A j \in regen.todo : Started(j))
        /\ content \in Contents /\ audit \in SUBSET Effects /\ effects \in SUBSET Effects
    BY <1>1 DEF Types, ReplyInv, Numbered
  <1>3. ASSUME thinking' = thinking PROVE thinking' \in BOOLEAN /\ (~thinking => ~thinking')
    <2>1. thinking \in BOOLEAN
      BY <1>1 DEF Types
    <2>2. thinking' \in BOOLEAN
      BY <1>3, <2>1, Zenon
    <2>3. ~thinking => ~thinking'
      BY <1>3, Zenon
    <2> QED
      BY <2>2, <2>3
  <1>4. /\ NothingRead \in [snapshot : SUBSET Effects, todo : SUBSET Jobs]
        /\ NothingRead.todo = {}
    BY DEF NothingRead
  <1>5. ~busy /\ ~At(Regenerator, "none") => regen.todo = {} /\ \A j \in Jobs : status[j] \notin Active
    BY DEF ReplyInv, Only
  <1>6. Regenerator \in Actors /\ DOMAIN pc = Actors
    BY <1>1, HandlersAre DEF Types
  <1>7. CASE Revert
    <2>1. /\ pc[Regenerator] = "reverting" /\ pc' = [pc EXCEPT ![Regenerator] = "listing"]
          /\ effects' = IF mode.typed THEN effects \ regen.snapshot ELSE effects
          /\ regen' = NothingRead
          /\ UNCHANGED <<mode, content, thinking, audit, status, run, subject, used, busy>>
      BY <1>7 DEF Revert, RegenStep, Goto, row
    <2>2. (mode.typed \/ effects = {}) /\ AuditedByRegenerate => AuditedByRegenerate'
      BY <1>6, <2>1 DEF AuditedByRegenerate
    <2>3. Steps("listing")
      BY <1>2, <1>3, <1>4, <2>1, <2>2 DEF Steps, Alone, Clearing
    <2> QED
      BY <2>3, RegeneratorGoesOn
  <1>8. CASE ListActive
    <2>1. /\ pc[Regenerator] = "listing" /\ pc' = [pc EXCEPT ![Regenerator] = "cancelling"]
          /\ regen' = [regen EXCEPT !.todo = {j \in Jobs : status[j] \in Active}]
          /\ UNCHANGED <<mode, content, thinking, audit, effects, status, run, subject, used, busy>>
      BY <1>8 DEF ListActive, RegenStep, Goto, row, state
    <2>2. AuditedByRegenerate => AuditedByRegenerate'
      BY <1>6, <2>1 DEF AuditedByRegenerate
    <2>3. /\ regen' \in [snapshot : SUBSET Effects, todo : SUBSET Jobs]
          /\ (\A j \in regen'.todo : Started(j)) /\ (~busy => regen'.todo = {})
      BY <1>2, <1>5, <2>1 DEF Active, Started
    <2>4. Steps("cancelling")
      BY <1>2, <1>3, <2>1, <2>2, <2>3 DEF Steps, Alone, Clearing
    <2> QED
      BY <2>4, RegeneratorGoesOn
  <1>9. CASE CancelOne
    <2>1. PICK j \in regen.todo, place \in {"signalling", "rechecking", "none"} :
             /\ pc[Regenerator] = "cancelling" /\ pc' = [pc EXCEPT ![Regenerator] = place]
             /\ subject' = [subject EXCEPT ![Regenerator] = j]
             /\ regen' = regen \/ regen' = NothingRead
             /\ UNCHANGED <<mode, content, thinking, audit, effects, status, run, used, busy>>
      BY <1>9 DEF CancelOne, Goto, row, state
    <2>2. busy
      BY <1>5, <2>1
    <2>3. /\ j \in Jobs /\ Started(j)
          /\ subject' \in [Handlers -> Jobs] /\ (\A x \in Handlers : Started(subject'[x]))
      BY <1>2, <2>1
    <2>4. Steps(place)
      BY <1>2, <1>3, <1>4, <2>1, <2>2, <2>3 DEF Steps, Alone, Clearing
    <2> QED
      BY <2>4, RegeneratorGoesOn
  <1>10. CASE AllCancelled
    <2>1. /\ pc[Regenerator] = "cancelling" /\ pc' = [pc EXCEPT ![Regenerator] = "clearing"]
          /\ UNCHANGED <<mode, content, thinking, audit, effects, status, run, subject, regen, used, busy>>
      BY <1>10 DEF AllCancelled, RegenStep, Goto, row, state
    <2>2. AuditedByRegenerate => AuditedByRegenerate'
      BY <1>6, <2>1 DEF AuditedByRegenerate
    <2>3. Steps("clearing")
      BY <1>2, <1>3, <1>5, <2>1, <2>2 DEF Steps, Alone, Clearing
    <2> QED
      BY <2>3, RegeneratorGoesOn
  <1>11. CASE ClearRow
    <2>1. /\ \/ /\ pc[Regenerator] = "clearing" /\ pc' = [pc EXCEPT ![Regenerator] = "forgetting"]
                /\ content' = Empty /\ UNCHANGED <<thinking, audit>>
             \/ /\ pc[Regenerator] = "forgetting" /\ pc' = [pc EXCEPT ![Regenerator] = "untyping"]
                /\ thinking' = FALSE /\ UNCHANGED <<content, audit>>
             \/ /\ pc[Regenerator] = "untyping" /\ pc' = [pc EXCEPT ![Regenerator] = "enqueueing"]
                /\ audit' = {} /\ UNCHANGED <<content, thinking>>
          /\ UNCHANGED <<mode, effects, status, run, subject, regen, used, busy>>
      BY <1>11 DEF ClearRow, ClearedText, Goto, state, control, requests
    <2>2. AuditedByRegenerate => AuditedByRegenerate'
      BY <1>6, <2>1 DEF AuditedByRegenerate
    <2>3. thinking' \in BOOLEAN /\ (~thinking => ~thinking')
      <3>1. thinking' = FALSE => thinking' \in BOOLEAN /\ (~thinking => ~thinking')
        BY Zenon
      <3> QED
        BY <1>3, <2>1, <3>1
    <2>4. Empty \in Contents
      BY DEF Empty, Contents
    <2>5. PICK place \in Clearing : pc' = [pc EXCEPT ![Regenerator] = place]
      BY <2>1 DEF Clearing
    <2>6. Steps(place)
      BY <1>2, <1>5, <2>1, <2>2, <2>3, <2>4, <2>5 DEF Steps, Alone, Clearing
    <2> QED
      BY <2>6, RegeneratorGoesOn
  <1> QED
    BY <1>7, <1>8, <1>9, <1>10, <1>11

LEMMA EnqueueAgainHolds ==
    ASSUME ReplyInv, EnqueueAgain
    PROVE  ReplyInv'
  <1> DEFINE n == NextJob
  <1>1. /\ Types /\ pc[Regenerator] = "enqueueing" /\ pc' = [pc EXCEPT ![Regenerator] = "none"]
        /\ status' = [status EXCEPT ![n] = "queued"]
        /\ UNCHANGED <<mode, content, thinking, audit, effects, run, subject, regen, used, busy>>
    BY DEF ReplyInv, EnqueueAgain, RegenStep, Goto, row
  <1>2. n \in Jobs /\ ~Started(n) /\ \A i \in Jobs : i < n => Started(i)
    BY <1>1, NextJobIs DEF ReplyInv, HandlersAt, At
  <1> HIDE DEF n
  <1>3. \A i \in Jobs : i > n => ~Started(i)
    BY <1>2, HandlersAre DEF ReplyInv, Numbered
  <1>4. /\ status'[n] = "queued" /\ \A i \in Jobs : i # n => status'[i] = status[i]
        /\ pc'[Regenerator] = "none" /\ \A a \in Actors : a # Regenerator => pc'[a] = pc[a]
        /\ \A i \in Jobs : pc'[i] = pc[i]
    BY <1>1, <1>2, HandlersAre DEF Types
  <1>5. status'[n] # "none" /\ \A i \in Jobs : i > n => status'[i] = "none"
    BY <1>2, <1>3, <1>4, HandlersAre DEF Started
  <1>6. Latest' = n
    <2>1. Latest' = CHOOSE j \in Jobs : status'[j] # "none" /\ \A i \in Jobs : i > j => status'[i] = "none"
      BY DEF Latest
    <2>2. /\ Latest' \in Jobs /\ status'[Latest'] # "none"
          /\ \A i \in Jobs : i > Latest' => status'[i] = "none"
      BY <1>2, <1>5, <2>1
    <2>3. n \in Nat /\ Latest' \in Nat
      BY <1>2, <2>2, HandlersAre
    <2> QED
      BY <1>2, <1>5, <2>2, <2>3
  <1>7. pc[n] = "none" /\ run[n] \in Runs /\ (~mode.thoughts => run[n].text # "thought")
    BY <1>1, <1>2 DEF ReplyInv, Shape, ShapeOf, Started, Types
  <1>8. Types'
    BY <1>1, <1>2 DEF Types, Statuses, Places, TaskPlaces
  <1>9. Numbered'
    <2>1. \A i, j \in Jobs : i < j /\ status'[j] # "none" => status'[i] # "none"
      <3> SUFFICES ASSUME NEW i \in Jobs, NEW j \in Jobs, i < j, status'[j] # "none"
                   PROVE  status'[i] # "none"
        OBVIOUS
      <3>1. CASE i = n
        BY <1>5, <3>1
      <3>2. CASE j = n /\ i # n
        BY <1>2, <1>4, <3>2 DEF Started
      <3>3. CASE j # n /\ i # n
        BY <1>4, <3>3 DEF ReplyInv, Numbered, Started
      <3> QED
        BY <3>1, <3>2, <3>3
    <2>2. /\ \A h \in Handlers : subject[h] \in Jobs /\ status'[subject[h]] # "none"
          /\ \A j \in regen.todo : status'[j] # "none"
      BY <1>1, <1>4 DEF ReplyInv, Numbered, Started, Types
    <2> QED
      BY <1>1, <1>2, <1>5, <2>1, <2>2 DEF Numbered, Started
  <1>10. HandlersAt'
    BY <1>1, <1>4, HandlersAre DEF ReplyInv, HandlersAt
  <1>11. \A i \in Jobs : Shape(i)'
    <2> SUFFICES ASSUME NEW i \in Jobs PROVE ShapeOf(mode, status'[i], pc'[i], run'[i])
      BY <1>1 DEF Shape
    <2>1. ShapeOf(mode, status[i], pc[i], run[i])
      BY DEF ReplyInv, Shape
    <2>2. CASE i = n
      BY <1>1, <1>2, <1>4, <1>7, <2>1, <2>2 DEF ShapeOf, Started
    <2>3. CASE i # n
      BY <1>1, <1>4, <2>1, <2>3
    <2> QED
      BY <2>2, <2>3
  <1>12. Unbroken'
    BY <1>1, <1>2, <1>4 DEF ReplyInv, Unbroken, Crashed, Started
  <1>13. Only'
    BY <1>1, <1>4, <1>6, HandlersAre DEF ReplyInv, Only
  <1>14. Audited'
    <2>1. ~mode'.typed => effects' = {}
      BY <1>1 DEF ReplyInv, Audited
    <2>2. ASSUME ~Crashed', ~Retried', ~busy'
          PROVE  AuditOf(audit', effects', status'[n], pc'[n], run'[n])
      <3>1. ~Crashed /\ ~Retried /\ ~busy
        BY <1>1, <2>2 DEF Crashed, Retried
      <3>2. audit = {} /\ effects = {}
        BY <1>1, <3>1 DEF ReplyInv, Audited, AuditedByRegenerate
      <3> QED
        BY <1>1, <1>2, <1>4, <1>7, <3>2 DEF AuditOf, Early, Unsaved, AfterPlan
    <2> QED
      BY <1>4, <1>6, <2>1, <2>2 DEF Audited
  <1>15. Wholly'
    <2>1. ASSUME ~Crashed', used'.cancels = 0, ~busy', mode'.typed \/ mode'.thoughts
          PROVE  content' = Empty
      BY <1>1, <2>1 DEF ReplyInv, Wholly, Crashed, Clearing
    <2> QED
      BY <1>2, <1>4, <1>6, <1>7, <2>1 DEF Wholly, WholeOf, Tries, TypedPlaces, PlainPlaces
  <1>16. Telling'
    BY <1>1, <1>2, <1>4, <1>6, <1>7 DEF ReplyInv, Telling, TellOf, Done
  <1>17. Awaited'
    BY <1>2, <1>4, <1>6, <1>7 DEF Awaited, AwaitOf, Active, Done
  <1> QED
    BY <1>8, <1>9, <1>10, <1>11, <1>12, <1>13, <1>14, <1>15, <1>16, <1>17 DEF ReplyInv

-----------------------------------------------------------------------------
(* Crashes, and the theorems                                                *)

LEMMA CrashHolds ==
    ASSUME ReplyInv, Crash
    PROVE  ReplyInv'
  <1>1. /\ Types
        /\ used' = [used EXCEPT !["crashes"] = @ + 1]
        /\ status' = [j \in Jobs |-> IF status[j] = "running" THEN "queued" ELSE status[j]]
        /\ pc' = [a \in Actors |-> "none"]
        /\ busy' = (busy \/ pc[Regenerator] # "none")
        /\ UNCHANGED <<mode, content, thinking, audit, effects, run, subject, regen>>
    BY DEF ReplyInv, Crash, Count, row
  <1>2. /\ used' \in [cancels : Nat, regenerates : Nat, crashes : Nat, failures : Nat]
        /\ used'.crashes > 0
    BY <1>1 DEF Types
  <1>3. ~busy' => ~busy /\ pc[Regenerator] = "none"
    BY <1>1, Zenon
  <1>4. busy' \in BOOLEAN
    <2>1. (busy \/ pc[Regenerator] # "none") \in BOOLEAN
      OBVIOUS
    <2> QED
      BY <1>1, <2>1, Zenon
  <1>5. \A a \in Actors : pc'[a] = "none"
    BY <1>1
  <1>6. \A j \in Jobs :
           /\ pc'[j] = "none"
           /\ \/ status'[j] = status[j] /\ status[j] # "running"
              \/ status'[j] = "queued" /\ status[j] = "running"
    BY <1>1, <1>5, HandlersAre
  <1>7. \A j \in Jobs : Started(j)' <=> Started(j)
    BY <1>6 DEF Started
  <1>8. Latest \in Jobs /\ Latest' = Latest
    BY <1>7, LatestIs, LatestStays DEF ReplyInv
  <1>9. Types'
    <2>1. pc' \in [Actors -> Places]
      BY <1>1 DEF Places, TaskPlaces
    <2>2. status' \in [Jobs -> Statuses]
      BY <1>1 DEF Types, Statuses
    <2>3. /\ mode' \in ModeTypes /\ content' \in Contents /\ run' \in [Jobs -> Runs]
          /\ audit' \in SUBSET Effects /\ effects' \in SUBSET Effects
          /\ subject' \in [Handlers -> Jobs]
          /\ regen' \in [snapshot : SUBSET Effects, todo : SUBSET Jobs]
      BY <1>1 DEF Types
    <2>4. thinking' \in BOOLEAN
      BY <1>1 DEF Types
    <2> QED
      BY <1>2, <1>4, <2>1, <2>2, <2>3, <2>4 DEF Types
  <1>10. Numbered'
    <2>1. (\A h \in Handlers : subject[h] \in Jobs) /\ \A j \in regen.todo : j \in Jobs
      BY <1>1 DEF Types
    <2> QED
      BY <1>1, <1>7, <2>1, LatestStays DEF ReplyInv, Numbered
  <1>11. HandlersAt'
    BY <1>5, HandlersAre DEF HandlersAt
  <1>12. \A j \in Jobs : Shape(j)'
    <2> SUFFICES ASSUME NEW j \in Jobs PROVE ShapeOf(mode, status'[j], "none", run[j])
      BY <1>1, <1>6 DEF Shape
    <2>1. ~mode.thoughts => run[j].text # "thought"
      BY DEF ReplyInv, Shape, ShapeOf
    <2> QED
      BY <2>1 DEF ShapeOf, TaskPlaces, Tries, TypedPlaces, PlainPlaces, Marks
  <1>13. Unbroken' /\ Wholly' /\ Awaited'
    BY <1>2 DEF Unbroken, Wholly, Awaited, Crashed
  <1>14. Only'
    BY <1>3, <1>5, <1>6, <1>8, HandlersAre DEF ReplyInv, Only, Active
  <1>15. Audited'
    BY <1>1, <1>2 DEF ReplyInv, Audited, Crashed
  <1>16. Telling'
    <2>1. ~mode.thoughts => ~thinking'
      BY <1>1 DEF ReplyInv, Telling
    <2>2. ASSUME ~mode.thoughts, ~busy'
          PROVE  TellOf(mode, content, status'[Latest], pc'[Latest], run[Latest])
      <3>1. TellOf(mode, content, status[Latest], pc[Latest], run[Latest])
        BY <1>3, <2>2 DEF ReplyInv, Telling
      <3> QED
        BY <1>6, <1>8, <3>1 DEF TellOf, Done
    <2> QED
      BY <1>1, <1>8, <2>1, <2>2 DEF Telling
  <1> QED
    BY <1>9, <1>10, <1>11, <1>12, <1>13, <1>14, <1>15, <1>16 DEF ReplyInv

LEMMA InitHolds == Init => ReplyInv
  <1> SUFFICES ASSUME Init PROVE ReplyInv
    OBVIOUS
  <1>1. /\ mode \in ModeTypes /\ content = Empty /\ ~thinking /\ audit = {} /\ effects = {} /\ ~busy
        /\ used = [cancels |-> 0, regenerates |-> 0, crashes |-> 0, failures |-> 0]
        /\ regen = NothingRead
    BY ModesAssumption DEF Init
  <1>2. /\ \A a \in Actors : pc[a] = "none"
        /\ status[1] = "queued" /\ \A j \in Jobs : j # 1 => status[j] = "none"
        /\ \A j \in Jobs : status[j] \in {"none", "queued"} /\ run[j] = Fresh
        /\ \A h \in Handlers : subject[h] = 1
    BY HandlersAre DEF Init
  <1>3. /\ Fresh \in Runs /\ Fresh.attempt = 0 /\ Fresh.text = "none"
        /\ Empty \in Contents
    BY DEF Fresh, Runs, Contents, Empty, MergeGoals
  <1>4. Types
    <2>1. pc \in [Actors -> Places] /\ status \in [Jobs -> Statuses] /\ run \in [Jobs -> Runs]
      BY <1>3 DEF Init, Places, TaskPlaces, Statuses
    <2>2. subject \in [Handlers -> Jobs] /\ regen \in [snapshot : SUBSET Effects, todo : SUBSET Jobs]
      BY HandlersAre DEF Init, NothingRead
    <2>3. thinking \in BOOLEAN /\ busy \in BOOLEAN
      BY DEF Init
    <2>4. /\ used \in [cancels : Nat, regenerates : Nat, crashes : Nat, failures : Nat]
          /\ content \in Contents /\ audit \in SUBSET Effects /\ effects \in SUBSET Effects
      BY <1>1, <1>3
    <2> QED
      BY <1>1, <2>1, <2>2, <2>3, <2>4 DEF Types
  <1>5. Numbered
    BY <1>1, <1>2, JobsAssumption, HandlersAre DEF Numbered, Started, NothingRead
  <1>6. Latest = 1
    BY <1>2, <1>5, LatestIsOne, HandlersAre DEF Started
  <1>7. HandlersAt /\ Unbroken /\ Only
    BY <1>2, <1>3, <1>6, HandlersAre DEF HandlersAt, Unbroken, Only, Active
  <1>8. \A j \in Jobs : Shape(j)
    BY <1>2, <1>3, HandlersAre DEF Shape, ShapeOf, TaskPlaces, Tries, TypedPlaces, PlainPlaces, Marks
  <1>9. pc[1] = "none" /\ run[1] = Fresh
    BY <1>2, HandlersAre
  <1>10. Audited
    BY <1>1, <1>2, <1>6, <1>9, HandlersAre DEF Audited, AuditOf, Early, Unsaved, AfterPlan
  <1>11. Wholly
    BY <1>1, <1>2, <1>6, <1>9, HandlersAre DEF Wholly, WholeOf, Tries, TypedPlaces, PlainPlaces
  <1>12. Telling
    BY <1>1, <1>2, <1>6, <1>9, HandlersAre DEF Telling, TellOf, Done
  <1>13. Awaited
    BY <1>2, <1>6, <1>9 DEF Awaited, AwaitOf, Active, Done
  <1> QED
    BY <1>4, <1>5, <1>7, <1>8, <1>10, <1>11, <1>12, <1>13 DEF ReplyInv

LEMMA NextHolds ==
    ASSUME ReplyInv, Next
    PROVE  ReplyInv'
  <1>1. ASSUME NEW a \in Actors,
               CancelRecheck(a) \/ CancelRecord(a) \/ CancelLook(a) \/ CancelMark(a) \/ CancelCalm(a)
        PROVE  ReplyInv'
    BY <1>1, TaskRecords, HandlerRecords, HandlersAre
  <1>2. CASE CancelNext
    BY <1>1, <1>2, CancelRequestHolds, HandlerRecords DEF CancelNext
  <1>3. CASE JobNext
    BY <1>3, StartHolds, LoadHolds, BeginHolds, ClearContentHolds, ClearThoughtsHolds, BackoffHolds,
       GiveUpHolds, ApologizeHolds, SettleThoughtHolds, CompleteHolds DEF JobNext
  <1>4. ASSUME NEW j \in Jobs, TypedAttempt(j)
        PROVE  ReplyInv'
    BY <1>4, PlanHolds, SavesHold, CheckHolds, FinalizeHolds DEF TypedAttempt
  <1>5. ASSUME NEW j \in Jobs, ProsePass(j)
        PROVE  ReplyInv'
    BY <1>5, PieceHolds, NoticeCancelHolds, BreakHolds, EndTypedHolds, TurnHolds, CallToolHolds,
       SavesHold, WriteProseHolds DEF ProsePass
  <1>6. ASSUME NEW j \in Jobs, LegacyAttempt(j)
        PROVE  ReplyInv'
    BY <1>6, OpenHolds, PieceHolds, NoticeCancelHolds, BreakHolds, KeepHolds, EndLegacyHolds,
       CheckHolds, FinalizeHolds DEF LegacyAttempt
  <1>7. CASE GenerationNext
    BY <1>4, <1>5, <1>6, <1>7, MergeHolds DEF GenerationNext
  <1>8. CASE RegenNext
    BY <1>8, RegenRequestHolds, RegeneratorStepsHold, EnqueueAgainHolds DEF RegenNext
  <1> QED
    BY <1>2, <1>3, <1>7, <1>8, CrashHolds DEF Next

LEMMA StutterHolds ==
    ASSUME ReplyInv, UNCHANGED vars
    PROVE  ReplyInv'
  <1>1. UNCHANGED <<mode, content, thinking, audit, effects, status, pc, run, subject, regen, used, busy>>
    BY DEF vars, row, state, control, requests
  <1>2. Types' /\ Numbered' /\ HandlersAt' /\ (\A j \in Jobs : Shape(j))' /\ Unbroken'
    BY <1>1 DEF ReplyInv, Types, Numbered, Started, HandlersAt, Shape, Unbroken, Crashed
  <1>3. Latest' = Latest /\ (Crashed' <=> Crashed) /\ (Retried' <=> Retried) /\ (Streamed' <=> Streamed)
    BY <1>1 DEF Latest, Crashed, Retried, Streamed
  <1>4. Only' /\ Audited'
    BY <1>1, <1>3 DEF ReplyInv, Only, Audited, AuditedByRegenerate
  <1>5. Wholly' /\ Telling' /\ Awaited'
    BY <1>1, <1>3 DEF ReplyInv, Wholly, Telling, Awaited
  <1> QED
    BY <1>2, <1>4, <1>5 DEF ReplyInv

\* Whatever tasks, cancels, regenerates, failures of the model and crashes come together on
\* the row of a message, they find and leave it as the places of its writers say.
THEOREM RowFollowsItsWriters == Spec => []ReplyInv
  <1>1. ReplyInv /\ [Next]_vars => ReplyInv'
    BY NextHolds, StutterHolds
  <1> QED
    BY InitHolds, <1>1, PTL DEF Spec

\* A streamed message whose generation has ended shows something, whoever wrote last; so
\* does any message without thought blocks that completed or failed without a regenerate
\* at work (cancel_job_record, fail_chat_message_generation, regenerate_message).
THEOREM SettledMessagesTell == Spec => []SettledReplyHasText
  <1>1. ReplyInv => SettledReplyHasText
    <2> SUFFICES ASSUME ReplyInv, AtRest,
                        \/ Streamed /\ ~Crashed
                        \/ ~mode.thoughts /\ ~busy /\ status[Latest] # "cancelled"
                 PROVE  content # Empty
      BY DEF SettledReplyHasText
    <2>1. /\ \A a \in Actors : pc[a] = "none"
          /\ status[Latest] \notin Active
      BY DEF AtRest, Quiet, At
    <2>2. Latest \in Jobs /\ status[Latest] # "none"
      BY LatestIs DEF ReplyInv, Started
    <2>3. ASSUME Streamed, ~Crashed, content = Empty PROVE FALSE
      BY <2>1, <2>3, HandlersAre DEF ReplyInv, Awaited, AwaitOf, Clearing, Marks
    <2>4. ASSUME ~mode.thoughts, ~busy, status[Latest] # "cancelled" PROVE content # Empty
      <3>1. status[Latest] \in {"completed", "failed"}
        BY <2>1, <2>2, <2>4 DEF ReplyInv, Types, Statuses, Active
      <3>2. TellOf(mode, content, status[Latest], pc[Latest], run[Latest])
        BY <2>1, <2>4, HandlersAre DEF ReplyInv, Telling
      <3> QED
        BY <3>1, <3>2 DEF TellOf
    <2> QED
      BY <2>3, <2>4
  <1> QED
    BY <1>1, RowFollowsItsWriters, PTL

\* Undisturbed by crashes, retries and regenerates of a message at work, the audit of a
\* message names exactly the changes in the chat's state once nobody works on it, however
\* its generation ended and whenever it was cancelled (save_message_plan,
\* update_message_state_changes, revert_message_state_changes).
THEOREM AuditsTellTheChanges == Spec => []AuditMatchesEffects
  <1>1. ReplyInv => AuditMatchesEffects
    <2> SUFFICES ASSUME ReplyInv, Quiet, ~Crashed, ~Retried, ~busy PROVE audit = effects
      BY DEF AuditMatchesEffects
    <2>1. \A a \in Actors : pc[a] = "none"
      BY DEF Quiet, At
    <2>2. Latest \in Jobs
      BY LatestIs DEF ReplyInv
    <2>3. pc[Latest] = "none" /\ pc[Regenerator] = "none"
      BY <2>1, <2>2, HandlersAre
    <2> QED
      BY <2>3 DEF ReplyInv, Audited, AuditOf, Unsaved
  <1> QED
    BY <1>1, RowFollowsItsWriters, PTL

\* A job reported as completed, with thought blocks or typed state, has left all of its own
\* reply in the message, after however many attempts, unless it was cancelled or disturbed
\* by a crash or by a regenerate of a message at work (update_message_generation, complete_job).
THEOREM CompletedMessagesAreWhole == Spec => []CompletedReplyIsWhole
  <1>1. ReplyInv => CompletedReplyIsWhole
    <2> SUFFICES ASSUME ReplyInv, AtRest, ~Crashed, used.cancels = 0, ~busy,
                        status[Latest] = "completed", mode.typed \/ mode.thoughts
                 PROVE  /\ content = Reply(Latest) /\ run[Latest].text \in {"whole", "thought"}
                        /\ ~thinking
      BY DEF CompletedReplyIsWhole
    <2>1. pc[Regenerator] = "none"
      BY HandlersAre DEF AtRest, Quiet, At
    <2>2. Latest \in Jobs
      BY LatestIs DEF ReplyInv
    <2>3. WholeOf(Latest, content, thinking, status[Latest], pc[Latest], run[Latest])
      BY <2>1 DEF ReplyInv, Wholly
    <2> QED
      BY <2>2, <2>3, ReplyIs DEF WholeOf
  <1> QED
    BY <1>1, RowFollowsItsWriters, PTL


-----------------------------------------------------------------------------
(* The stream of a chat page follows its tab: proof that LiveSync keeps      *)
(* StreamFollowsTab whatever the server, the network and the user do. The    *)
(* property is not inductive: it does not say why a stream that is over has  *)
(* an event to be read (its last event closes it, and events are read in     *)
(* order), nor that the page has read all there was of a stream it closed.   *)

Times == Nat \cup {None}
Rows == [job : Times, touched : Times]
Listings == [texts : Seq(Texts), live : BOOLEAN]
Messages == [kind : {"message"}, chat : Rows, messages : Listings, now : BOOLEAN]
Events == Messages \cup {Idle, Error}
StreamSteps == {"closed", "chat", "messages", "job", "over"}
Reads == Seq(Rows \cup Listings)
Sent == Seq(Messages)
Streams == [step : StreamSteps, read : Reads, last : Sent]

ServerOK ==
    /\ replies \in Seq(Texts) /\ Len(replies) \in 1..MaxReplies
    /\ job \in 0..Len(replies)
    /\ touched \in Nat

\* What the handler has read when it is at a step.
ReadsOK ==
    /\ stream.step = "messages" => \E r \in Rows : stream.read = <<r>>
    /\ stream.step = "job" => \E r \in Rows, l \in Listings : stream.read = <<r, l>>

LinkOK ==
    /\ stream \in Streams
    /\ ReadsOK
    /\ inbox \in Seq(Events)
    /\ hidden \in BOOLEAN /\ timer \in BOOLEAN /\ probes \in Nat

ViewOK ==
    /\ handles \in {"render", "latest"}
    /\ page \in Listings /\ sidebar \in Rows /\ synced \in Times /\ had \in BOOLEAN
    /\ made \in [page : Listings, synced : Times]
    /\ fetch \in [at : Times, answer : Seq(Listings)]
    /\ poll \in Rows

PageTypeOK ==
    /\ ServerOK /\ LinkOK /\ ViewOK
    /\ left \in [changes : Nat, faults : Nat, visits : Nat]

\* The stream is where its tab and its events say. A stream that is over leaves an event
\* that closes it, behind everything it sent before; a closed one leaves none, and in a tab
\* in view something is under way that opens it again.
StreamInPlace ==
    /\ hidden => stream = Closed /\ ~timer
    /\ stream.step = "over" => inbox # <<>> /\ inbox[Len(inbox)] \in {Idle, Error}
    /\ stream.step = "closed" => inbox = <<>>
    /\ ~hidden /\ stream.step = "closed" => timer \/ probes > 0

LiveInv == PageTypeOK /\ StreamInPlace

-----------------------------------------------------------------------------
(* What the parts of a step do to the parts of the invariant. *)

LEMMA ServerReads ==
    ASSUME ServerOK
    PROVE  Row \in Rows /\ Listing \in Listings
  BY DEF ServerOK, Row, Listing, Rows, Listings, Times

LEMMA SpendType ==
    ASSUME left \in [changes : Nat, faults : Nat, visits : Nat],
           NEW event \in {"changes", "faults", "visits"}, Spend(event)
    PROVE  left' \in [changes : Nat, faults : Nat, visits : Nat]
  <1>1. left[event] \in Nat /\ left[event] > 0
    BY DEF Spend
  <1>2. left[event] - 1 \in Nat
    BY <1>1
  <1> QED
    BY <1>2 DEF Spend

LEMMA AskedType ==
    ASSUME NEW at \in Times
    PROVE  Asked(at) \in [at : Times, answer : Seq(Listings)]
  <1>1. NoFetch \in [at : Times, answer : Seq(Listings)]
    BY DEF NoFetch, Times, None
  <1> QED
    BY <1>1 DEF Asked

LEMMA ReadTypes ==
    /\ <<>> \in Reads /\ <<>> \in Sent
    /\ \A r \in Rows, l \in Listings : <<r>> \in Reads /\ <<r, l>> \in Reads
    /\ \A e \in Messages : <<e>> \in Sent
  <1> DEFINE S == Rows \cup Listings
  <1>1. \A a, b \in S : <<a>> \in Seq(S) /\ <<a, b>> \in Seq(S)
    OBVIOUS
  <1>2. Rows \subseteq S /\ Listings \subseteq S
    OBVIOUS
  <1>3. <<>> \in Seq(S)
    OBVIOUS
  <1>4. Reads = Seq(S)
    BY DEF Reads
  <1> HIDE DEF S
  <1>5. /\ <<>> \in Reads
        /\ \A r \in Rows, l \in Listings : <<r>> \in Reads /\ <<r, l>> \in Reads
    BY <1>1, <1>2, <1>3, <1>4
  <1>6. <<>> \in Sent /\ \A e \in Messages : <<e>> \in Sent
    BY DEF Sent
  <1> QED
    BY <1>5, <1>6

LEMMA SecondRead ==
    ASSUME NEW r \in Rows, NEW l \in Listings
    PROVE  Append(<<r>>, l) = <<r, l>>
  <1> DEFINE S == Rows \cup Listings
  <1>1. r \in S /\ l \in S
    OBVIOUS
  <1>2. <<r>> \in Seq(S)
    BY <1>1
  <1> HIDE DEF S
  <1>3. /\ Append(<<r>>, l) \in Seq(S) /\ Len(Append(<<r>>, l)) = 2
        /\ Append(<<r>>, l)[1] = r /\ Append(<<r>>, l)[2] = l
    BY <1>1, <1>2, AppendProperties
  <1>4. <<r, l>> \in Seq(S) /\ Len(<<r, l>>) = 2 /\ <<r, l>>[1] = r /\ <<r, l>>[2] = l
    BY <1>1
  <1> DEFINE s == Append(<<r>>, l)
             t == <<r, l>>
  <1> HIDE DEF s, t
  <1>5. /\ s \in Seq(S) /\ t \in Seq(S) /\ Len(s) = Len(t)
        /\ \A i \in 1..Len(s) : s[i] = t[i]
    BY <1>3, <1>4 DEF s, t
  <1>6. s = t
    BY <1>5, SeqEqual
  <1> QED
    BY <1>6 DEF s, t

LEMMA OpenType ==
    /\ Closed \in Streams
    /\ Opened \in Streams
    /\ Closed.step = "closed" /\ Opened.step = "chat"
  BY ReadTypes DEF Closed, Opened, StreamSteps, Streams

\* Leaving a stream and opening one: nothing of the old one is to be read.
LEMMA CloseSource ==
    ASSUME close_source
    PROVE  /\ stream' \in Streams
           /\ ReadsOK' /\ inbox' \in Seq(Events) /\ inbox' = <<>> /\ stream'.step = "closed"
           /\ stream' = Closed
  BY OpenType DEF close_source, ReadsOK, Closed

LEMMA OpenSource ==
    ASSUME open_source
    PROVE  /\ stream' \in Streams
           /\ ReadsOK' /\ inbox' \in Seq(Events) /\ inbox' = <<>> /\ stream'.step = "chat"
  BY OpenType DEF open_source, ReadsOK, Closed, Opened

\* The render after a callback fetches at a time the sidebar knows, if it fetches.
LEMMA Rerender ==
    ASSUME NEW asked \in [at : Times, answer : Seq(Listings)],
           sidebar' \in Rows, rerendered(asked)
    PROVE  fetch' \in [at : Times, answer : Seq(Listings)]
  <1>1. sidebar'.touched \in Times
    BY DEF Rows
  <1> QED
    BY <1>1, AskedType DEF rerendered

-----------------------------------------------------------------------------
(* One lemma for each actor. *)

LEMMA InitLive == ASSUME SyncInit PROVE LiveInv
  <1>1. ServerOK
    <2>1. PICK text \in Texts : /\ replies = <<text>>
                                /\ job = IF text = Blank THEN 1 ELSE 0
      BY DEF SyncInit
    <2> QED
      BY <2>1, SyncBoundsAssumption DEF SyncInit, ServerOK
  <1>2. LinkOK /\ StreamInPlace
    <2>1. stream = Opened /\ inbox = <<>> /\ hidden = FALSE /\ timer = FALSE /\ probes = 0
      BY DEF SyncInit
    <2>2. LinkOK
      <3>1. inbox \in Seq(Events)
        BY <2>1
      <3>2. stream \in Streams /\ ReadsOK
        BY <2>1, OpenType DEF ReadsOK
      <3> QED
        BY <2>1, <3>1, <3>2 DEF LinkOK
    <2> QED
      BY <2>1, <2>2, OpenType DEF StreamInPlace
  <1>3. NoMessages \in Listings /\ NoRow \in Rows /\ None \in Times
    BY DEF NoMessages, Listings, NoRow, Rows, None, Times
  <1>4. ViewOK
    BY <1>3, AskedType DEF SyncInit, ViewOK
  <1> QED
    BY <1>1, <1>2, <1>4, SyncBoundsAssumption DEF SyncInit, LiveInv, PageTypeOK

LEMMA ServerLive == ASSUME LiveInv, Server PROVE LiveInv'
  <1> USE DEF ServerOK
  <1>1. ServerOK /\ UNCHANGED Rest /\ Spend("changes")
    BY DEF LiveInv, PageTypeOK, Server, SendMessage, RegenerateMessage, RewindMessage, EndJob,
           WriteReply, Change
  <1>2. ASSUME SendMessage PROVE ServerOK'
    BY <1>1, <1>2, TextsAssumption, SyncBoundsAssumption DEF SendMessage
  <1>3. ASSUME RegenerateMessage PROVE ServerOK'
    BY <1>1, <1>3, TextsAssumption DEF RegenerateMessage
  <1>4. ASSUME RewindMessage PROVE ServerOK'
    <2>1. Len(replies) - 1 \in 1..Len(replies)
      BY <1>1, <1>4 DEF RewindMessage
    <2>2. replies' \in Seq(Texts) /\ Len(replies') = Len(replies) - 1
      BY <1>1, <1>4, <2>1 DEF RewindMessage
    <2>3. job' \in 0..Len(replies')
      <3>1. job \in 0..Len(replies) /\ job' = IF job = Len(replies) THEN 0 ELSE job
        BY <1>1, <1>4 DEF RewindMessage
      <3> QED
        BY <2>1, <2>2, <3>1
    <2>4. touched' \in Nat
      BY <1>1, <1>4 DEF RewindMessage
    <2>5. Len(replies') \in 1..MaxReplies
      BY <1>1, <1>4, <2>2, SyncBoundsAssumption DEF RewindMessage
    <2> QED
      BY <2>2, <2>3, <2>4, <2>5
  <1>5. ASSUME NEW touch \in BOOLEAN, WriteReply(touch) PROVE ServerOK'
    BY <1>1, <1>5 DEF WriteReply
  <1>6. ASSUME EndJob PROVE ServerOK'
    BY <1>1, <1>6 DEF EndJob
  <1>7. ServerOK'
    BY <1>2, <1>3, <1>4, <1>5, <1>6 DEF Server
  <1>8. left' \in [changes : Nat, faults : Nat, visits : Nat]
    BY <1>1, SpendType DEF LiveInv, PageTypeOK
  <1>9. LinkOK' /\ ViewOK' /\ StreamInPlace'
    BY <1>1 DEF LiveInv, PageTypeOK, LinkOK, ReadsOK, ViewOK, StreamInPlace, Rest, link, view
  <1> QED
    BY <1>7, <1>8, <1>9 DEF LiveInv, PageTypeOK

LEMMA StreamLive == ASSUME LiveInv, StreamHandler \/ StreamBreaks PROVE LiveInv'
  <1> USE DEF LiveInv, PageTypeOK
  <1>1. ServerOK' /\ ViewOK' /\ UNCHANGED <<hidden, timer, probes>>
    BY DEF StreamHandler, StreamBreaks, ReadChat, ReadMessages, SendEvents, Streaming, server,
           view, ServerOK, ViewOK
  <1>2. Row \in Rows /\ Listing \in Listings
    BY ServerReads
  <1>3. ~hidden
    BY DEF StreamInPlace, StreamHandler, StreamBreaks, ReadChat, ReadMessages, SendEvents, Closed
  <1>4. stream \in Streams
    BY DEF LinkOK
  <1>5. CASE ReadChat
    <2>1. stream' = [stream EXCEPT !.step = "messages", !.read = <<Row>>]
      BY <1>5 DEF ReadChat, Step
    <2>2. stream' \in Streams
      BY <1>2, <1>4, <2>1, ReadTypes DEF StreamSteps, Streams
    <2>3. stream'.step = "messages" /\ stream'.read = <<Row>>
      BY <1>4, <2>1 DEF Streams
    <2>4. ReadsOK'
      BY <1>2, <2>3 DEF ReadsOK
    <2> QED
      BY <1>1, <1>3, <1>5, <2>2, <2>3, <2>4 DEF ReadChat, LinkOK, StreamInPlace
  <1>6. CASE ReadMessages
    <2>1. PICK r \in Rows : stream.read = <<r>>
      BY <1>6 DEF ReadMessages, LinkOK, ReadsOK
    <2>2. stream' = [stream EXCEPT !.step = "job", !.read = <<r, Listing>>]
      <3>1. Append(stream.read, Listing) = <<r, Listing>>
        BY <1>2, <2>1, SecondRead
      <3> QED
        BY <1>6, <3>1 DEF ReadMessages, Step
    <2>3. stream' \in Streams
      BY <1>2, <1>4, <2>2, ReadTypes DEF StreamSteps, Streams
    <2>4. stream'.step = "job" /\ stream'.read = <<r, Listing>>
      BY <1>4, <2>2 DEF Streams
    <2>5. ReadsOK'
      BY <1>2, <2>4 DEF ReadsOK
    <2> QED
      BY <1>1, <1>3, <1>6, <2>3, <2>4, <2>5 DEF ReadMessages, LinkOK, StreamInPlace
  <1>7. CASE SendEvents
    <2>1. PICK r \in Rows, l \in Listings : stream.read = <<r, l>>
      BY <1>7 DEF SendEvents, LinkOK, ReadsOK
    <2> DEFINE payload == [kind |-> "message", chat |-> r, messages |-> l, now |-> job # 0]
               news == IF <<payload>> = stream.last THEN <<>> ELSE <<payload>>
               end == IF job = 0 THEN <<Idle>> ELSE <<>>
    <2>2. payload \in Messages
      BY DEF Messages
    <2>3. /\ inbox' = news \o end
          /\ stream' = [step |-> IF job = 0 THEN "over" ELSE "chat",
                        read |-> <<>>, last |-> <<payload>>]
      BY <1>7, <2>1 DEF SendEvents
    <2>4. payload \in Events /\ Idle \in Events
      BY <2>2 DEF Events
    <2> HIDE DEF payload
    <2>5. news \in Seq(Events) /\ end \in Seq(Events)
      BY <2>4
    <2>6. inbox' \in Seq(Events)
      BY <2>3, <2>5
    <2>7. stream' \in Streams
      BY <2>2, <2>3, ReadTypes DEF StreamSteps, Streams
    <2>8. ReadsOK'
      BY <2>3 DEF ReadsOK
    <2>9. stream'.step = "over" => inbox' # <<>> /\ inbox'[Len(inbox')] = Idle
      BY <2>3, <2>4
    <2>10. stream'.step # "closed"
      BY <2>3
    <2> QED
      BY <1>1, <1>3, <1>7, <2>6, <2>7, <2>8, <2>9, <2>10 DEF SendEvents, LinkOK, StreamInPlace
  <1>8. CASE StreamBreaks
    <2>1. Error \in Events /\ inbox \in Seq(Events)
      BY DEF Events, LinkOK
    <2>2. /\ inbox' \in Seq(Events) /\ inbox' # <<>> /\ inbox'[Len(inbox')] = Error
      BY <1>8, <2>1 DEF StreamBreaks
    <2>3. stream' \in Streams
      BY <1>8, ReadTypes DEF StreamBreaks, Closed, StreamSteps, Streams
    <2>4. stream'.step = "over"
      BY <1>8 DEF StreamBreaks, Closed
    <2>5. left' \in [changes : Nat, faults : Nat, visits : Nat]
      BY <1>8, SpendType DEF StreamBreaks
    <2> QED
      BY <1>1, <1>3, <2>2, <2>3, <2>4, <2>5 DEF LinkOK, ReadsOK, StreamInPlace
  <1> QED
    BY <1>5, <1>6, <1>7, <1>8 DEF StreamHandler


LEMMA PageLive == ASSUME LiveInv, Page \/ FetchFails PROVE LiveInv'
  <1> USE DEF LiveInv, PageTypeOK
  <1>1. ServerOK' /\ handles' \in {"render", "latest"} /\ UNCHANGED <<hidden, made>>
    BY DEF Page, OnMessage, OnIdle, OnError, TimerFires, ProbeEnds, FetchReads, FetchLands,
           PollReads, PollLands, FetchFails, server, link, view, ServerOK, ViewOK
  <1>2. left' \in [changes : Nat, faults : Nat, visits : Nat]
    BY SpendType DEF Page, OnMessage, OnIdle, OnError, TimerFires, ProbeEnds, FetchReads,
           FetchLands, PollReads, PollLands, FetchFails
  <1>3. CASE OnMessage
    <2>1. inbox \in Seq(Events) /\ inbox # <<>> /\ Head(inbox).kind = "message"
      BY <1>3 DEF OnMessage, LinkOK
    <2>2. Head(inbox) \in Messages
      BY <2>1 DEF Events, Idle, Error
    <2>3. /\ Head(inbox).chat \in Rows /\ Head(inbox).messages \in Listings
          /\ Head(inbox).now \in BOOLEAN /\ Head(inbox).chat.touched \in Times
      BY <2>2 DEF Messages, Rows
    <2>4. /\ sidebar' = Head(inbox).chat
          /\ page' \in {page, Head(inbox).messages}
          /\ synced' \in {synced, Head(inbox).chat.touched}
          /\ rerendered(Asked(Head(inbox).chat.touched)) \/ rerendered(fetch)
          /\ had' \in BOOLEAN
      BY <1>3 DEF OnMessage
    <2>5. ViewOK'
      <3>1. fetch' \in [at : Times, answer : Seq(Listings)]
        BY <2>3, <2>4, AskedType, Rerender DEF ViewOK
      <3> QED
        BY <1>1, <1>3, <2>3, <2>4, <3>1 DEF OnMessage, ViewOK
    <2>6. /\ inbox' = Tail(inbox) /\ inbox' \in Seq(Events)
          /\ Len(inbox') = Len(inbox) - 1 /\ Len(inbox) \in Nat \ {0}
      BY <1>3, <2>1 DEF OnMessage
    <2>7. UNCHANGED <<stream, timer, probes>>
      BY <1>3 DEF OnMessage
    <2>8. ASSUME stream.step = "over" PROVE inbox' # <<>> /\ inbox'[Len(inbox')] \in {Idle, Error}
      <3>1. inbox[Len(inbox)] \in {Idle, Error}
        BY <2>8 DEF StreamInPlace
      <3>2. Len(inbox) # 1
        <4>1. Head(inbox) = inbox[1]
          BY <2>1
        <4> QED
          BY <2>1, <3>1, <4>1 DEF Idle, Error
      <3>3. inbox'[Len(inbox')] = inbox[Len(inbox)]
        BY <2>1, <2>6, <3>2
      <3>4. Len(inbox') > 0
        BY <2>6, <3>2
      <3> QED
        BY <3>1, <3>3, <3>4
    <2>9. stream.step # "closed"
      BY <2>1 DEF StreamInPlace
    <2>10. LinkOK'
      BY <1>1, <2>6, <2>7 DEF LinkOK, ReadsOK
    <2>11. StreamInPlace'
      BY <1>1, <2>7, <2>8, <2>9 DEF StreamInPlace, Closed
    <2> QED
      BY <1>1, <1>2, <2>5, <2>10, <2>11
  <1>4. CASE OnIdle
    <2>1. ViewOK' /\ probes' = probes /\ timer' = (timer \/ ~hidden)
      BY <1>4 DEF OnIdle, schedule, view, ViewOK
    <2>2. timer' \in BOOLEAN /\ (timer' \/ hidden) /\ (hidden => timer' = timer)
      BY <2>1 DEF LinkOK
    <2>3. close_source
      BY <1>4 DEF OnIdle
    <2>4. LinkOK'
      BY <1>1, <2>1, <2>2, <2>3, CloseSource DEF LinkOK
    <2>5. StreamInPlace'
      BY <1>1, <2>2, <2>3, CloseSource DEF StreamInPlace
    <2> QED
      BY <1>1, <1>2, <2>1, <2>4, <2>5
  <1>5. CASE OnError
    <2>1. ViewOK' /\ probes' = probes + 1 /\ timer' = timer
      BY <1>5 DEF OnError, view, ViewOK
    <2>2. probes' \in Nat /\ probes' > 0
      BY <2>1 DEF LinkOK
    <2> QED
      BY <1>1, <1>2, <1>5, <2>1, <2>2, CloseSource DEF OnError, LinkOK, StreamInPlace
  <1>6. CASE TimerFires
    <2>1. ViewOK' /\ probes' = probes /\ ~hidden
      BY <1>6 DEF TimerFires, view, ViewOK, StreamInPlace
    <2>2. open_source /\ timer' = FALSE
      BY <1>6, <2>1 DEF TimerFires, connect
    <2> QED
      BY <1>1, <1>2, <2>1, <2>2, OpenSource DEF LinkOK, StreamInPlace
  <1>7. CASE ProbeEnds
    <2>1. ViewOK' /\ probes' = probes - 1 /\ probes > 0 /\ timer' = (timer \/ ~hidden)
      BY <1>7 DEF ProbeEnds, schedule, view, ViewOK
    <2>2. probes' \in Nat /\ UNCHANGED <<stream, inbox>>
      BY <1>7, <2>1 DEF ProbeEnds, LinkOK
    <2> QED
      BY <1>1, <1>2, <2>1, <2>2 DEF LinkOK, ReadsOK, StreamInPlace
  <1>8. CASE FetchReads \/ FetchLands \/ PollReads \/ PollLands \/ FetchFails
    <2>1. UNCHANGED link
      BY <1>8 DEF FetchReads, FetchLands, PollReads, PollLands, FetchFails
    <2>2. LinkOK' /\ StreamInPlace'
      BY <2>1 DEF link, LinkOK, ReadsOK, StreamInPlace
    <2>3. ViewOK'
      <3>1. Row \in Rows /\ Listing \in Listings
        BY ServerReads
      <3>2. NoFetch \in [at : Times, answer : Seq(Listings)] /\ NoRow \in Rows
        BY DEF NoFetch, NoRow, Rows, Times, None
      <3>3. CASE FetchReads
        <4>1. <<Listing>> \in Seq(Listings) /\ fetch \in [at : Times, answer : Seq(Listings)]
          BY <3>1 DEF ViewOK
        <4>2. fetch' \in [at : Times, answer : Seq(Listings)]
          BY <3>3, <4>1 DEF FetchReads
        <4> QED
          BY <1>1, <3>3, <4>2 DEF FetchReads, ViewOK, view
      <3>4. CASE FetchLands
        <4>1. sidebar' = sidebar /\ rerendered(NoFetch)
          BY <3>4 DEF FetchLands
        <4>2. fetch.answer \in Seq(Listings) /\ fetch.answer # <<>> /\ fetch.at \in Times
          BY <3>4 DEF FetchLands, ViewOK
        <4>3. page' \in Listings /\ synced' \in Times
          BY <3>4, <4>2 DEF FetchLands, ViewOK
        <4>4. fetch' \in [at : Times, answer : Seq(Listings)]
          BY <3>2, <4>1, Rerender DEF ViewOK
        <4> QED
          BY <1>1, <3>4, <4>1, <4>3, <4>4 DEF FetchLands, ViewOK
      <3>5. CASE PollReads
        BY <1>1, <3>1, <3>5 DEF PollReads, ViewOK, view
      <3>6. CASE PollLands
        <4>1. sidebar' = poll /\ (rerendered(Asked(poll.touched)) \/ rerendered(fetch))
          BY <3>6 DEF PollLands
        <4>2. poll.touched \in Times
          BY DEF ViewOK, Rows
        <4>3. fetch' \in [at : Times, answer : Seq(Listings)]
          BY <4>1, <4>2, AskedType, Rerender DEF ViewOK
        <4> QED
          BY <1>1, <3>2, <3>6, <4>1, <4>3 DEF PollLands, ViewOK
      <3>7. CASE FetchFails
        BY <1>1, <3>2, <3>7 DEF FetchFails, ViewOK, view
      <3> QED
        BY <1>8, <3>3, <3>4, <3>5, <3>6, <3>7
    <2> QED
      BY <1>1, <1>2, <2>2, <2>3
  <1> QED
    BY <1>3, <1>4, <1>5, <1>6, <1>7, <1>8 DEF Page

LEMMA TabLive == ASSUME LiveInv, Hide \/ Reconcile \/ Reopen PROVE LiveInv'
  <1> USE DEF LiveInv, PageTypeOK
  <1>1. ServerOK' /\ handles' \in {"render", "latest"} /\ probes' \in Nat
    BY DEF Hide, Reconcile, Reopen, server, ServerOK, ViewOK, LinkOK
  <1>2. left' \in [changes : Nat, faults : Nat, visits : Nat]
    BY SpendType DEF Hide, Reconcile, Reopen
  <1>3. sidebar.touched \in Times /\ None \in Times
    BY DEF ViewOK, Rows, Times
  <1>4. Asked(sidebar.touched) \in [at : Times, answer : Seq(Listings)]
    BY <1>3, AskedType
  <1>5. CASE Hide
    <2>1. ViewOK'
      BY <1>5 DEF Hide, view, ViewOK
    <2> QED
      BY <1>1, <1>2, <1>5, <2>1, CloseSource DEF Hide, LinkOK, StreamInPlace
  <1>6. CASE Reconcile
    <2>1. ViewOK'
      BY <1>1, <1>4, <1>6 DEF Reconcile, view, ViewOK
    <2> QED
      BY <1>1, <1>2, <1>6, <2>1, OpenSource DEF Reconcile, LinkOK, StreamInPlace
  <1>7. CASE Reopen
    <2>1. fetch' \in [at : Times, answer : Seq(Listings)]
      BY <1>4, <1>7, Rerender DEF Reopen, ViewOK
    <2>2. ViewOK'
      BY <1>1, <1>3, <1>7, <2>1 DEF Reopen, ViewOK
    <2> QED
      BY <1>1, <1>2, <1>7, <2>2, OpenSource DEF Reopen, LinkOK, StreamInPlace
  <1> QED
    BY <1>5, <1>6, <1>7

LEMMA LiveStep == LiveInv /\ [SyncNext]_syncVars => LiveInv'
  <1>1. LiveInv /\ UNCHANGED syncVars => LiveInv'
    BY DEF LiveInv, PageTypeOK, ServerOK, LinkOK, ReadsOK, ViewOK, StreamInPlace,
           syncVars, server, link, view
  <1> QED
    BY <1>1, ServerLive, StreamLive, PageLive, TabLive DEF SyncNext

-----------------------------------------------------------------------------
\* The stream of a tab in view never dies and a hidden tab holds none, however many
\* changes, breaks, probes and visits there are, in whatever order.
THEOREM StreamFollows == SyncSpec => []StreamFollowsTab
  <1>1. LiveInv => StreamFollowsTab
    BY DEF LiveInv, PageTypeOK, LinkOK, Streams, StreamSteps, StreamInPlace, StreamFollowsTab
  <1> QED
    BY <1>1, InitLive, LiveStep, PTL DEF SyncSpec
=============================================================================
