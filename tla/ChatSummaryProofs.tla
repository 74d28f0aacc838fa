------------------------- MODULE ChatSummaryProofs -------------------------
(* Why a chat loses nothing to its summary.  While no two tasks work on a chat, the   *)
(* invariant says what the one that does knows: the summary its text extends, and a   *)
(* batch that is a first part of the messages not yet hidden, small enough to leave   *)
(* the recent ones.  Whatever happens to the job, each of its statements then finds   *)
(* the chat as the invariant has it.  A deletion empties the summary before it shows  *)
(* the messages; until it does, no job has begun.  Markers have an invariant of their *)
(* own, calm or not: one without a body has a job to write or remove it, or a handler *)
(* that goes on to enqueue that job or to remove the marker, or the two were cut.     *)
EXTENDS ChatSummary, FiniteSetTheorems, WellFoundedInduction, TLAPS

Steps == {"queued", "plan", "ask", "store", "hide", "mark", "complete", "unmark"}
Handlers == [id : Nat, kind : JobKinds \cup {"cancel", "clear", "delete"}, marker : Nat]
Jobs == [id : Nat, kind : JobKinds, marker : Nat, row : BOOLEAN, step : Steps,
         tells : SUBSET Nat, batch : SUBSET Nat, anchor : Nat, told : BOOLEAN]
Markers == [id : Nat, body : BOOLEAN, before : Nat]

TypeOK ==
    /\ sent \in Nat /\ messages \subseteq 1..sent /\ hidden \subseteq messages
    /\ summary \in [text : BOOLEAN, tells : SUBSET Nat]
    /\ markers \subseteq Markers /\ jobs \subseteq Jobs
    /\ handlers \subseteq Handlers /\ cut \subseteq Nat
    /\ issued \in Nat /\ events \in Nat /\ calm \in BOOLEAN

\* A marker that is being written has a handler that goes on with it, or a job that
\* will write or delete it, unless their two statements were cut apart.
Makes(job) == (job.row /\ job.step # "complete") \/ job.step = "unmark"
Awaited(id) ==
    \/ id \in cut
    \/ \E h \in handlers : h.marker = id
    \/ \E job \in jobs : job.marker = id /\ Makes(job)
MarkersFollowJobs ==
    /\ \A marker \in markers : marker.id <= issued
    /\ \A a, b \in markers : a.id = b.id => a = b
    /\ \A marker \in markers : ~marker.body => Awaited(marker.id)

\* A first part of the messages that are not hidden, without the recent ones.
Foremost(batch) ==
    /\ batch \subseteq ActiveMessages
    /\ \A m \in batch, k \in ActiveMessages : k < m => k \in batch
    /\ Cardinality(ActiveMessages \ batch) >= KeepRecent

\* What the task of a job knows, until its work is done.
Knows(job) ==
    IF job.step \in {"complete", "unmark"} THEN TRUE
    ELSE IF job.kind = "regenerate"
    THEN /\ job.step \in {"ask", "store", "mark"}
         /\ job.step # "mark" => summary.tells \subseteq job.tells
    ELSE /\ job.step \in {"plan", "ask", "store", "hide"}
         /\ job.tells = IF job.step = "store" THEN summary.tells \cup job.batch ELSE summary.tells
         /\ job.step # "plan" => Foremost(job.batch)
         /\ job.step = "hide" => job.batch \subseteq summary.tells

Alone == \A i, j \in jobs : i = j

Ordered ==
    /\ hidden \subseteq summary.tells
    /\ \A m \in hidden, k \in messages : k < m => k \in hidden

\* A deletion that has only emptied the summary is beside no job that works.
Idle == \A job \in jobs : job.step \in {"queued", "unmark"}
Informed == \A job \in jobs : Live(job) => Knows(job)
Sound == IF Clearing THEN Idle ELSE Ordered /\ Informed

SummaryInv ==
    /\ TypeOK
    /\ MarkersFollowJobs
    /\ calm => Alone /\ Sound

-----------------------------------------------------------------------------
(* Sets of ids *)

\* Of two ids the greater has more below it.
LEMMA BelowGrows ==
    ASSUME NEW S \in SUBSET Nat, IsFiniteSet(S), NEW k \in S, NEW m \in S, k < m
    PROVE  /\ {i \in S : i < k} \subseteq {i \in S : i < m}
           /\ {i \in S : i < k} # {i \in S : i < m}
           /\ Cardinality({i \in S : i < k}) < Cardinality({i \in S : i < m})
  <1> DEFINE a == {i \in S : i < k}
             b == {i \in S : i < m}
  <1>1. \A i \in S : i \in Nat
    OBVIOUS
  <1>2. a \subseteq b
    <2>1. \A i \in S : i < k => i < m
      BY <1>1
    <2> QED
      BY <2>1
  <1>3. k \in b /\ k \notin a
    BY <1>1
  <1>4. a \subseteq S /\ b \subseteq S
    OBVIOUS
  <1> HIDE DEF a, b
  <1>5. a # b
    BY <1>3
  <1>6. IsFiniteSet(b) /\ Cardinality(b) \in Nat /\ Cardinality(a) \in Nat
    BY <1>4, FS_Subset, FS_CardinalityType
  <1>7. Cardinality(a) <= Cardinality(b) /\ Cardinality(a) # Cardinality(b)
    BY <1>2, <1>5, <1>6, FS_Subset
  <1> QED
    BY <1>2, <1>5, <1>6, <1>7 DEF a, b

LEMMA LeastOf ==
    ASSUME NEW S \in SUBSET Nat, IsFiniteSet(S), S # {}
    PROVE  Min(S) \in S /\ \A y \in S : Min(S) <= y
  <1> DEFINE Below(i) == {k \in S : k < i}
             T == {Below(i) : i \in S}
  <1>1. T # {} /\ T \subseteq FiniteSubsetsOf(S)
    <2>1. \A i \in S : Below(i) \in FiniteSubsetsOf(S)
      BY FS_Subset DEF FiniteSubsetsOf
    <2> QED
      BY <2>1
  <1>2. PICK t \in T : \A u \in T : ~(<<u, t>> \in StrictSubsetOrdering(S))
    <2> HIDE DEF T
    <2> QED
      BY <1>1, FS_StrictSubsetOrderingWellFounded, WFMin
  <1>3. PICK x \in S : t = Below(x)
    BY <1>2
  <1>4. ASSUME NEW y \in S PROVE x <= y
    <2>1. <<Below(y), Below(x)>> \notin StrictSubsetOrdering(S)
      BY <1>2, <1>3
    <2>2. ~(Below(y) \subseteq Below(x) /\ Below(y) # Below(x))
      BY <2>1 DEF StrictSubsetOrdering
    <2>3. ~(y < x)
      BY <2>2, BelowGrows
    <2> QED
      BY <2>3
  <1> QED
    BY <1>4 DEF Min

LEMMA FiniteIds ==
    ASSUME NEW n \in Nat, NEW S, S \subseteq 1..n
    PROVE  IsFiniteSet(S) /\ S \in SUBSET Nat
  <1>1. IsFiniteSet(1..n) /\ 1..n \subseteq Nat
    BY FS_Interval
  <1> QED
    BY <1>1, FS_Subset

\* Fewer than n are smaller than each of the n smallest.
LEMMA OldestOf ==
    ASSUME NEW S \in SUBSET Nat, IsFiniteSet(S), NEW n \in Int
    PROVE  /\ Oldest(n, S) \subseteq S
           /\ Oldest(n, S) # {} => n > 0 /\ Cardinality(Oldest(n, S)) <= n
           /\ \A m \in Oldest(n, S), k \in S : k < m => k \in Oldest(n, S)
  <1> DEFINE Below(i) == {k \in S : k < i}
             rank == [i \in Oldest(n, S) |-> Cardinality(Below(i))]
  <1>1. \A i : Cardinality(Below(i)) \in Nat
    BY FS_Subset, FS_CardinalityType
  <1>2. \A k, m \in S : k < m => Cardinality(Below(k)) < Cardinality(Below(m))
    BY BelowGrows
  <1>3. Oldest(n, S) = {i \in S : Cardinality(Below(i)) < n}
    BY DEF Oldest
  <1> HIDE DEF Below
  <1>4. ASSUME NEW m \in Oldest(n, S), NEW k \in S, k < m PROVE k \in Oldest(n, S)
    <2>1. Cardinality(Below(k)) < Cardinality(Below(m)) /\ Cardinality(Below(m)) < n
      BY <1>2, <1>3, <1>4
    <2>2. Cardinality(Below(k)) < n
      BY <1>1, <2>1
    <2> QED
      BY <1>3, <2>2
  <1>5. ASSUME Oldest(n, S) # {} PROVE n > 0 /\ Cardinality(Oldest(n, S)) <= n
    <2>1. n \in Nat \ {0}
      BY <1>1, <1>3, <1>5
    <2>2. IsFiniteSet(0..n - 1) /\ Cardinality(0..n - 1) = n
      BY <2>1, FS_Interval
    <2>3. rank \in Injection(Oldest(n, S), 0..n - 1)
      <3>1. \A i \in Oldest(n, S) : rank[i] \in 0..n - 1
        BY <1>1, <1>3, <2>1
      <3>2. ASSUME NEW i \in Oldest(n, S), NEW j \in Oldest(n, S), rank[i] = rank[j] PROVE i = j
        <4>1. i \in S /\ j \in S /\ i \in Nat /\ j \in Nat
          BY <1>3
        <4>2. ~(i < j) /\ ~(j < i)
          BY <1>1, <1>2, <3>2, <4>1
        <4> QED
          BY <4>1, <4>2
      <3> QED
        BY <3>1, <3>2 DEF Injection, IsInjective
    <2> QED
      BY <2>1, <2>2, <2>3, FS_Injection
  <1> QED
    BY <1>3, <1>4, <1>5
-----------------------------------------------------------------------------
(* Plans and rows *)

LEMMA ActiveIds ==
    ASSUME TypeOK
    PROVE  /\ ActiveMessages \in SUBSET Nat /\ IsFiniteSet(ActiveMessages)
           /\ Cardinality(ActiveMessages) \in Nat
           /\ messages \in SUBSET Nat /\ hidden \in SUBSET Nat
  <1>1. ActiveMessages \subseteq 1..sent /\ sent \in Nat
    BY DEF TypeOK, ActiveMessages
  <1>2. messages \in SUBSET Nat /\ hidden \in SUBSET Nat
    BY FiniteIds DEF TypeOK
  <1> QED
    BY <1>1, <1>2, FiniteIds, FS_CardinalityType

\* A plan leaves as many recent messages as the settings ask for.
LEMMA PlanOf ==
    ASSUME TypeOK, NEW kind, NEW plan \in Plans(kind)
    PROVE  /\ plan \subseteq ActiveMessages /\ plan # {}
           /\ IsFiniteSet(plan) /\ plan \in SUBSET Nat
           /\ \A m \in plan, k \in ActiveMessages : k < m => k \in plan
           /\ Cardinality(ActiveMessages \ plan) \in Nat
           /\ Cardinality(ActiveMessages \ plan) >= KeepRecent
           /\ FirstKept(plan) \in Nat
  <1> DEFINE active == ActiveMessages
  <1>1. PICK k \in Kept(active) : plan = Oldest(Cardinality(active) - k, active) /\ plan # {}
    BY DEF Plans
  <1>2. active \in SUBSET Nat /\ IsFiniteSet(active) /\ Cardinality(active) \in Nat
    BY ActiveIds
  <1> HIDE DEF active
  <1>3. k \in Nat /\ k >= KeepRecent /\ KeepRecent \in Nat /\ KeepRecent >= 2
    BY <1>1, <1>2, SettingsAssumption DEF Kept
  <1>4. Cardinality(active) - k \in Int
    BY <1>2, <1>3
  <1>5. /\ plan \subseteq active /\ Cardinality(plan) <= Cardinality(active) - k
        /\ \A m \in plan, j \in active : j < m => j \in plan
    BY <1>1, <1>2, <1>4, OldestOf
  <1>6. IsFiniteSet(plan) /\ plan \in SUBSET Nat /\ Cardinality(plan) \in Nat
    BY <1>2, <1>5, FS_Subset, FS_CardinalityType
  <1>7. IsFiniteSet(active \ plan) /\ Cardinality(active \ plan) = Cardinality(active) - Cardinality(plan)
    <2>1. active \cap plan = plan
      BY <1>5
    <2> QED
      BY <1>2, <2>1, FS_Difference
  <1>8. Cardinality(active \ plan) \in Nat /\ Cardinality(active \ plan) >= KeepRecent
    BY <1>2, <1>3, <1>5, <1>6, <1>7, FS_CardinalityType
  <1>9. Min(active \ plan) \in Nat
    <2>1. active \ plan # {}
      BY <1>3, <1>7, <1>8, FS_EmptySet
    <2>2. active \ plan \in SUBSET Nat
      BY <1>2
    <2> QED
      BY <1>7, <2>1, <2>2, LeastOf
  <1> QED
    BY <1>1, <1>5, <1>6, <1>8, <1>9 DEF FirstKept, active

LEMMA BatchOf ==
    ASSUME TypeOK, NEW kind, NEW plan \in Plans(kind), NEW n \in Int
    PROVE  Foremost(Oldest(n, plan)) /\ Oldest(n, plan) \in SUBSET Nat
  <1>1. /\ Oldest(n, plan) \subseteq plan
        /\ \A m \in Oldest(n, plan), k \in plan : k < m => k \in Oldest(n, plan)
    BY PlanOf, OldestOf
  <1>2. /\ plan \subseteq ActiveMessages /\ plan \in SUBSET Nat
        /\ \A m \in plan, k \in ActiveMessages : k < m => k \in plan
        /\ Cardinality(ActiveMessages \ plan) \in Nat /\ Cardinality(ActiveMessages \ plan) >= KeepRecent
    BY PlanOf
  <1>3. Cardinality(ActiveMessages \ Oldest(n, plan)) >= KeepRecent
    <2> DEFINE more == ActiveMessages \ Oldest(n, plan)
    <2>1. ActiveMessages \ plan \subseteq more
      BY <1>1
    <2>2. IsFiniteSet(more) /\ Cardinality(more) \in Nat
      BY ActiveIds, FS_Subset, FS_CardinalityType
    <2> HIDE DEF more
    <2>3. Cardinality(ActiveMessages \ plan) <= Cardinality(more)
      BY <2>1, <2>2, FS_Subset
    <2> QED
      BY <1>2, <2>2, <2>3, SettingsAssumption DEF more
  <1> QED
    BY <1>1, <1>2, <1>3 DEF Foremost

LEMMA NewJobType ==
    ASSUME NEW id \in Nat, NEW kind \in JobKinds, NEW marker \in Nat
    PROVE  /\ NewJob(id, kind, marker) \in Jobs
           /\ NewJob(id, kind, marker).row /\ ~Live(NewJob(id, kind, marker))
           /\ NewJob(id, kind, marker).marker = marker
  BY DEF NewJob, Jobs, Steps, Live

\* Rows that go take nothing from a task, and queued jobs go with them.
LEMMA RowsOf ==
    ASSUME NEW ids, NEW rest \in SUBSET Jobs
    PROVE  /\ RowsWithout(ids, rest) \subseteq Jobs
           /\ \A new \in RowsWithout(ids, rest) : \E job \in rest :
                 /\ new.step = job.step /\ new.kind = job.kind /\ new.marker = job.marker
                 /\ new.tells = job.tells /\ new.batch = job.batch
                 /\ IF job.marker \in ids THEN Live(job) /\ new = [job EXCEPT !.row = FALSE]
                    ELSE new = job
           /\ \A job \in rest : job.marker \notin ids => job \in RowsWithout(ids, rest)
  <1>1. ASSUME NEW job \in rest
        PROVE  LET new == [job EXCEPT !.row = FALSE] IN
               /\ new \in Jobs /\ new.step = job.step /\ new.kind = job.kind
               /\ new.marker = job.marker /\ new.tells = job.tells /\ new.batch = job.batch
    <2>1. job \in Jobs
      OBVIOUS
    <2> QED
      BY <2>1 DEF Jobs
  <1>2. ASSUME NEW new \in RowsWithout(ids, rest)
        PROVE  \E job \in rest :
                 IF job.marker \in ids THEN Live(job) /\ new = [job EXCEPT !.row = FALSE]
                 ELSE new = job
    BY DEF RowsWithout
  <1>3. ASSUME NEW job \in rest, job.marker \notin ids PROVE job \in RowsWithout(ids, rest)
    BY <1>3 DEF RowsWithout
  <1>4. ASSUME NEW new \in RowsWithout(ids, rest)
        PROVE  /\ new \in Jobs
               /\ \E job \in rest :
                    /\ new.step = job.step /\ new.kind = job.kind /\ new.marker = job.marker
                    /\ new.tells = job.tells /\ new.batch = job.batch
                    /\ IF job.marker \in ids THEN Live(job) /\ new = [job EXCEPT !.row = FALSE]
                       ELSE new = job
    <2>1. PICK job \in rest :
             IF job.marker \in ids THEN Live(job) /\ new = [job EXCEPT !.row = FALSE]
             ELSE new = job
      BY <1>2
    <2>2. /\ new \in Jobs /\ new.step = job.step /\ new.kind = job.kind
          /\ new.marker = job.marker /\ new.tells = job.tells /\ new.batch = job.batch
      BY <1>1, <2>1
    <2> QED
      BY <2>1, <2>2
  <1> QED
    BY <1>3, <1>4

-----------------------------------------------------------------------------
(* Types *)

LEMMA TypeStep ==
    ASSUME TypeOK, Next
    PROVE  TypeOK'
  <1>0. /\ sent \in Nat /\ issued \in Nat /\ events \in Nat /\ calm \in BOOLEAN
        /\ jobs \in SUBSET Jobs /\ markers \in SUBSET Markers
        /\ handlers \in SUBSET Handlers /\ cut \in SUBSET Nat
        /\ messages \subseteq 1..sent /\ hidden \subseteq messages
        /\ summary \in [text : BOOLEAN, tells : SUBSET Nat]
        /\ summary.tells \in SUBSET Nat
    BY DEF TypeOK
  <1>1. CASE Send
    BY <1>0, <1>1 DEF Send, TypeOK
  <1>2. ASSUME NEW kind \in JobKinds, NEW marker \in Nat, Asks(kind, marker), markers' \subseteq Markers
        PROVE  TypeOK'
    <2>1. Handler(issued + 1, kind, marker) \in Handlers
      BY <1>0 DEF Handler, Handlers
    <2> QED
      BY <1>0, <1>2, <2>1 DEF Asks, TypeOK
  <1>3. ASSUME NEW kind \in {"auto", "force"}, Summarize(kind) PROVE TypeOK'
    <2>1. PICK plan \in Plans(kind) : markers' = markers \cup {NewMarker(issued + 1, FirstKept(plan))}
      BY <1>3 DEF Summarize
    <2>2. FirstKept(plan) \in Nat
      BY PlanOf
    <2>3. issued + 1 \in Nat
      BY <1>0
    <2>4. NewMarker(issued + 1, FirstKept(plan)) \in Markers
      BY <2>2, <2>3 DEF NewMarker, Markers
    <2>5. kind \in JobKinds /\ Asks(kind, issued + 1)
      BY <1>3 DEF Summarize, JobKinds
    <2> QED
      BY <1>0, <1>2, <2>1, <2>3, <2>4, <2>5
  <1>4. ASSUME NEW marker \in markers, Regenerate(marker) PROVE TypeOK'
    <2>1. marker \in Markers
      BY <1>0
    <2>2. marker.id \in Nat /\ [marker EXCEPT !.body = FALSE] \in Markers
      BY <2>1 DEF Markers
    <2>3. markers' \subseteq Markers
      BY <1>0, <1>4, <2>2 DEF Regenerate
    <2>4. "regenerate" \in JobKinds /\ Asks("regenerate", marker.id)
      BY <1>4 DEF Regenerate, JobKinds
    <2> QED
      BY <1>2, <2>2, <2>3, <2>4
  <1>5. CASE DeleteSummary
    <2>1. Handler(events, "clear", 0) \in Handlers
      BY <1>0 DEF Handler, Handlers
    <2> QED
      BY <1>0, <1>5, <2>1 DEF DeleteSummary, Served, NoSummary, TypeOK
  <1>6. ASSUME NEW message \in messages, Rewind(message) PROVE TypeOK'
    BY <1>0, <1>6, RowsOf DEF Rewind, Served, TypeOK
  <1>7. ASSUME NEW job \in jobs, Cancel(job) PROVE TypeOK'
    <2>1. job \in Jobs
      BY <1>0
    <2>2. [job EXCEPT !.row = FALSE] \in Jobs /\ Handler(job.id, "cancel", job.marker) \in Handlers
      BY <2>1 DEF Jobs, Handler, Handlers
    <2>3. Settled(job) \subseteq Jobs
      BY <2>2 DEF Settled
    <2> QED
      BY <1>0, <1>7, <2>2, <2>3 DEF Cancel, Served, TypeOK
  <1>20. ASSUME NEW h \in handlers, Enqueue(h) PROVE TypeOK'
    <2>1. h \in Handlers /\ h.kind \in JobKinds
      BY <1>0, <1>20 DEF Enqueue
    <2>2. h.id \in Nat /\ h.marker \in Nat
      BY <2>1 DEF Handlers
    <2>3. NewJob(h.id, h.kind, h.marker) \in Jobs
      BY <2>1, <2>2, NewJobType
    <2>4. jobs' \subseteq Jobs /\ calm' \in BOOLEAN
      BY <1>0, <1>20, <2>3 DEF Enqueue
    <2> QED
      BY <1>0, <1>20, <2>4 DEF Enqueue, TypeOK
  <1>21. ASSUME NEW h \in handlers, ClearHidden(h) PROVE TypeOK'
    <2>1. h \in Handlers
      BY <1>0
    <2>2. [h EXCEPT !.kind = "delete"] \in Handlers
      BY <2>1 DEF Handlers
    <2> QED
      BY <1>0, <1>21, <2>2 DEF ClearHidden, TypeOK
  <1>22. ASSUME NEW h \in handlers, DeleteMarkers(h) PROVE TypeOK'
    BY <1>0, <1>22, RowsOf DEF DeleteMarkers, TypeOK
  <1>23. ASSUME NEW h \in handlers, CancelGoesOn(h) PROVE TypeOK'
    BY <1>0, <1>23, RowsOf DEF CancelGoesOn, RemoveMarker, TypeOK
  <1>8. ASSUME NEW job \in jobs, NEW new \in Jobs, Become(job, new) PROVE jobs' \subseteq Jobs
    BY <1>0, <1>8 DEF Become
  <1>9. ASSUME NEW job \in jobs, Start(job) \/ Answer(job) \/ Store(job) PROVE TypeOK'
    <2>1. job \in Jobs
      BY <1>0
    <2>2. /\ [job EXCEPT !.step = "plan", !.tells = summary.tells] \in Jobs
          /\ [job EXCEPT !.step = "store", !.tells = @ \cup job.batch] \in Jobs
          /\ [job EXCEPT !.step = IF job.kind = "regenerate" THEN "mark" ELSE "hide"] \in Jobs
          /\ [text |-> TRUE, tells |-> job.tells] \in [text : BOOLEAN, tells : SUBSET Nat]
      BY <1>0, <2>1 DEF Jobs, Steps
    <2>3. jobs' \subseteq Jobs
      BY <1>8, <1>9, <2>2 DEF Start, Answer, Store
    <2>4. summary' \in [text : BOOLEAN, tells : SUBSET Nat]
      BY <1>0, <1>9, <2>2 DEF Start, Answer, Store
    <2> QED
      BY <1>0, <1>9, <2>3, <2>4 DEF Start, Answer, Store, TypeOK
  <1>10. ASSUME NEW job \in jobs, NextBatch(job) PROVE TypeOK'
    <2>0. PICK plan \in Plans(job.kind) : \E n \in 1..Cardinality(plan) :
             Become(job, [job EXCEPT !.step = "ask", !.batch = Oldest(n, plan),
                                     !.anchor = IF @ = 0 THEN FirstKept(plan) ELSE @])
      BY <1>10 DEF NextBatch
    <2>1. PICK n \in 1..Cardinality(plan) :
             Become(job, [job EXCEPT !.step = "ask", !.batch = Oldest(n, plan),
                                     !.anchor = IF @ = 0 THEN FirstKept(plan) ELSE @])
      BY <2>0
    <2>2. n \in Int /\ job \in Jobs
      BY <1>0
    <2>3. Oldest(n, plan) \in SUBSET Nat /\ FirstKept(plan) \in Nat
      BY <2>2, BatchOf, PlanOf
    <2>4. [job EXCEPT !.step = "ask", !.batch = Oldest(n, plan),
                      !.anchor = IF @ = 0 THEN FirstKept(plan) ELSE @] \in Jobs
      BY <2>2, <2>3 DEF Jobs, Steps
    <2> QED
      BY <1>0, <1>8, <1>10, <2>1, <2>4 DEF NextBatch, TypeOK
  <1>11. ASSUME NEW job \in jobs, (EndLoop(job) /\ job.told) \/ Fail(job) \/ WriteMarker(job) PROVE TypeOK'
    <2>1. job \in Jobs
      BY <1>0
    <2>2. \A marker \in markers :
             /\ [marker EXCEPT !.body = TRUE, !.before = job.anchor] \in Markers
             /\ [marker EXCEPT !.body = TRUE] \in Markers
      <3>1. \A marker \in markers : marker \in Markers
        BY <1>0
      <3> QED
        BY <2>1, <3>1 DEF Markers, Jobs
    <2>3. /\ [job EXCEPT !.step = "complete"] \in Jobs
          /\ [job EXCEPT !.step = "unmark", !.row = FALSE] \in Jobs
      BY <2>1 DEF Jobs, Steps
    <2>4. \/ markers' = markers
          \/ markers' = {IF marker.id = job.marker
                         THEN [marker EXCEPT !.body = TRUE, !.before = job.anchor] ELSE marker :
                         marker \in markers}
          \/ markers' = {IF marker.id = job.marker THEN [marker EXCEPT !.body = TRUE] ELSE marker :
                         marker \in markers}
      BY <1>11 DEF EndLoop, Fail, WriteMarker
    <2>5. markers' \subseteq Markers
      <3>1. CASE markers' = markers
        BY <1>0, <3>1
      <3>2. CASE markers' = {IF marker.id = job.marker
                            THEN [marker EXCEPT !.body = TRUE, !.before = job.anchor] ELSE marker :
                            marker \in markers}
        BY <1>0, <2>2, <3>2
      <3>3. CASE markers' = {IF marker.id = job.marker THEN [marker EXCEPT !.body = TRUE] ELSE marker :
                            marker \in markers}
        BY <1>0, <2>2, <3>3
      <3> QED
        BY <2>4, <3>1, <3>2, <3>3
    <2>6. UNCHANGED <<messages, hidden, summary, handlers, sent, issued, events, calm, cut>>
      BY <1>11 DEF EndLoop, Fail, WriteMarker
    <2>7. jobs' \subseteq Jobs
      BY <1>8, <1>11, <2>3 DEF EndLoop, Fail, WriteMarker
    <2> QED
      BY <1>0, <2>5, <2>6, <2>7 DEF TypeOK
  <1>15. ASSUME NEW job \in jobs, EndsWithoutMarker(job) \/ (jobs' = jobs \ {job} /\ markers' = markers),
                UNCHANGED <<messages, hidden, summary, handlers, sent, issued, events, cut>>,
                calm' \in BOOLEAN
         PROVE  TypeOK'
    <2>1. RowsWithout({job.marker}, jobs \ {job}) \subseteq Jobs
      BY <1>0, RowsOf
    <2>2. jobs' \subseteq Jobs /\ markers' \subseteq Markers
      BY <1>0, <1>15, <2>1 DEF EndsWithoutMarker, RemoveMarker
    <2> QED
      BY <1>0, <1>15, <2>2 DEF TypeOK
  <1>16. ASSUME NEW job \in jobs, Complete(job) \/ FailGoesOn(job) \/ (EndLoop(job) /\ ~job.told)
         PROVE  TypeOK'
    <2>1. /\ EndsWithoutMarker(job) \/ (jobs' = jobs \ {job} /\ markers' = markers)
          /\ UNCHANGED <<messages, hidden, summary, handlers, sent, issued, events, cut>>
          /\ calm' = calm
      BY <1>16 DEF Complete, FailGoesOn, EndLoop, NothingTold
    <2> QED
      BY <1>0, <1>15, <2>1
  <1>12. ASSUME NEW job \in jobs, Hide(job) PROVE TypeOK'
    <2>1. job \in Jobs
      BY <1>0
    <2>2. /\ [job EXCEPT !.step = "plan"] \in Jobs
          /\ [job EXCEPT !.batch = @ \ {Min(job.batch)}, !.told = TRUE] \in Jobs
      BY <2>1 DEF Jobs, Steps
    <2>3. jobs' \subseteq Jobs
      BY <1>8, <1>12, <2>2 DEF Hide
    <2>4. hidden' \subseteq messages
      BY <1>0, <1>12 DEF Hide, HiddenBy
    <2> QED
      BY <1>0, <1>12, <2>3, <2>4 DEF Hide, TypeOK
  <1>13. ASSUME NEW job \in jobs, StartRegenerate(job) PROVE TypeOK'
    <2>1. job \in Jobs
      BY <1>0
    <2>2. \A n : Newest(n, ActiveMessages) \in SUBSET Nat
      BY ActiveIds DEF Newest
    <2>3. \A n : [job EXCEPT !.step = "ask", !.tells = summary.tells,
                            !.batch = Newest(n, ActiveMessages)] \in Jobs
      BY <1>0, <2>1, <2>2 DEF Jobs, Steps
    <2>4. UNCHANGED <<messages, hidden, summary, handlers, sent, issued, events, cut>> /\ calm' \in BOOLEAN
      BY <1>0, <1>13 DEF StartRegenerate
    <2>5. CASE summary.text
      <3>1. jobs' \subseteq Jobs /\ markers' = markers
        BY <1>8, <1>13, <2>3, <2>5 DEF StartRegenerate
      <3> QED
        BY <1>0, <2>4, <3>1 DEF TypeOK
    <2>6. CASE ~summary.text
      BY <1>13, <1>15, <2>4, <2>6 DEF StartRegenerate
    <2> QED
      BY <2>5, <2>6
  <1>14. CASE Crash
    <2>1. \A job \in jobs : NewJob(job.id, job.kind, job.marker) \in Jobs
      <3>1. \A job \in jobs : job.id \in Nat /\ job.kind \in JobKinds /\ job.marker \in Nat
        BY <1>0 DEF Jobs
      <3> QED
        BY <3>1, NewJobType
    <2>2. jobs' \subseteq Jobs
      BY <1>14, <2>1 DEF Crash
    <2>3. cut' \subseteq Nat
      <3>1. (\A h \in handlers : h.marker \in Nat) /\ (\A job \in jobs : job.marker \in Nat)
        BY <1>0 DEF Handlers, Jobs
      <3> QED
        BY <1>0, <1>14, <3>1 DEF Crash
    <2> QED
      BY <1>0, <1>14, <2>2, <2>3 DEF Crash, Served, TypeOK
  <1>17. ASSUME NEW job \in jobs, JobStep(job) PROVE TypeOK'
    BY <1>9, <1>10, <1>11, <1>12, <1>13, <1>16, <1>17 DEF JobStep
  <1>18. ASSUME NEW h \in handlers, HandlerStep(h) PROVE TypeOK'
    BY <1>18, <1>20, <1>21, <1>22, <1>23 DEF HandlerStep
  <1>19. ASSUME NEW h \in handlers, DropHandler(h) PROVE TypeOK'
    <2>1. h.marker \in Nat
      BY <1>0 DEF Handlers
    <2>2. calm \in BOOLEAN
      BY <1>0
    <2>3. calm' \in BOOLEAN
      <3>1. calm' = (calm /\ h.kind # "clear")
        BY <1>19 DEF DropHandler
      <3> QED
        BY <2>2, <3>1
    <2>4. /\ UNCHANGED <<messages, hidden, summary, markers, jobs, sent, issued>>
          /\ handlers' \subseteq handlers /\ cut' = cut \cup {h.marker} /\ events' = events + 1
      BY <1>19 DEF DropHandler, Served
    <2>5. cut' \subseteq Nat
      BY <1>0, <2>1, <2>4
    <2>6. events' \in Nat
      BY <1>0, <2>4
    <2>7. handlers' \subseteq Handlers
      BY <1>0, <2>4
    <2> QED
      BY <1>0, <2>3, <2>4, <2>5, <2>6, <2>7 DEF TypeOK
  <1> QED
    BY <1>1, <1>3, <1>4, <1>5, <1>6, <1>7, <1>14, <1>17, <1>18, <1>19 DEF Next, Request
-----------------------------------------------------------------------------
(* What a step makes of its job *)

Same(new, job) == new.kind = job.kind /\ new.marker = job.marker /\ new.row = job.row

LEMMA JobMoves ==
    ASSUME TypeOK, NEW job \in jobs
    PROVE  /\ Start(job) => \E new : /\ Become(job, new) /\ Same(new, job)
                                    /\ new.step = "plan" /\ new.tells = summary.tells
           /\ NextBatch(job) => \E new : /\ Become(job, new) /\ Same(new, job)
                                        /\ new.step = "ask" /\ new.tells = job.tells
                                        /\ Foremost(new.batch)
           /\ Answer(job) => \E new : /\ Become(job, new) /\ Same(new, job)
                                     /\ new.step = "store" /\ new.tells = job.tells \cup job.batch
                                     /\ new.batch = job.batch
           /\ Store(job) => \E new : /\ Become(job, new) /\ Same(new, job)
                                    /\ new.step = (IF job.kind = "regenerate" THEN "mark" ELSE "hide")
                                    /\ new.tells = job.tells /\ new.batch = job.batch
           /\ Hide(job) => \E new : /\ Become(job, new) /\ Same(new, job) /\ new.tells = job.tells
                                   /\ IF job.batch = {} THEN new.step = "plan"
                                      ELSE /\ new.step = "hide"
                                           /\ new.batch = job.batch \ {Min(job.batch)}
           /\ StartRegenerate(job) /\ summary.text =>
                \E new : /\ Become(job, new) /\ Same(new, job)
                        /\ new.step = "ask" /\ new.tells = summary.tells
           /\ Fail(job) => \E new : Become(job, new) /\ new.marker = job.marker /\ new.step = "unmark"
           /\ (EndLoop(job) /\ job.told) \/ WriteMarker(job) =>
                \E new : Become(job, new) /\ Same(new, job) /\ new.step = "complete"
  <1>0. job \in Jobs
    BY DEF TypeOK
  <1>1. ASSUME Start(job)
        PROVE  \E new : /\ Become(job, new) /\ Same(new, job)
                       /\ new.step = "plan" /\ new.tells = summary.tells
    <2> DEFINE new == [job EXCEPT !.step = "plan", !.tells = summary.tells]
    <2>1. Same(new, job) /\ new.step = "plan" /\ new.tells = summary.tells
      BY <1>0 DEF Jobs, Same
    <2>2. Become(job, new)
      BY <1>1 DEF Start
    <2> HIDE DEF new
    <2> QED
      BY <2>1, <2>2
  <1>2. ASSUME NextBatch(job)
        PROVE  \E new : /\ Become(job, new) /\ Same(new, job)
                       /\ new.step = "ask" /\ new.tells = job.tells /\ Foremost(new.batch)
    <2>1. PICK plan \in Plans(job.kind) : \E n \in 1..Cardinality(plan) :
             Become(job, [job EXCEPT !.step = "ask", !.batch = Oldest(n, plan),
                                     !.anchor = IF @ = 0 THEN FirstKept(plan) ELSE @])
      BY <1>2 DEF NextBatch
    <2>2. PICK n \in 1..Cardinality(plan) :
             Become(job, [job EXCEPT !.step = "ask", !.batch = Oldest(n, plan),
                                     !.anchor = IF @ = 0 THEN FirstKept(plan) ELSE @])
      BY <2>1
    <2> DEFINE new == [job EXCEPT !.step = "ask", !.batch = Oldest(n, plan),
                                  !.anchor = IF @ = 0 THEN FirstKept(plan) ELSE @]
    <2>3. /\ Same(new, job) /\ new.step = "ask" /\ new.tells = job.tells
          /\ new.batch = Oldest(n, plan)
      BY <1>0 DEF Jobs, Same
    <2>4. Foremost(Oldest(n, plan))
      BY BatchOf
    <2>5. Become(job, new)
      BY <2>2
    <2> HIDE DEF new
    <2> QED
      BY <2>3, <2>4, <2>5
  <1>3. ASSUME Answer(job)
        PROVE  \E new : /\ Become(job, new) /\ Same(new, job)
                       /\ new.step = "store" /\ new.tells = job.tells \cup job.batch
                       /\ new.batch = job.batch
    <2> DEFINE new == [job EXCEPT !.step = "store", !.tells = @ \cup job.batch]
    <2>1. /\ Same(new, job) /\ new.step = "store" /\ new.tells = job.tells \cup job.batch
          /\ new.batch = job.batch
      BY <1>0 DEF Jobs, Same
    <2>2. Become(job, new)
      BY <1>3 DEF Answer
    <2> HIDE DEF new
    <2> QED
      BY <2>1, <2>2
  <1>4. ASSUME Store(job)
        PROVE  \E new : /\ Become(job, new) /\ Same(new, job)
                       /\ new.step = (IF job.kind = "regenerate" THEN "mark" ELSE "hide")
                       /\ new.tells = job.tells /\ new.batch = job.batch
    <2> DEFINE new == [job EXCEPT !.step = IF job.kind = "regenerate" THEN "mark" ELSE "hide"]
    <2>1. /\ Same(new, job) /\ new.step = (IF job.kind = "regenerate" THEN "mark" ELSE "hide")
          /\ new.tells = job.tells /\ new.batch = job.batch
      BY <1>0 DEF Jobs, Same
    <2>2. Become(job, new)
      BY <1>4 DEF Store
    <2> HIDE DEF new
    <2> QED
      BY <2>1, <2>2
  <1>5. ASSUME Hide(job)
        PROVE  \E new : /\ Become(job, new) /\ Same(new, job) /\ new.tells = job.tells
                       /\ IF job.batch = {} THEN new.step = "plan"
                          ELSE new.step = "hide" /\ new.batch = job.batch \ {Min(job.batch)}
    <2> DEFINE new == IF job.batch = {} THEN [job EXCEPT !.step = "plan"]
                      ELSE [job EXCEPT !.batch = @ \ {Min(job.batch)}, !.told = TRUE]
    <2>1. /\ Same(new, job) /\ new.tells = job.tells
          /\ IF job.batch = {} THEN new.step = "plan"
             ELSE new.step = job.step /\ new.batch = job.batch \ {Min(job.batch)}
      BY <1>0 DEF Jobs, Same
    <2>2. Become(job, new) /\ job.step = "hide"
      BY <1>5 DEF Hide
    <2> HIDE DEF new
    <2> QED
      BY <2>1, <2>2
  <1>6. ASSUME StartRegenerate(job), summary.text
        PROVE  \E new : /\ Become(job, new) /\ Same(new, job)
                       /\ new.step = "ask" /\ new.tells = summary.tells
    <2>1. PICK batch : Become(job, [job EXCEPT !.step = "ask", !.tells = summary.tells, !.batch = batch])
      BY <1>6 DEF StartRegenerate
    <2> DEFINE new == [job EXCEPT !.step = "ask", !.tells = summary.tells, !.batch = batch]
    <2>2. Same(new, job) /\ new.step = "ask" /\ new.tells = summary.tells
      BY <1>0 DEF Jobs, Same
    <2>3. Become(job, new)
      BY <2>1
    <2> HIDE DEF new
    <2> QED
      BY <2>2, <2>3
  <1>7. ASSUME Fail(job)
        PROVE  \E new : Become(job, new) /\ new.marker = job.marker /\ new.step = "unmark"
    <2> DEFINE new == [job EXCEPT !.step = "unmark", !.row = FALSE]
    <2>1. new.marker = job.marker /\ new.step = "unmark"
      BY <1>0 DEF Jobs
    <2>2. Become(job, new)
      BY <1>7 DEF Fail
    <2> HIDE DEF new
    <2> QED
      BY <2>1, <2>2
  <1>8. ASSUME (EndLoop(job) /\ job.told) \/ WriteMarker(job)
        PROVE  \E new : Become(job, new) /\ Same(new, job) /\ new.step = "complete"
    <2> DEFINE new == [job EXCEPT !.step = "complete"]
    <2>1. Same(new, job) /\ new.step = "complete"
      BY <1>0 DEF Jobs, Same
    <2>2. Become(job, new)
      BY <1>8 DEF EndLoop, WriteMarker
    <2> HIDE DEF new
    <2> QED
      BY <2>1, <2>2
  <1> QED
    BY <1>1, <1>2, <1>3, <1>4, <1>5, <1>6, <1>7, <1>8

-----------------------------------------------------------------------------
(* Markers *)

\* What each marker waits for is still to come.
LEMMA MarkersKept ==
    ASSUME MarkersFollowJobs, UNCHANGED <<markers, issued>>,
           \A marker \in markers : Awaited(marker.id) => Awaited(marker.id)'
    PROVE  MarkersFollowJobs'
  BY DEF MarkersFollowJobs

\* Markers go, with the rows of their jobs; what others wait for stays.
LEMMA MarkersGo ==
    ASSUME TypeOK, MarkersFollowJobs, NEW ids, NEW rest \in SUBSET jobs,
           jobs' = RowsWithout(ids, rest), \A job \in jobs \ rest : job.marker \in ids,
           \A marker \in markers' : marker \in markers /\ marker.id \notin ids,
           \A h \in handlers : h \in handlers' \/ h.marker \in ids,
           UNCHANGED <<issued, cut>>
    PROVE  MarkersFollowJobs'
  <1>0. rest \in SUBSET Jobs
    BY DEF TypeOK
  <1>1. ASSUME NEW marker \in markers', ~marker.body PROVE Awaited(marker.id)'
    <2>1. Awaited(marker.id) /\ marker.id \notin ids
      BY <1>1 DEF MarkersFollowJobs
    <2>2. ASSUME NEW job \in jobs, job.marker = marker.id PROVE job \in jobs'
      <3>1. job \in rest /\ job.marker \notin ids
        BY <2>1, <2>2
      <3> QED
        BY <1>0, <3>1, RowsOf
    <2> QED
      BY <2>1, <2>2 DEF Awaited, Makes
  <1> QED
    BY <1>1 DEF MarkersFollowJobs

\* A job takes a step, and its marker waits for it still.
LEMMA MarkersWait ==
    ASSUME MarkersFollowJobs, NEW job \in jobs, NEW new, Become(job, new),
           new.marker = job.marker, Makes(job) => Makes(new), UNCHANGED <<markers, issued, handlers, cut>>
    PROVE  MarkersFollowJobs'
  <1>1. jobs' = (jobs \ {job}) \cup {new}
    BY DEF Become
  <1>2. ASSUME NEW id, NEW old \in jobs, old.marker = id, Makes(old)
        PROVE  \E other \in jobs' : other.marker = id /\ Makes(other)
    <2>1. CASE old = job
      BY <1>1, <1>2, <2>1
    <2>2. CASE old # job
      BY <1>1, <1>2, <2>2
    <2> QED
      BY <2>1, <2>2
  <1>3. \A id : Awaited(id) => Awaited(id)'
    BY <1>2 DEF Awaited, Makes
  <1> QED
    BY <1>3, MarkersKept

\* A job has written its marker.
LEMMA MarkersWritten ==
    ASSUME MarkersFollowJobs, NEW job \in jobs, NEW new, Become(job, new),
           UNCHANGED <<issued, handlers, cut>>,
           \A written \in markers' : \E marker \in markers :
               /\ written.id = marker.id
               /\ IF marker.id = job.marker THEN written.body ELSE written.body = marker.body,
           \A a, b \in markers' : a.id = b.id => a = b
    PROVE  MarkersFollowJobs'
  <1>1. jobs' = (jobs \ {job}) \cup {new}
    BY DEF Become
  <1>2. ASSUME NEW written \in markers'
        PROVE  written.id <= issued /\ (~written.body => Awaited(written.id)')
    <2>1. PICK marker \in markers :
              /\ written.id = marker.id
              /\ IF marker.id = job.marker THEN written.body ELSE written.body = marker.body
      OBVIOUS
    <2>2. ASSUME ~written.body PROVE Awaited(written.id)'
      <3>1. marker.id # job.marker /\ ~marker.body
        BY <2>1, <2>2
      <3>2. Awaited(marker.id)
        BY <3>1 DEF MarkersFollowJobs
      <3>3. ASSUME NEW other \in jobs, other.marker = marker.id PROVE other \in jobs'
        BY <1>1, <3>1, <3>3
      <3> QED
        BY <2>1, <3>2, <3>3 DEF Awaited, Makes
    <2> QED
      BY <2>1, <2>2 DEF MarkersFollowJobs
  <1> QED
    BY <1>2 DEF MarkersFollowJobs

LEMMA MarkersRequest ==
    ASSUME TypeOK, MarkersFollowJobs, Request \/ Crash
    PROVE  MarkersFollowJobs'
  <1>0. /\ issued \in Nat
        /\ \A job \in jobs : job \in Jobs
        /\ \A marker \in markers : marker \in Markers /\ marker.id \in Nat
    <2>1. issued \in Nat /\ jobs \in SUBSET Jobs /\ markers \in SUBSET Markers
      BY DEF TypeOK
    <2> QED
      BY <2>1 DEF Markers
  <1>1. CASE Send
    <2>1. UNCHANGED <<markers, jobs, handlers, issued, cut>>
      BY <1>1 DEF Send
    <2>2. \A id : Awaited(id)' = Awaited(id)
      BY <2>1 DEF Awaited, Makes
    <2> QED
      BY <2>1, <2>2, MarkersKept
  <1>2. ASSUME NEW kind, NEW id \in 0..issued + 1, Asks(kind, id),
               \A new \in markers' : new \in markers \/ new.id = id,
               \A a, b \in markers' : a.id = b.id => a = b
        PROVE  MarkersFollowJobs'
    <2>1. /\ issued' = issued + 1 /\ UNCHANGED <<jobs, cut>>
          /\ handlers' = handlers \cup {Handler(issued + 1, kind, id)}
      BY <1>2 DEF Asks
    <2>2. Awaited(id)'
      <3> DEFINE h == Handler(issued + 1, kind, id)
      <3>1. h.marker = id
        BY DEF Handler
      <3>2. h \in handlers'
        BY <2>1
      <3> HIDE DEF h
      <3> QED
        BY <3>1, <3>2 DEF Awaited
    <2>3. \A other : Awaited(other) => Awaited(other)'
      BY <2>1 DEF Awaited, Makes
    <2>4. \A marker \in markers' : marker.id <= issued'
      BY <1>0, <1>2, <2>1 DEF MarkersFollowJobs
    <2>5. \A marker \in markers' : ~marker.body => Awaited(marker.id)'
      BY <1>2, <2>2, <2>3 DEF MarkersFollowJobs
    <2> QED
      BY <1>2, <2>4, <2>5 DEF MarkersFollowJobs
  <1>3. ASSUME NEW kind \in {"auto", "force"}, Summarize(kind) PROVE MarkersFollowJobs'
    <2>1. PICK plan \in Plans(kind) : markers' = markers \cup {NewMarker(issued + 1, FirstKept(plan))}
      BY <1>3 DEF Summarize
    <2>2. NewMarker(issued + 1, FirstKept(plan)).id = issued + 1
      BY DEF NewMarker
    <2>3. Asks(kind, issued + 1) /\ issued + 1 \in 0..issued + 1
      BY <1>0, <1>3 DEF Summarize
    <2>4. \A marker \in markers : marker.id < issued + 1
      BY <1>0 DEF MarkersFollowJobs
    <2>5. \A a, b \in markers' : a.id = b.id => a = b
      BY <1>0, <2>1, <2>2, <2>4 DEF MarkersFollowJobs
    <2> QED
      BY <1>2, <2>1, <2>2, <2>3, <2>5
  <1>4. ASSUME NEW marker \in markers, Regenerate(marker) PROVE MarkersFollowJobs'
    <2> DEFINE new == [marker EXCEPT !.body = FALSE]
    <2>1. new.id = marker.id
      BY <1>0 DEF Markers
    <2>2. markers' = (markers \ {marker}) \cup {new} /\ Asks("regenerate", marker.id)
      BY <1>4 DEF Regenerate
    <2> HIDE DEF new
    <2>3. marker.id \in 0..issued + 1
      BY <1>0 DEF MarkersFollowJobs
    <2>4. \A a, b \in markers' : a.id = b.id => a = b
      BY <2>1, <2>2 DEF MarkersFollowJobs
    <2> QED
      BY <1>2, <2>1, <2>2, <2>3, <2>4
  <1>5. CASE DeleteSummary
    <2>1. /\ UNCHANGED <<markers, jobs, issued, cut>>
          /\ handlers \subseteq handlers'
      BY <1>5 DEF DeleteSummary
    <2>2. \A id : Awaited(id) => Awaited(id)'
      BY <2>1 DEF Awaited, Makes
    <2> QED
      BY <2>1, <2>2, MarkersKept
  <1>6. ASSUME NEW message \in messages, Rewind(message) PROVE MarkersFollowJobs'
    <2> DEFINE gone == {marker \in markers : marker.before > message}
               ids == {marker.id : marker \in gone}
    <2>1. /\ markers' = markers \ gone /\ jobs' = RowsWithout(ids, jobs)
          /\ UNCHANGED <<issued, handlers, cut>>
      BY <1>6 DEF Rewind
    <2>2. \A marker \in markers : marker.id \in ids => marker \in gone
      BY DEF MarkersFollowJobs
    <2>3. \A marker \in markers' : marker \in markers /\ marker.id \notin ids
      BY <2>1, <2>2
    <2> HIDE DEF gone, ids
    <2> QED
      BY <2>1, <2>3, MarkersGo
  <1>7. ASSUME NEW job \in jobs, Cancel(job) PROVE MarkersFollowJobs'
    <2>1. /\ UNCHANGED <<markers, issued, cut>> /\ jobs \ {job} \subseteq jobs'
          /\ handlers' = handlers \cup {Handler(job.id, "cancel", job.marker)}
      BY <1>7 DEF Cancel
    <2>2. Handler(job.id, "cancel", job.marker).marker = job.marker
      BY DEF Handler
    <2>3. \A id : Awaited(id) => Awaited(id)'
      BY <2>1, <2>2 DEF Awaited, Makes
    <2> QED
      BY <2>1, <2>3, MarkersKept
  <1>8. CASE Crash
    <2>1. /\ jobs' = {NewJob(job.id, job.kind, job.marker) : job \in {j \in jobs : j.row}}
          /\ cut' = cut \cup {h.marker : h \in handlers}
                        \cup {job.marker : job \in {j \in jobs : j.step = "unmark"}}
          /\ UNCHANGED <<markers, issued>>
      BY <1>8 DEF Crash
    <2>2. \A job : /\ Makes(NewJob(job.id, job.kind, job.marker))
                   /\ NewJob(job.id, job.kind, job.marker).marker = job.marker
      BY DEF NewJob, Makes
    <2>3. ASSUME NEW job \in jobs, Makes(job)
          PROVE  job.marker \in cut' \/ \E new \in jobs' : new.marker = job.marker /\ Makes(new)
      <3>1. CASE job.row
        BY <2>1, <2>2, <3>1
      <3>2. CASE job.step = "unmark"
        BY <2>1, <3>2
      <3> QED
        BY <2>3, <3>1, <3>2 DEF Makes
    <2>4. \A id : Awaited(id) => Awaited(id)'
      BY <2>1, <2>3 DEF Awaited, Makes
    <2> QED
      BY <2>1, <2>4, MarkersKept
  <1> QED
    BY <1>1, <1>3, <1>4, <1>5, <1>6, <1>7, <1>8 DEF Request

LEMMA MarkersHandler ==
    ASSUME TypeOK, MarkersFollowJobs, NEW h \in handlers, HandlerStep(h)
    PROVE  MarkersFollowJobs'
  <1>1. CASE Enqueue(h)
    <2>1. UNCHANGED <<markers, issued, cut>> /\ handlers' = handlers \ {h}
      BY <1>1 DEF Enqueue
    <2>2. CASE h.marker \in MarkerIds
      <3> DEFINE made == NewJob(h.id, h.kind, h.marker)
      <3>1. jobs' = jobs \cup {made}
        BY <1>1, <2>2 DEF Enqueue
      <3>2. made.marker = h.marker /\ Makes(made)
        BY DEF NewJob, Makes
      <3> HIDE DEF made
      <3>3. \A id : Awaited(id) => Awaited(id)'
        BY <2>1, <3>1, <3>2 DEF Awaited, Makes
      <3> QED
        BY <2>1, <3>3, MarkersKept
    <2>3. CASE h.marker \notin MarkerIds
      <3>1. \A marker \in markers : marker.id # h.marker
        BY <2>3 DEF MarkerIds
      <3>2. UNCHANGED jobs
        BY <1>1, <2>3 DEF Enqueue
      <3>3. \A marker \in markers : Awaited(marker.id) => Awaited(marker.id)'
        BY <2>1, <3>1, <3>2 DEF Awaited, Makes
      <3> QED
        BY <2>1, <3>3, MarkersKept
    <2> QED
      BY <2>2, <2>3
  <1>2. CASE ClearHidden(h)
    <2> DEFINE on == [h EXCEPT !.kind = "delete"]
    <2>1. on.marker = h.marker
      BY DEF TypeOK, Handlers
    <2>2. /\ UNCHANGED <<markers, jobs, issued, cut>>
          /\ handlers' = (handlers \ {h}) \cup {on}
      BY <1>2 DEF ClearHidden
    <2> HIDE DEF on
    <2>3. \A id : Awaited(id) => Awaited(id)'
      BY <2>1, <2>2 DEF Awaited, Makes
    <2> QED
      BY <2>2, <2>3, MarkersKept
  <1>3. CASE DeleteMarkers(h)
    <2>1. markers' = {}
      BY <1>3 DEF DeleteMarkers
    <2> QED
      BY <2>1 DEF MarkersFollowJobs
  <1>4. CASE CancelGoesOn(h)
    <2>1. /\ jobs' = RowsWithout({h.marker}, jobs) /\ handlers' = handlers \ {h}
          /\ UNCHANGED <<issued, cut>>
          /\ markers' = {marker \in markers : marker.id # h.marker}
      BY <1>4 DEF CancelGoesOn, RemoveMarker
    <2> QED
      BY <2>1, MarkersGo
  <1> QED
    BY <1>1, <1>2, <1>3, <1>4 DEF HandlerStep

LEMMA MarkersJob ==
    ASSUME TypeOK, MarkersFollowJobs, NEW job \in jobs, JobStep(job)
    PROVE  MarkersFollowJobs'
  <1>0. /\ UNCHANGED <<issued, handlers, cut>>
        /\ \A marker \in markers : marker \in Markers
    BY DEF TypeOK, JobStep, Start, NextBatch, EndLoop, Answer, Fail, FailGoesOn, Store, Hide,
           StartRegenerate, WriteMarker, Complete
  <1>1. ASSUME \/ Start(job) \/ NextBatch(job) \/ Answer(job) \/ Store(job) \/ Hide(job)
               \/ StartRegenerate(job) /\ summary.text
        PROVE  MarkersFollowJobs'
    <2>1. UNCHANGED markers /\ job.step \notin {"complete", "unmark"}
      BY <1>1 DEF Start, NextBatch, Answer, Store, Hide, StartRegenerate
    <2>2. \E new : Become(job, new) /\ Same(new, job) /\ new.step # "complete"
      BY <1>1, JobMoves
    <2>3. PICK new : Become(job, new) /\ Same(new, job) /\ new.step # "complete"
      BY <2>2
    <2>4. new.marker = job.marker /\ (Makes(job) => Makes(new))
      BY <2>1, <2>3 DEF Same, Makes
    <2> QED
      BY <1>0, <2>1, <2>3, <2>4, MarkersWait
  <1>2. ASSUME Fail(job) PROVE MarkersFollowJobs'
    <2>1. PICK new : Become(job, new) /\ new.marker = job.marker /\ new.step = "unmark"
      BY <1>2, JobMoves
    <2>2. UNCHANGED markers /\ Makes(new)
      BY <1>2, <2>1 DEF Fail, Makes
    <2> QED
      BY <1>0, <2>1, <2>2, MarkersWait
  <1>3. ASSUME EndsWithoutMarker(job) PROVE MarkersFollowJobs'
    <2>1. /\ jobs' = RowsWithout({job.marker}, jobs \ {job})
          /\ markers' = {marker \in markers : marker.id # job.marker}
      BY <1>3 DEF EndsWithoutMarker, RemoveMarker
    <2> QED
      BY <1>0, <2>1, MarkersGo
  <1>4. ASSUME (EndLoop(job) /\ job.told) \/ WriteMarker(job) PROVE MarkersFollowJobs'
    <2> DEFINE told(marker) == [marker EXCEPT !.body = TRUE, !.before = job.anchor]
               again(marker) == [marker EXCEPT !.body = TRUE]
    <2>1. \A marker \in markers : /\ told(marker).id = marker.id /\ told(marker).body
                                  /\ again(marker).id = marker.id /\ again(marker).body
      BY <1>0 DEF Markers
    <2>2. \/ markers' = {IF marker.id = job.marker THEN told(marker) ELSE marker : marker \in markers}
          \/ markers' = {IF marker.id = job.marker THEN again(marker) ELSE marker : marker \in markers}
      BY <1>4 DEF EndLoop, WriteMarker
    <2> HIDE DEF told, again
    <2>3. \A new \in markers' : \E marker \in markers :
               /\ new.id = marker.id
               /\ IF marker.id = job.marker THEN new.body ELSE new.body = marker.body
      BY <2>1, <2>2
    <2>4. \A a, b \in markers' : a.id = b.id => a = b
      <3>1. CASE markers' = {IF marker.id = job.marker THEN told(marker) ELSE marker : marker \in markers}
        BY <2>1, <3>1 DEF MarkersFollowJobs
      <3>2. CASE markers' = {IF marker.id = job.marker THEN again(marker) ELSE marker : marker \in markers}
        BY <2>1, <3>2 DEF MarkersFollowJobs
      <3> QED
        BY <2>2, <3>1, <3>2
    <2>5. PICK new : Become(job, new)
      BY <1>4, JobMoves
    <2> QED
      BY <1>0, <2>3, <2>4, <2>5, MarkersWritten
  <1>5. ASSUME Complete(job) PROVE MarkersFollowJobs'
    <2>1. jobs' = jobs \ {job} /\ job.step = "complete" /\ UNCHANGED markers
      BY <1>5 DEF Complete
    <2>2. ~Makes(job)
      BY <2>1 DEF Makes
    <2>3. \A id : Awaited(id) => Awaited(id)'
      BY <1>0, <2>1, <2>2 DEF Awaited, Makes
    <2> QED
      BY <1>0, <2>1, <2>3, MarkersKept
  <1>6. FailGoesOn(job) \/ (StartRegenerate(job) /\ ~summary.text) \/ (EndLoop(job) /\ ~job.told)
            => EndsWithoutMarker(job)
    BY DEF FailGoesOn, StartRegenerate, EndLoop, NothingTold
  <1> QED
    BY <1>1, <1>2, <1>3, <1>4, <1>5, <1>6 DEF JobStep

LEMMA MarkersStep ==
    ASSUME TypeOK, MarkersFollowJobs, Next
    PROVE  MarkersFollowJobs'
  <1>1. ASSUME NEW h \in handlers, DropHandler(h) PROVE MarkersFollowJobs'
    <2>1. /\ UNCHANGED <<markers, jobs, issued>>
          /\ handlers' = handlers \ {h} /\ cut' = cut \cup {h.marker}
      BY <1>1 DEF DropHandler
    <2>2. \A id : Awaited(id) => Awaited(id)'
      BY <2>1 DEF Awaited, Makes
    <2> QED
      BY <2>1, <2>2, MarkersKept
  <1> QED
    BY <1>1, MarkersRequest, MarkersHandler, MarkersJob DEF Next

-----------------------------------------------------------------------------
(* What a calm chat has hidden *)

LEMMA NoOther ==
    ASSUME Alone, NEW job \in jobs
    PROVE  jobs \ {job} = {} /\ \A ids : RowsWithout(ids, jobs \ {job}) = {}
  <1>1. jobs \ {job} = {}
    BY DEF Alone
  <1>2. \A ids : RowsWithout(ids, {}) = {}
    BY DEF RowsWithout
  <1> QED
    BY <1>1, <1>2

\* What a job ends with that ends.
LEMMA JobEnds ==
    ASSUME Alone, NEW job \in jobs,
           Complete(job) \/ FailGoesOn(job) \/ (EndLoop(job) /\ ~job.told)
           \/ (StartRegenerate(job) /\ ~summary.text)
    PROVE  jobs' = {} /\ UNCHANGED <<messages, hidden, summary, handlers>>
  <1>1. jobs' = jobs \ {job} \/ jobs' = RowsWithout({job.marker}, jobs \ {job})
    BY DEF Complete, FailGoesOn, EndLoop, NothingTold, StartRegenerate, EndsWithoutMarker, RemoveMarker
  <1>2. UNCHANGED <<messages, hidden, summary, handlers>>
    BY DEF Complete, FailGoesOn, EndLoop, StartRegenerate
  <1> QED
    BY <1>1, <1>2, NoOther

LEMMA CalmBefore ==
    ASSUME Next, calm'
    PROVE  calm
  <1>1. CASE Request
    BY <1>1 DEF Request, Send, Summarize, Regenerate, Asks, DeleteSummary, Rewind, Cancel
  <1>2. ASSUME NEW h \in handlers, HandlerStep(h) PROVE calm
    BY <1>2 DEF HandlerStep, Enqueue, ClearHidden, DeleteMarkers, CancelGoesOn
  <1>3. ASSUME NEW job \in jobs, JobStep(job) PROVE calm
    BY <1>3 DEF JobStep, Start, NextBatch, EndLoop, Answer, Fail, FailGoesOn, Store, Hide,
                StartRegenerate, WriteMarker, Complete
  <1>4. CASE Crash \/ \E h \in handlers : DropHandler(h)
    BY <1>4 DEF Crash, DropHandler
  <1> QED
    BY <1>1, <1>2, <1>3, <1>4 DEF Next

\* No two tasks, and none beside a rewind or a deletion.
LEMMA AloneStep ==
    ASSUME TypeOK, Alone, Next, calm'
    PROVE  Alone'
  <1>0. jobs \in SUBSET Jobs /\ \A i, j \in jobs : i = j
    BY DEF TypeOK, Alone
  <1>1. ASSUME NEW ids, jobs' = RowsWithout(ids, jobs) PROVE Alone'
    <2>1. ASSUME NEW a \in jobs', NEW b \in jobs' PROVE a = b
      <3>1. PICK i \in jobs : IF i.marker \in ids THEN Live(i) /\ a = [i EXCEPT !.row = FALSE] ELSE a = i
        BY <1>0, <1>1, RowsOf
      <3>2. PICK j \in jobs : IF j.marker \in ids THEN Live(j) /\ b = [j EXCEPT !.row = FALSE] ELSE b = j
        BY <1>0, <1>1, RowsOf
      <3>3. i = j
        BY <1>0
      <3>4. CASE i.marker \in ids
        BY <3>1, <3>2, <3>3, <3>4
      <3>5. CASE i.marker \notin ids
        BY <3>1, <3>2, <3>3, <3>5
      <3> QED
        BY <3>4, <3>5
    <2> QED
      BY <2>1 DEF Alone
  <1>2. ASSUME UNCHANGED jobs PROVE Alone'
    BY <1>2 DEF Alone
  <1>3. ASSUME NEW job \in jobs, JobStep(job) PROVE Alone'
    <2>1. \/ \E new : Become(job, new)
          \/ Complete(job) \/ FailGoesOn(job) \/ (EndLoop(job) /\ ~job.told)
          \/ (StartRegenerate(job) /\ ~summary.text)
      BY <1>3, JobMoves DEF JobStep
    <2>2. jobs' = {} \/ \E new : jobs' = {new}
      <3>1. ASSUME NEW new, Become(job, new) PROVE jobs' = {new}
        BY <3>1, NoOther DEF Become
      <3>2. ASSUME ~ \E new : Become(job, new) PROVE jobs' = {}
        BY <2>1, <3>2, JobEnds
      <3> QED
        BY <3>1, <3>2
    <2> QED
      BY <2>2 DEF Alone
  <1>4. CASE Send \/ DeleteSummary
    BY <1>2, <1>4 DEF Send, DeleteSummary
  <1>5. ASSUME NEW kind, Summarize(kind) PROVE Alone'
    BY <1>2, <1>5 DEF Summarize, Asks
  <1>6. ASSUME NEW marker, Regenerate(marker) PROVE Alone'
    BY <1>2, <1>6 DEF Regenerate, Asks
  <1>7. ASSUME NEW message \in messages, Rewind(message) PROVE Alone'
    BY <1>1, <1>7 DEF Rewind
  <1>8. ASSUME NEW job \in jobs, Cancel(job) PROVE Alone'
    <2>1. jobs' = Settled(job)
      BY <1>8, NoOther DEF Cancel
    <2> QED
      BY <2>1 DEF Alone, Settled
  <1>9. ASSUME NEW h \in handlers, HandlerStep(h) PROVE Alone'
    <2>1. CASE Enqueue(h)
      BY <1>2, <2>1 DEF Enqueue, Alone
    <2>2. CASE ClearHidden(h)
      BY <1>2, <2>2 DEF ClearHidden
    <2>3. CASE DeleteMarkers(h) \/ CancelGoesOn(h)
      BY <1>1, <2>3 DEF DeleteMarkers, CancelGoesOn, RemoveMarker
    <2> QED
      BY <1>9, <2>1, <2>2, <2>3 DEF HandlerStep
  <1>10. CASE Crash
    <2>1. jobs' = {NewJob(job.id, job.kind, job.marker) : job \in {j \in jobs : j.row}}
      BY <1>10 DEF Crash
    <2> QED
      BY <1>0, <2>1 DEF Alone
  <1>11. ASSUME NEW h \in handlers, DropHandler(h) PROVE Alone'
    BY <1>2, <1>11 DEF DropHandler
  <1> QED
    BY <1>3, <1>4, <1>5, <1>6, <1>7, <1>8, <1>9, <1>10, <1>11 DEF Next, Request

\* A job that has not begun, or has only its marker to remove, knows nothing.
LEMMA IdleKnows ==
    ASSUME Idle'
    PROVE  \A job \in jobs' : Live(job) => Knows(job)'
  BY DEF Idle, Live, Knows

\* Between the first two statements of a deletion no job begins.
LEMMA ClearingStep ==
    ASSUME TypeOK, Clearing, Idle, Next, calm'
    PROVE  Idle' /\ (Clearing' \/ Ordered')
  <1>0. jobs \in SUBSET Jobs /\ \A job \in jobs : job.step \in {"queued", "unmark"}
    BY DEF TypeOK, Idle
  <1>1. PICK c \in handlers : c.kind = "clear"
    BY DEF Clearing
  <1>2. ASSUME NEW ids, NEW rest \in SUBSET jobs, jobs' = RowsWithout(ids, rest) PROVE Idle'
    <2>1. \A new \in jobs' : \E job \in jobs : new.step = job.step
      BY <1>0, <1>2, RowsOf
    <2> QED
      BY <1>0, <2>1 DEF Idle
  <1>3. ASSUME handlers \subseteq handlers' PROVE Clearing'
    BY <1>1, <1>3 DEF Clearing
  <1>4. ASSUME UNCHANGED jobs PROVE Idle'
    BY <1>4 DEF Idle
  <1>5. CASE Request
    <2>1. CASE Send \/ DeleteSummary
      BY <1>3, <1>4, <2>1 DEF Send, DeleteSummary
    <2>2. CASE (\E kind \in {"auto", "force"} : Summarize(kind)) \/ \E marker \in markers : Regenerate(marker)
      BY <1>3, <1>4, <2>2 DEF Summarize, Regenerate, Asks
    <2>3. CASE \E message \in messages : Rewind(message)
      BY <1>2, <1>3, <2>3 DEF Rewind
    <2>4. ASSUME NEW job \in jobs, Cancel(job) PROVE Idle' /\ Clearing'
      <3>1. jobs' = (jobs \ {job}) \cup Settled(job) /\ handlers \subseteq handlers'
        BY <2>4 DEF Cancel
      <3>2. [job EXCEPT !.row = FALSE].step = job.step
        BY <1>0 DEF Jobs
      <3>3. \A new \in Settled(job) : new.step = job.step
        BY <3>2 DEF Settled
      <3> QED
        BY <1>0, <1>3, <3>1, <3>3 DEF Idle
    <2> QED
      BY <1>5, <2>1, <2>2, <2>3, <2>4 DEF Request
  <1>6. ASSUME NEW h \in handlers, HandlerStep(h) PROVE Idle' /\ (Clearing' \/ Ordered')
    <2>1. CASE Enqueue(h)
      <3>1. h # c /\ handlers' = handlers \ {h}
        BY <1>1, <2>1 DEF Enqueue, JobKinds
      <3>2. jobs' = jobs \/ jobs' = jobs \cup {NewJob(h.id, h.kind, h.marker)}
        BY <2>1 DEF Enqueue
      <3>3. NewJob(h.id, h.kind, h.marker).step = "queued"
        BY DEF NewJob
      <3> QED
        BY <1>0, <1>1, <3>1, <3>2, <3>3 DEF Idle, Clearing
    <2>2. CASE ClearHidden(h)
      BY <1>4, <2>2 DEF ClearHidden, Ordered
    <2>3. CASE DeleteMarkers(h) \/ CancelGoesOn(h)
      <3>1. h # c /\ handlers' = handlers \ {h}
        BY <1>1, <2>3 DEF DeleteMarkers, CancelGoesOn
      <3>2. \E ids : jobs' = RowsWithout(ids, jobs)
        BY <2>3 DEF DeleteMarkers, CancelGoesOn, RemoveMarker
      <3> QED
        BY <1>1, <1>2, <3>1, <3>2 DEF Clearing
    <2> QED
      BY <1>6, <2>1, <2>2, <2>3 DEF HandlerStep
  <1>7. ASSUME NEW job \in jobs, JobStep(job) PROVE Idle' /\ Clearing'
    <2>1. job.step \in {"queued", "unmark"}
      BY <1>0
    <2>2. ~Start(job) /\ ~StartRegenerate(job)
      BY DEF Start, StartRegenerate
    <2>3. Fail(job) \/ FailGoesOn(job)
      BY <1>7, <2>1, <2>2 DEF JobStep, NextBatch, EndLoop, Answer, Store, Hide, WriteMarker, Complete
    <2>4. CASE Fail(job)
      <3>1. PICK new : Become(job, new) /\ new.step = "unmark"
        BY <2>4, JobMoves
      <3> QED
        BY <1>0, <1>3, <2>4, <3>1 DEF Fail, Become, Idle
    <2>5. CASE FailGoesOn(job)
      <3>1. jobs' = RowsWithout({job.marker}, jobs \ {job}) /\ handlers' = handlers
        BY <2>5 DEF FailGoesOn, EndsWithoutMarker, RemoveMarker
      <3> QED
        BY <1>2, <1>3, <3>1
    <2> QED
      BY <2>3, <2>4, <2>5
  <1>8. ~Crash
    BY DEF Crash
  <1>9. ASSUME NEW h \in handlers, DropHandler(h) PROVE Idle' /\ Clearing'
    <2>1. h # c /\ handlers' = handlers \ {h} /\ UNCHANGED jobs
      BY <1>1, <1>9 DEF DropHandler
    <2>2. Clearing'
      BY <1>1, <2>1 DEF Clearing
    <2> QED
      BY <1>4, <2>1, <2>2
  <1> QED
    BY <1>5, <1>6, <1>7, <1>8, <1>9 DEF Next

\* A request leaves what is hidden in order, and a task with what it knows.
LEMMA OrderRequest ==
    ASSUME TypeOK, Ordered, \A job \in jobs : Live(job) => Knows(job), ~Clearing,
           Request \/ Crash \/ \E h \in handlers : HandlerStep(h) \/ DropHandler(h), calm'
    PROVE  \/ Idle' /\ Clearing'
           \/ Ordered' /\ ~Clearing' /\ \A job \in jobs' : Live(job) => Knows(job)'
  <1>0. jobs \in SUBSET Jobs
    BY DEF TypeOK
  <1>1. ASSUME UNCHANGED <<messages, hidden, summary>> PROVE Ordered'
    BY <1>1 DEF Ordered
  <1>2. ASSUME UNCHANGED <<messages, hidden, summary>>, NEW new \in jobs', NEW job \in jobs,
               new.step = job.step, new.kind = job.kind, new.tells = job.tells, new.batch = job.batch
        PROVE  Live(new) => Knows(new)'
    <2>1. Live(new) => Knows(job)
      BY <1>2 DEF Live
    <2>2. ActiveMessages' = ActiveMessages
      BY <1>2 DEF ActiveMessages
    <2>3. Foremost(new.batch)' = Foremost(job.batch)
      BY <1>2, <2>2 DEF Foremost
    <2> QED
      BY <1>2, <2>1, <2>3 DEF Knows
  <1>3. ASSUME NEW ids, jobs' = RowsWithout(ids, jobs), NoneLive PROVE \A job \in jobs' : ~Live(job)
    BY <1>0, <1>3, RowsOf DEF NoneLive, Live
  <1>4. CASE Send
    <2>1. messages' = messages \cup {sent + 1} /\ UNCHANGED <<hidden, summary, jobs>>
      BY <1>4 DEF Send
    <2>2. sent \in Nat /\ \A m \in messages : m \in Nat /\ m < sent + 1
      BY DEF TypeOK
    <2>3. Ordered'
      BY <2>1, <2>2 DEF Ordered, TypeOK
    <2>4. ActiveMessages' = ActiveMessages \cup {sent + 1}
      BY <2>1, <2>2 DEF ActiveMessages, TypeOK
    <2>5. ASSUME NEW batch, Foremost(batch) PROVE Foremost(batch)'
      <3>1. batch \subseteq ActiveMessages /\ ActiveMessages \subseteq messages
        BY <2>5 DEF Foremost, ActiveMessages
      <3>2. Cardinality(ActiveMessages' \ batch) >= KeepRecent
        <4> DEFINE old == ActiveMessages \ batch
                   new == ActiveMessages' \ batch
        <4>1. old \subseteq new /\ old \subseteq ActiveMessages
          BY <2>4
        <4>2. IsFiniteSet(old) /\ IsFiniteSet(ActiveMessages')
          <5>1. IsFiniteSet(ActiveMessages \cup {sent + 1})
            BY ActiveIds, FS_AddElement
          <5> QED
            BY <2>4, <4>1, <5>1, ActiveIds, FS_Subset
        <4>3. IsFiniteSet(new)
          BY <4>2, FS_Difference
        <4> HIDE DEF old, new
        <4>4. Cardinality(old) \in Nat /\ Cardinality(new) \in Nat /\ Cardinality(old) <= Cardinality(new)
          BY <4>1, <4>2, <4>3, FS_Subset, FS_CardinalityType
        <4>5. Cardinality(old) >= KeepRecent
          BY <2>5 DEF Foremost, old
        <4> QED
          BY <4>4, <4>5, SettingsAssumption DEF new
      <3>3. ASSUME NEW m \in batch, NEW k \in ActiveMessages', k < m PROVE k \in batch
        <4>1. m < sent + 1 /\ m \in Nat
          BY <2>2, <3>1
        <4>2. k # sent + 1
          BY <2>2, <3>3, <4>1
        <4> QED
          BY <2>4, <2>5, <3>3, <4>2 DEF Foremost
      <3> QED
        BY <2>4, <3>1, <3>2, <3>3 DEF Foremost
    <2>6. ASSUME NEW job \in jobs', Live(job) PROVE Knows(job)'
      <3>1. Knows(job)
        BY <2>1, <2>6
      <3> QED
        BY <2>1, <2>5, <3>1 DEF Knows
    <2>7. ~Clearing'
      BY <1>4 DEF Send, Clearing
    <2> QED
      BY <2>3, <2>6, <2>7
  <1>5. ASSUME UNCHANGED <<messages, hidden, summary, jobs>>
        PROVE  Ordered' /\ \A job \in jobs' : Live(job) => Knows(job)'
    BY <1>1, <1>2, <1>5
  <1>6. \A h \in handlers : h.kind # "clear"
    BY DEF Clearing
  <1>7. ASSUME NEW kind \in JobKinds, NEW marker, Asks(kind, marker) PROVE ~Clearing'
    <2>1. handlers' = handlers \cup {Handler(issued + 1, kind, marker)}
      BY <1>7 DEF Asks
    <2> QED
      BY <1>6, <2>1 DEF Clearing, Handler, JobKinds
  <1>8. CASE DeleteSummary
    <2>1. UNCHANGED jobs /\ NoneLive /\ handlers' = handlers \cup {Handler(events, "clear", 0)}
      BY <1>8 DEF DeleteSummary
    <2>2. Handler(events, "clear", 0).kind = "clear"
      BY DEF Handler
    <2>3. Clearing'
      BY <2>1, <2>2 DEF Clearing
    <2>4. Idle'
      BY <2>1 DEF Idle, NoneLive, Live
    <2> QED
      BY <2>3, <2>4
  <1>9. ASSUME NEW message \in messages, Rewind(message)
        PROVE  Ordered' /\ ~Clearing' /\ \A job \in jobs' : Live(job) => Knows(job)'
    <2>1. Ordered'
      BY <1>9 DEF Rewind, Ordered
    <2> QED
      BY <1>3, <1>9, <2>1 DEF Rewind, Clearing
  <1>10. ASSUME NEW job \in jobs, Cancel(job)
         PROVE  Ordered' /\ ~Clearing' /\ \A new \in jobs' : Live(new) => Knows(new)'
    <2>1. /\ jobs' = (jobs \ {job}) \cup Settled(job) /\ UNCHANGED <<messages, hidden, summary>>
          /\ handlers' = handlers \cup {Handler(job.id, "cancel", job.marker)}
      BY <1>10 DEF Cancel
    <2>2. ~Clearing'
      BY <1>6, <2>1 DEF Clearing, Handler
    <2>3. ASSUME NEW new \in jobs' PROVE Live(new) => Knows(new)'
      <3> DEFINE settled == [job EXCEPT !.row = FALSE]
      <3>1. /\ settled.step = job.step /\ settled.kind = job.kind
            /\ settled.tells = job.tells /\ settled.batch = job.batch
        BY <1>0 DEF Jobs
      <3>2. new \in jobs \/ new = settled
        BY <2>1 DEF Settled
      <3> HIDE DEF settled
      <3> QED
        BY <1>2, <2>1, <3>1, <3>2
    <2> QED
      BY <1>1, <2>1, <2>2, <2>3
  <1>11. CASE Crash
    <2>1. \A job \in jobs' : ~Live(job)
      BY <1>11 DEF Crash, NewJob, Live
    <2>2. ~Clearing'
      BY <1>11 DEF Crash, Clearing
    <2> QED
      BY <1>1, <1>11, <2>1, <2>2 DEF Crash
  <1>13. ASSUME NEW h \in handlers, DropHandler(h)
         PROVE  Ordered' /\ ~Clearing' /\ \A new \in jobs' : Live(new) => Knows(new)'
    <2>1. UNCHANGED <<messages, hidden, summary, jobs>> /\ handlers' = handlers \ {h}
      BY <1>13 DEF DropHandler
    <2>2. ~Clearing'
      BY <2>1 DEF Clearing
    <2> QED
      BY <1>1, <1>2, <2>1, <2>2
  <1>12. ASSUME NEW h \in handlers, HandlerStep(h)
         PROVE  Ordered' /\ ~Clearing' /\ \A new \in jobs' : Live(new) => Knows(new)'
    <2>1. ~ClearHidden(h)
      BY <1>6 DEF ClearHidden
    <2>2. UNCHANGED <<messages, hidden, summary>> /\ handlers' = handlers \ {h}
      BY <1>12, <2>1 DEF HandlerStep, Enqueue, DeleteMarkers, CancelGoesOn
    <2>3. ~Clearing'
      BY <1>6, <2>2 DEF Clearing
    <2>4. CASE Enqueue(h)
      <3>0. /\ jobs' = jobs \/ jobs' = jobs \cup {NewJob(h.id, h.kind, h.marker)}
            /\ ~Live(NewJob(h.id, h.kind, h.marker))
        BY <2>4 DEF Enqueue, NewJob, Live
      <3>1. ASSUME NEW job \in jobs', Live(job) PROVE job \in jobs
        BY <3>0, <3>1
      <3> QED
        BY <1>1, <1>2, <2>2, <2>3, <3>1
    <2>5. CASE DeleteMarkers(h) \/ CancelGoesOn(h)
      <3>1. PICK ids : jobs' = RowsWithout(ids, jobs)
        BY <2>5 DEF DeleteMarkers, CancelGoesOn, RemoveMarker
      <3>2. ASSUME NEW new \in jobs' PROVE Live(new) => Knows(new)'
        <4>1. PICK old \in jobs : /\ new.step = old.step /\ new.kind = old.kind
                                 /\ new.tells = old.tells /\ new.batch = old.batch
          BY <1>0, <3>1, RowsOf
        <4> QED
          BY <1>2, <2>2, <4>1
      <3> QED
        BY <1>1, <2>2, <2>3, <3>2
    <2> QED
      BY <1>12, <2>1, <2>4, <2>5 DEF HandlerStep
  <1>14. ASSUME NEW kind \in {"auto", "force"}, Summarize(kind)
         PROVE  Ordered' /\ ~Clearing' /\ \A job \in jobs' : Live(job) => Knows(job)'
    <2>1. Asks(kind, issued + 1) /\ kind \in JobKinds
      BY <1>14 DEF Summarize, JobKinds
    <2>2. UNCHANGED <<messages, hidden, summary, jobs>>
      BY <2>1 DEF Asks
    <2> QED
      BY <1>5, <1>7, <2>1, <2>2
  <1>15. ASSUME NEW marker \in markers, Regenerate(marker)
         PROVE  Ordered' /\ ~Clearing' /\ \A job \in jobs' : Live(job) => Knows(job)'
    <2>1. Asks("regenerate", marker.id) /\ "regenerate" \in JobKinds
      BY <1>15 DEF Regenerate, JobKinds
    <2>2. UNCHANGED <<messages, hidden, summary, jobs>>
      BY <2>1 DEF Asks
    <2> QED
      BY <1>5, <1>7, <2>1, <2>2
  <1> QED
    BY <1>4, <1>8, <1>9, <1>10, <1>11, <1>12, <1>13, <1>14, <1>15 DEF Request

\* The batch that is told is in the summary before any of it is hidden.
LEMMA OrderStep ==
    ASSUME TypeOK, Ordered, Alone, NEW job \in jobs, Live(job) => Knows(job), JobStep(job)
    PROVE  Ordered' /\ \A new \in jobs' : Live(new) => Knows(new)'
  <1>0. job \in Jobs /\ \A i \in jobs : i = job
    BY DEF TypeOK, Alone
  <1>1. ASSUME NEW new, Become(job, new) PROVE jobs' = {new}
    BY <1>0, <1>1 DEF Become
  <1>2. ASSUME UNCHANGED <<messages, hidden, summary>>
        PROVE  Ordered' /\ \A batch : Foremost(batch)' = Foremost(batch)
    BY <1>2 DEF Ordered, Foremost, ActiveMessages
  <1>3. CASE Start(job)
    <2>1. PICK new : Become(job, new) /\ Same(new, job) /\ new.step = "plan" /\ new.tells = summary.tells
      BY <1>3, JobMoves
    <2>2. job.kind # "regenerate" /\ UNCHANGED <<messages, hidden, summary>>
      BY <1>3 DEF Start
    <2>3. Knows(new)'
      BY <2>1, <2>2 DEF Knows, Same
    <2> QED
      BY <1>1, <1>2, <2>1, <2>2, <2>3
  <1>4. CASE NextBatch(job)
    <2>1. PICK new : /\ Become(job, new) /\ Same(new, job) /\ new.step = "ask" /\ new.tells = job.tells
                     /\ Foremost(new.batch)
      BY <1>4, JobMoves
    <2>2. job.step = "plan" /\ UNCHANGED <<messages, hidden, summary>>
      BY <1>4 DEF NextBatch
    <2>3. job.kind # "regenerate" /\ job.tells = summary.tells
      BY <2>2 DEF Knows, Live
    <2>4. Knows(new)'
      BY <1>2, <2>1, <2>2, <2>3 DEF Knows, Same
    <2> QED
      BY <1>1, <1>2, <2>1, <2>2, <2>4
  <1>5. CASE Answer(job)
    <2>1. PICK new : /\ Become(job, new) /\ Same(new, job) /\ new.step = "store"
                     /\ new.tells = job.tells \cup job.batch /\ new.batch = job.batch
      BY <1>5, JobMoves
    <2>2. job.step = "ask" /\ UNCHANGED <<messages, hidden, summary>>
      BY <1>5 DEF Answer
    <2>3. Knows(job)
      BY <2>2 DEF Live
    <2>4. Knows(new)'
      BY <1>2, <2>1, <2>2, <2>3 DEF Knows, Same
    <2> QED
      BY <1>1, <1>2, <2>1, <2>2, <2>4
  <1>6. CASE Store(job)
    <2>1. PICK new : /\ Become(job, new) /\ Same(new, job)
                     /\ new.step = (IF job.kind = "regenerate" THEN "mark" ELSE "hide")
                     /\ new.tells = job.tells /\ new.batch = job.batch
      BY <1>6, JobMoves
    <2>2. /\ job.step = "store" /\ UNCHANGED <<messages, hidden>>
          /\ summary' = [text |-> TRUE, tells |-> job.tells]
      BY <1>6 DEF Store
    <2>3. Knows(job)
      BY <2>2 DEF Live
    <2>4. summary'.tells = job.tells /\ summary.tells \subseteq job.tells
      BY <2>2, <2>3 DEF Knows
    <2>5. Ordered'
      BY <2>2, <2>4 DEF Ordered
    <2>6. \A batch : Foremost(batch)' = Foremost(batch)
      BY <2>2 DEF Foremost, ActiveMessages
    <2>7. Knows(new)'
      BY <2>1, <2>2, <2>3, <2>4, <2>6 DEF Knows, Same
    <2> QED
      BY <1>1, <2>1, <2>5, <2>7
  <1>7. CASE Hide(job)
    <2>1. PICK new : /\ Become(job, new) /\ Same(new, job) /\ new.tells = job.tells
                     /\ IF job.batch = {} THEN new.step = "plan"
                        ELSE new.step = "hide" /\ new.batch = job.batch \ {Min(job.batch)}
      BY <1>7, JobMoves
    <2>2. job.step = "hide" /\ UNCHANGED <<messages, summary>>
      BY <1>7 DEF Hide
    <2>3. Knows(job) /\ job.kind # "regenerate" /\ job.tells = summary.tells
      BY <2>2 DEF Live, Knows
    <2>4. CASE job.batch = {}
      <3>1. UNCHANGED hidden
        BY <1>7, <2>4 DEF Hide
      <3>2. Knows(new)'
        BY <2>1, <2>2, <2>3, <2>4 DEF Knows, Same
      <3> QED
        BY <1>1, <1>2, <2>1, <2>2, <3>1, <3>2
    <2>5. CASE job.batch # {}
      <3> DEFINE first == Min(job.batch)
      <3>1. Foremost(job.batch) /\ job.batch \subseteq summary.tells
        BY <2>2, <2>3 DEF Knows
      <3>2. job.batch \subseteq ActiveMessages /\ IsFiniteSet(job.batch) /\ job.batch \in SUBSET Nat
        BY <3>1, ActiveIds, FS_Subset DEF Foremost
      <3>3. first \in job.batch /\ \A m \in job.batch : first <= m
        BY <2>5, <3>2, LeastOf
      <3>4. hidden' = hidden \cup {first}
        BY <1>7, <2>5, <3>2, <3>3 DEF Hide, HiddenBy, ActiveMessages
      <3> HIDE DEF first
      <3>5. ActiveMessages' = ActiveMessages \ {first}
        BY <2>2, <3>4 DEF ActiveMessages
      <3>6. Ordered'
        <4>1. hidden' \subseteq summary'.tells
          BY <2>2, <3>1, <3>3, <3>4 DEF Ordered
        <4>2. ASSUME NEW m \in hidden', NEW k \in messages', k < m PROVE k \in hidden'
          <5>1. CASE m = first
            <6>1. k \notin job.batch
              BY <3>2, <3>3, <4>2, <5>1
            <6> QED
              BY <2>2, <3>1, <3>2, <3>3, <3>4, <4>2, <5>1, <6>1 DEF Foremost, ActiveMessages
          <5> QED
            BY <2>2, <3>4, <4>2, <5>1 DEF Ordered
        <4> QED
          BY <4>1, <4>2 DEF Ordered
      <3>7. Foremost(job.batch \ {first})'
        <4>1. ActiveMessages' \ (job.batch \ {first}) = ActiveMessages \ job.batch
          BY <3>3, <3>5
        <4> QED
          BY <3>1, <3>5, <4>1 DEF Foremost
      <3>8. new.step = "hide" /\ new.batch = job.batch \ {first} /\ new.kind = job.kind
        BY <2>1, <2>5 DEF first, Same
      <3>9. Knows(new)'
        BY <2>1, <2>2, <2>3, <3>1, <3>7, <3>8 DEF Knows
      <3> QED
        BY <1>1, <2>1, <3>6, <3>9
    <2> QED
      BY <2>4, <2>5
  <1>8. CASE StartRegenerate(job) /\ summary.text
    <2>1. PICK new : Become(job, new) /\ Same(new, job) /\ new.step = "ask" /\ new.tells = summary.tells
      BY <1>8, JobMoves
    <2>2. job.kind = "regenerate" /\ UNCHANGED <<messages, hidden, summary>>
      BY <1>8 DEF StartRegenerate
    <2>3. Knows(new)'
      BY <2>1, <2>2 DEF Knows, Same
    <2> QED
      BY <1>1, <1>2, <2>1, <2>2, <2>3
  <1>9. ASSUME Fail(job) \/ WriteMarker(job) \/ (EndLoop(job) /\ job.told)
        PROVE  Ordered' /\ \A new \in jobs' : Live(new) => Knows(new)'
    <2>1. UNCHANGED <<messages, hidden, summary>>
      BY <1>9 DEF Fail, WriteMarker, EndLoop
    <2>2. \E new : Become(job, new) /\ new.step \in {"complete", "unmark"}
      BY <1>9, JobMoves
    <2>3. PICK new : Become(job, new) /\ new.step \in {"complete", "unmark"}
      BY <2>2
    <2>4. Knows(new)'
      BY <2>3 DEF Knows
    <2> QED
      BY <1>1, <1>2, <2>1, <2>3, <2>4
  <1>10. CASE \/ Complete(job) \/ FailGoesOn(job) \/ (EndLoop(job) /\ ~job.told)
              \/ (StartRegenerate(job) /\ ~summary.text)
    BY <1>2, <1>10, JobEnds
  <1> QED
    BY <1>3, <1>4, <1>5, <1>6, <1>7, <1>8, <1>9, <1>10 DEF JobStep

\* What the invariant says of a calm chat, one step on.
LEMMA SoundStep ==
    ASSUME TypeOK, Alone, Sound, Next, calm'
    PROVE  IF Clearing' THEN Idle' ELSE Ordered' /\ \A job \in jobs' : Live(job) => Knows(job)'
  <1>1. CASE Clearing
    BY <1>1, ClearingStep, IdleKnows DEF Sound
  <1>2. CASE ~Clearing
    <2>1. Ordered /\ \A job \in jobs : Live(job) => Knows(job)
      BY <1>2 DEF Sound, Informed
    <2>2. ASSUME NEW job \in jobs, JobStep(job)
          PROVE  Ordered' /\ ~Clearing' /\ \A new \in jobs' : Live(new) => Knows(new)'
      <3>1. UNCHANGED handlers
        BY <2>2 DEF JobStep, Start, NextBatch, EndLoop, Answer, Fail, FailGoesOn, Store, Hide,
                    StartRegenerate, WriteMarker, Complete
      <3>2. ~Clearing'
        BY <1>2, <3>1 DEF Clearing
      <3> QED
        BY <2>1, <2>2, <3>2, OrderStep
    <2> QED
      BY <1>2, <2>1, <2>2, OrderRequest DEF Next
  <1> QED
    BY <1>1, <1>2

-----------------------------------------------------------------------------
(* Theorems *)

LEMMA SummaryInit == Init => SummaryInv
  <1> SUFFICES ASSUME Init PROVE SummaryInv
    OBVIOUS
  <1>1. TypeOK
    BY BoundsAssumption DEF Init, TypeOK, NoSummary
  <1>2. MarkersFollowJobs /\ Alone
    BY DEF Init, MarkersFollowJobs, Alone
  <1>3. Sound
    BY DEF Init, Sound, Clearing, Ordered, Informed, NoSummary
  <1> QED
    BY <1>1, <1>2, <1>3 DEF SummaryInv

LEMMA SummaryStep == SummaryInv /\ [Next]_vars => SummaryInv'
  <1> SUFFICES ASSUME SummaryInv, [Next]_vars PROVE SummaryInv'
    OBVIOUS
  <1>0. TypeOK /\ MarkersFollowJobs
    BY DEF SummaryInv
  <1>1. CASE Next
    <2>1. TypeOK' /\ MarkersFollowJobs'
      BY <1>0, <1>1, TypeStep, MarkersStep
    <2>2. ASSUME calm' PROVE Alone' /\ Sound'
      <3>1. Alone /\ Sound
        BY <1>1, <2>2, CalmBefore DEF SummaryInv
      <3>2. Alone'
        BY <1>0, <1>1, <2>2, <3>1, AloneStep
      <3>3. IF Clearing' THEN Idle' ELSE Ordered' /\ \A job \in jobs' : Live(job) => Knows(job)'
        BY <1>0, <1>1, <2>2, <3>1, SoundStep
      <3>4. (\A job \in jobs' : Live(job) => Knows(job)') => Informed'
        BY DEF Informed, Live, Knows, Foremost
      <3> QED
        BY <3>2, <3>3, <3>4 DEF Sound
    <2> QED
      BY <2>1, <2>2 DEF SummaryInv
  <1>2. CASE UNCHANGED vars
    <2>1. TypeOK' /\ MarkersFollowJobs'
      BY <1>0, <1>2 DEF vars, TypeOK, MarkersFollowJobs, Awaited, Makes
    <2>2. (calm => Alone /\ Sound)'
      <3>1. Informed' = Informed
        BY <1>2 DEF vars, Informed, Knows, Foremost, ActiveMessages, Live
      <3>2. /\ Ordered' = Ordered /\ Clearing' = Clearing /\ Idle' = Idle /\ Alone' = Alone
            /\ calm' = calm
        BY <1>2 DEF vars, Ordered, Clearing, Idle, Alone
      <3> QED
        BY <3>1, <3>2 DEF SummaryInv, Sound
    <2> QED
      BY <2>1, <2>2 DEF SummaryInv
  <1> QED
    BY <1>1, <1>2

\* Every variable keeps its type, whatever the bounds.
THEOREM TypeCorrect == Spec => []TypeOK
  <1>1. SummaryInv => TypeOK
    BY DEF SummaryInv
  <1> QED
    BY <1>1, SummaryInit, SummaryStep, PTL DEF Spec

\* What is hidden is told, and the oldest: between any two statements of a job and
\* after a crash, a failure or a cancel at any of them, a deletion's first two apart.
THEOREM NothingIsLost == Spec => []PromptLosesNothing
  <1>1. SummaryInv => PromptLosesNothing
    BY DEF SummaryInv, Sound, Ordered, PromptLosesNothing
  <1> QED
    BY <1>1, SummaryInit, SummaryStep, PTL DEF Spec

\* No marker says that it is being made when there is no job to make it and no handler
\* at work, unless a stop or a lost client cut the two statements that settle it; restarts at any other
\* point, cancels, failures and deletions leave none.
THEOREM MarkersSettle == Spec => []SettledMarkersAreWritten
  <1>1. SummaryInv => SettledMarkersAreWritten
    BY DEF SummaryInv, MarkersFollowJobs, Awaited, SettledMarkersAreWritten
  <1> QED
    BY <1>1, SummaryInit, SummaryStep, PTL DEF Spec
\* A batch is hidden without the messages that the settings keep, however many those
\* that came meanwhile.
THEOREM RecentStay == Spec => RecentMessagesStay
  <1>1. ASSUME SummaryInv, Next, calm, hidden' # hidden, hidden \subseteq hidden'
        PROVE  Cardinality(messages' \ hidden') >= KeepRecent
    <2>1. TypeOK /\ Sound
      BY <1>1 DEF SummaryInv
    <2>2. PICK job \in jobs : Hide(job) /\ job.batch # {}
      <3>1. CASE Request \/ Crash \/ \E h \in handlers : DropHandler(h)
        BY <1>1, <3>1 DEF Request, Send, Summarize, Regenerate, Asks, DeleteSummary, Rewind, Cancel, Crash,
                          DropHandler
      <3>2. ASSUME NEW h \in handlers, HandlerStep(h) PROVE FALSE
        BY <1>1, <3>2 DEF HandlerStep, Enqueue, ClearHidden, DeleteMarkers, CancelGoesOn
      <3>3. ASSUME NEW job \in jobs, JobStep(job) PROVE Hide(job) /\ job.batch # {}
        BY <1>1, <3>3 DEF JobStep, Start, NextBatch, EndLoop, Answer, Fail, FailGoesOn, Store, Hide,
                          StartRegenerate, WriteMarker, Complete
      <3> QED
        BY <1>1, <3>1, <3>2, <3>3 DEF Next
    <2>3. /\ job.step = "hide" /\ messages' = messages
          /\ hidden' = hidden \cup ({Min(job.batch)} \cap messages)
      BY <2>2 DEF Hide, HiddenBy
    <2>4. Foremost(job.batch)
      <3>1. ~Clearing
        BY <2>1, <2>3 DEF Sound, Idle
      <3>2. Knows(job)
        BY <2>1, <2>3, <3>1 DEF Sound, Informed, Live
      <3> QED
        BY <2>3, <3>2 DEF Knows
    <2> DEFINE rest == ActiveMessages \ job.batch
               kept == messages' \ hidden'
    <2>5. Min(job.batch) \in job.batch
      <3>1. job.batch \subseteq ActiveMessages
        BY <2>4 DEF Foremost
      <3>2. IsFiniteSet(job.batch) /\ job.batch \in SUBSET Nat
        BY <2>1, <3>1, ActiveIds, FS_Subset
      <3> QED
        BY <2>2, <3>2, LeastOf
    <2>6. rest \subseteq kept /\ kept \subseteq ActiveMessages
      BY <2>3, <2>5 DEF ActiveMessages
    <2>7. IsFiniteSet(ActiveMessages)
      BY <2>1, ActiveIds
    <2>8. Cardinality(rest) >= KeepRecent
      BY <2>4 DEF Foremost
    <2> HIDE DEF rest, kept
    <2>9. IsFiniteSet(kept) /\ IsFiniteSet(rest)
      BY <2>6, <2>7, FS_Subset
    <2>10. Cardinality(rest) \in Nat /\ Cardinality(kept) \in Nat /\ Cardinality(rest) <= Cardinality(kept)
      BY <2>6, <2>9, FS_Subset, FS_CardinalityType
    <2>11. Cardinality(kept) >= KeepRecent
      BY <2>8, <2>10, SettingsAssumption
    <2> QED
      BY <2>11 DEF kept
  <1>2. SummaryInv /\ [Next]_vars =>
            (calm /\ hidden' # hidden /\ hidden \subseteq hidden' => Cardinality(messages' \ hidden') >= KeepRecent)
    BY <1>1 DEF vars
  <1> QED
    BY <1>2, SummaryInit, SummaryStep, PTL DEF Spec, RecentMessagesStay
=============================================================================
