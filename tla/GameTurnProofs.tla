--------------------------- MODULE GameTurnProofs ---------------------------
(* Why the audits of a game's turns are its changes, whatever runs, stops and is asked *)
(* for in between.  While all is calm a turn has one job at most (Alone), and the       *)
(* invariant says of each turn what holds while no task works on it (Free) and what the *)
(* step of the one that does makes of it (Held).  A step of a job then has to be looked *)
(* at for its own turn only.                                                            *)
(*                                                                                      *)
(* Of the decks GameInv knows no type: the universe U that decks and results come from  *)
(* grows with every step.  DeckInv says what the deck shows: a replay and the list of all *)
(* results are recursive functions, and what they compute is shown by induction over a  *)
(* set (UpTo) of the lengths for which it holds.                                        *)
EXTENDS GameTurn, FiniteSetTheorems, SequenceTheorems, WellFoundedInduction, TLAPS

Phases == {"pending", "checks", "rolled", "prose", "done", "failed"}
Proses == [text : {"none", "thought", "prose"}, checks : Nat, results : Nat, changes : Nat]
Audits == Seq(Nat \X Nat)
Rows(U) == [id : Nat \ {0}, phase : Phases, checks : Seq(Nat), prose : Proses, results : Seq(U),
            audit : Audits, edited : BOOLEAN]
Rolling == {"declare", "insert", "rolled"}
Telling == {"stream", "results", "deck"}
Ending == {"close", "complete"}
Steps == {"queued", "audit", "recheck", "merge", "summarize"} \cup Rolling \cup Telling \cup Ending
Kinds == Narrators \cup {"recheck", "summarize"}
Jobs(U) == [kind : Kinds, turn : Nat, row : BOOLEAN, token : BOOLEAN, step : Steps, asked : Int,
            calls : Int, prose : Proses, results : Seq(U), audit : Audits, deck : U,
            seen : SUBSET Nat]

TypesOver(U) == turns \in Seq(Rows(U)) /\ jobs \subseteq Jobs(U)
Types ==
    /\ \E U : TypesOver(U)
    /\ changes \subseteq Nat \X Nat /\ IsFiniteSet(changes)
    /\ issued \in Nat /\ calm \in BOOLEAN

\* Which kinds of jobs are at which step, and what they hold by then.
Shape(job) ==
    /\ job.kind = "summarize" <=> job.turn = 0
    /\ job.step = "queued" => job = NewJob(job.kind, job.turn)
    /\ job.step \in Rolling \cup {"results", "deck"} => job.kind = "structured"
    /\ job.step \in {"stream", "audit"} \cup Ending => job.kind \in Narrators
    /\ job.step \in {"recheck", "merge"} => job.kind = "recheck"
    /\ job.step = "summarize" => job.kind = "summarize"
    /\ job.step = "declare" => job.prose.checks = 0
    /\ job.step \in Rolling => job.audit = <<>> /\ job.results = <<>>
    /\ job.kind \in Narrators => /\ job.prose.changes <= Len(job.audit)
                                 /\ job.prose.results <= Len(job.results)

Numbered ==
    /\ \A i \in DOMAIN turns : turns[i].id <= issued
    /\ \A i, k \in DOMAIN turns : turns[i].id = turns[k].id => i = k
    /\ \A job \in jobs : job.turn <= issued
    /\ \A c \in changes : c[1] <= issued

ChangesOf(id) == {c \in changes : c[1] = id}

\* The check markers of a turn name its checks in their order.
InOrder(turn) == \A k \in DOMAIN turn.checks : turn.checks[k] = k - 1
MarkersFit(turn) ==
    /\ turn.prose.checks <= Len(turn.checks)
    /\ turn.edited \/ turn.prose.results <= Len(turn.results)
    /\ turn.prose.changes <= Len(turn.audit)
Tells(turn) == HasContent(turn.prose) /\ MarkersFit(turn)

\* The turn that no task works on, of whose changes in the game's state ch is left.
Free(turn, ch) == ToSet(turn.audit) = ch /\ (turn.phase = "done" => Tells(turn))

\* The turn that the task of this job works on.
Rolled(turn, ch, job) ==
    /\ turn.audit = <<>> /\ ch = {}
    /\ job.step # "declare" => Len(turn.checks) = job.prose.checks
    /\ turn.phase # "done"
Told(turn, ch, job) ==
    /\ ToSet(job.audit) = ch
    /\ job.step = "audit" \/ ToSet(turn.audit) = ch
    /\ Len(turn.checks) = job.prose.checks
    /\ turn.phase # "done"
Held(turn, ch, job) ==
    /\ job.step \in Rolling => Rolled(turn, ch, job)
    /\ job.step \in Telling \cup {"audit"} => Told(turn, ch, job)
    /\ job.step = "close" => /\ ToSet(turn.audit) = ch /\ turn.prose = job.prose /\ MarkersFit(turn)
                             /\ turn.phase # "done"
    /\ job.step \in {"complete", "recheck"} => Free(turn, ch)
    /\ job.step = "recheck" => job.audit = turn.audit
    /\ job.step = "merge" => /\ ToSet(job.audit) = ch
                             /\ Len(turn.audit) <= Len(job.audit)
                             /\ turn.phase = "done" => Tells(turn)

Sound(turn, ch) == InOrder(turn) /\ ToSet(turn.audit) \subseteq ch
TurnInv(turn) ==
    /\ Sound(turn, ChangesOf(turn.id))
    /\ NoneLiveOn(turn.id) => Free(turn, ChangesOf(turn.id))
    /\ \A job \in jobs : Live(job) /\ job.turn = turn.id => Held(turn, ChangesOf(turn.id), job)

Alone == \A i, j \in jobs : i.turn = j.turn /\ i.turn # 0 => i = j
Placed ==
    /\ \A job \in jobs : job.turn # 0 => job.turn \in Ids
    /\ \A c \in changes : c[1] \in Ids
CalmInv == Alone /\ Placed /\ \A i \in DOMAIN turns : TurnInv(turns[i])

GameInv == Types /\ Numbered /\ (\A job \in jobs : Shape(job)) /\ (calm => CalmInv)

-----------------------------------------------------------------------------
(* Rows, audits and where a turn is                                         *)

LEMMA KindsAre == Narrators = {"structured", "prose"} /\ BoundsAssumption /\ MaxCalls \in Nat
  BY BoundsAssumption DEF Narrators

LEMMA NoProseIs == NoProse \in Proses /\ NoProse.checks = 0 /\ NoProse.results = 0 /\ NoProse.changes = 0
  BY DEF NoProse, Proses

\* The mark of the next result or change names one that is there, or the one to come.
LEMMA MarkFits ==
    ASSUME NEW prose \in Proses, NEW last \in Nat, NEW n \in Nat, last <= n,
           NEW mark \in Marked(prose, last, n + 1)
    PROVE  mark \in Nat /\ mark <= n + 1
  BY DEF Marked

\* A narration that begins: its phase and its prose are the turn's.
LEMMA NarratedIs ==
    ASSUME NEW U, NEW job, TurnOf(job) \in Rows(U), NEW prose \in Proses
    PROVE  LET row == Narrated(job, prose)
           IN /\ row \in Rows(U) /\ row.id = TurnOf(job).id /\ row.audit = TurnOf(job).audit
              /\ row.checks = TurnOf(job).checks /\ row.phase = "prose"
              /\ row.results = TurnOf(job).results
  <1>1. TurnOf(job).prose \in Proses
    BY DEF Rows
  <1>2. WithoutThoughts(TurnOf(job).prose) \in Proses
    BY <1>1 DEF Proses, WithoutThoughts
  <1> QED
    BY <1>1, <1>2 DEF Rows, Phases, Narrated

LEMMA AuditOf ==
    /\ <<>> \in Audits /\ Len(<<>>) = 0 /\ ToSet(<<>>) = {}
    /\ \A a \in Audits, x \in Nat \X Nat :
          /\ Append(a, x) \in Audits /\ Len(Append(a, x)) = Len(a) + 1 /\ Len(a) \in Nat
          /\ ToSet(Append(a, x)) = ToSet(a) \cup {x}
    /\ \A a \in Audits : Len(a) \in Nat /\ (Len(a) = 0 => a = <<>>) /\ ToSet(a) \subseteq Nat \X Nat
  <1>1. <<>> \in Audits /\ Len(<<>>) = 0 /\ ToSet(<<>>) = {}
    BY DEF ToSet, Audits
  <1>2. ASSUME NEW a \in Audits, NEW x \in Nat \X Nat
        PROVE  /\ Append(a, x) \in Audits /\ Len(Append(a, x)) = Len(a) + 1 /\ Len(a) \in Nat
               /\ ToSet(Append(a, x)) = ToSet(a) \cup {x}
    <2>1. a \in Seq(Nat \X Nat) /\ Len(a) \in Nat /\ DOMAIN a = 1..Len(a)
      BY DEF Audits
    <2>2. /\ Append(a, x) \in Seq(Nat \X Nat) /\ DOMAIN Append(a, x) = 1..Len(a) + 1
          /\ Len(Append(a, x)) = Len(a) + 1
          /\ Append(a, x)[Len(a) + 1] = x
          /\ \A i \in 1..Len(a) : Append(a, x)[i] = a[i]
      BY <2>1
    <2>3. \A i \in 1..Len(a) + 1 : i \in 1..Len(a) \/ i = Len(a) + 1
      BY <2>1
    <2>4. \A i \in 1..Len(a) : i \in 1..Len(a) + 1
      BY <2>1
    <2>5. Len(a) + 1 \in 1..Len(a) + 1
      BY <2>1
    <2>6. ToSet(Append(a, x)) \subseteq ToSet(a) \cup {x}
      BY <2>1, <2>2, <2>3 DEF ToSet
    <2>7. ToSet(a) \cup {x} \subseteq ToSet(Append(a, x))
      BY <2>1, <2>2, <2>4, <2>5 DEF ToSet
    <2> QED
      BY <2>1, <2>2, <2>6, <2>7 DEF Audits
  <1>3. ASSUME NEW a \in Audits
        PROVE  Len(a) \in Nat /\ (Len(a) = 0 => a = <<>>) /\ ToSet(a) \subseteq Nat \X Nat
    <2>1. a \in Seq(Nat \X Nat) /\ Len(a) \in Nat /\ DOMAIN a = 1..Len(a)
      BY DEF Audits
    <2>2. Len(a) = 0 => a = <<>>
      BY <2>1, EmptySeq
    <2> QED
      BY <2>1, <2>2 DEF ToSet
  <1> QED
    BY <1>1, <1>2, <1>3

\* What is known of results and decks grows.
LEMMA Grows ==
    ASSUME NEW U, NEW V, U \subseteq V
    PROVE  /\ Rows(U) \subseteq Rows(V) /\ Jobs(U) \subseteq Jobs(V)
           /\ TypesOver(U) => TypesOver(V)
  <1>1. Seq(U) \subseteq Seq(V)
    OBVIOUS
  <1>2. Rows(U) \subseteq Rows(V)
    BY <1>1 DEF Rows
  <1>3. Jobs(U) \subseteq Jobs(V)
    BY <1>1 DEF Jobs
  <1>4. Seq(Rows(U)) \subseteq Seq(Rows(V))
    BY <1>2
  <1> QED
    BY <1>2, <1>3, <1>4 DEF TypesOver

LEMMA IndexIs ==
    ASSUME Numbered, NEW id \in Ids
    PROVE  /\ IndexOf(id) \in DOMAIN turns /\ turns[IndexOf(id)].id = id
           /\ \A i \in DOMAIN turns : turns[i].id = id <=> i = IndexOf(id)
  <1>1. \E i \in DOMAIN turns : turns[i].id = id
    BY DEF Ids
  <1>2. IndexOf(id) \in DOMAIN turns /\ turns[IndexOf(id)].id = id
    BY <1>1 DEF IndexOf
  <1> QED
    BY <1>2 DEF Numbered

LEMMA UpdateIs ==
    ASSUME NEW U, TypesOver(U), NEW id, NEW row, Update(id, row), id \in Ids => row \in Rows(U) /\ row.id = id
    PROVE  /\ turns' \in Seq(Rows(U)) /\ DOMAIN turns' = DOMAIN turns /\ Len(turns') = Len(turns)
           /\ \A i \in DOMAIN turns : /\ turns'[i] = IF turns[i].id = id THEN row ELSE turns[i]
                                      /\ turns'[i].id = turns[i].id
           /\ Ids' = Ids
  <1>1. turns \in Seq(Rows(U)) /\ Len(turns) \in Nat /\ DOMAIN turns = 1..Len(turns)
    BY DEF TypesOver
  <1>2. turns' = [i \in 1..Len(turns) |-> IF turns[i].id = id THEN row ELSE turns[i]]
    BY <1>1 DEF Update
  <1>3. \A i \in 1..Len(turns) : /\ turns'[i] = IF turns[i].id = id THEN row ELSE turns[i]
                                 /\ turns'[i] \in Rows(U) /\ turns'[i].id = turns[i].id
    BY <1>1, <1>2 DEF Ids
  <1>4. turns' \in Seq(Rows(U)) /\ Len(turns') = Len(turns) /\ DOMAIN turns' = 1..Len(turns)
    BY <1>1, <1>2, <1>3, IsASeq
  <1> QED
    BY <1>1, <1>3, <1>4 DEF Ids

LEMMA RowStays ==
    ASSUME NEW U, TypesOver(U), Numbered, UNCHANGED turns, NEW job
    PROVE  Update(job.turn, TurnOf(job))
  <1>1. turns \in Seq(Rows(U))
    BY DEF TypesOver
  <1>2. \A i \in DOMAIN turns : turns[i].id = job.turn => turns[i] = TurnOf(job)
    BY IndexIs DEF TurnOf, Ids
  <1>3. turns' = [i \in DOMAIN turns |-> turns[i]]
    BY <1>1
  <1> QED
    BY <1>2, <1>3 DEF Update

LEMMA NewJobIs ==
    ASSUME NEW U, Deck(<<>>, {}, 0) \in U, NEW kind \in Kinds, NEW id \in Nat
    PROVE  LET job == NewJob(kind, id)
           IN /\ job \in Jobs(U) /\ job.kind = kind /\ job.turn = id /\ ~Live(job) /\ job.row
              /\ (kind = "summarize" <=> id = 0) => Shape(job)
  <1> DEFINE job == NewJob(kind, id)
  <1>1. <<>> \in Seq(U) /\ <<>> \in Audits /\ NoProse \in Proses /\ Len(<<>>) = 0
    BY NoProseIs DEF Audits
  <1>2. /\ job \in Jobs(U) /\ job.kind = kind /\ job.turn = id /\ job.step = "queued" /\ job.row
        /\ job.prose = NoProse /\ job.audit = <<>> /\ job.results = <<>>
    BY <1>1, KindsAre DEF NewJob, Jobs, Steps
  <1> HIDE DEF job
  <1> QED
    BY <1>1, <1>2, NoProseIs DEF Live, Shape, Rolling, Telling, Ending, job
-----------------------------------------------------------------------------
(* Steps of jobs                                                            *)

\* What a task finds of its turn,
Found(job) ==
    /\ Sound(TurnOf(job), ChangesOf(job.turn))
    /\ IF Live(job) THEN Held(TurnOf(job), ChangesOf(job.turn), job)
                    ELSE Free(TurnOf(job), ChangesOf(job.turn))

\* and what it leaves, for itself as it is in next, or when it ends.
Left(row, ch, next) ==
    /\ Sound(row, ch)
    /\ next = {} => Free(row, ch)
    /\ \A job \in next : Held(row, ch, job)

\* A change of the game's state by a task.
Changes(job) ==
    \/ changes' = changes /\ ChangesOf(job.turn)' = ChangesOf(job.turn)
    \/ /\ changes' = changes \cup {NewChange(job.turn)}
       /\ ChangesOf(job.turn)' = ChangesOf(job.turn) \cup {NewChange(job.turn)}
       /\ NewChange(job.turn) \in Nat \X Nat /\ NewChange(job.turn)[1] = job.turn
       /\ job.turn # 0

LEMMA NewChangeIs ==
    ASSUME Types, NEW id \in Nat
    PROVE  NewChange(id) \in Nat \X Nat /\ NewChange(id)[1] = id
  <1>1. ChangesOf(id) \subseteq changes /\ IsFiniteSet(changes)
    BY DEF Types, ChangesOf
  <1>2. IsFiniteSet(ChangesOf(id))
    BY <1>1, FS_Subset
  <1>3. Cardinality(ChangesOf(id)) \in Nat
    BY <1>2, FS_CardinalityType
  <1>4. 1 + Cardinality(ChangesOf(id)) \in Nat
    BY <1>3
  <1> QED
    BY <1>4 DEF NewChange, ChangesOf

LEMMA FoundIs ==
    ASSUME GameInv, NEW job \in jobs, calm, job.turn \in Ids
    PROVE  Found(job) /\ TurnOf(job) = turns[IndexOf(job.turn)] /\ TurnOf(job).id = job.turn
  <1>1. /\ IndexOf(job.turn) \in DOMAIN turns /\ TurnOf(job) = turns[IndexOf(job.turn)]
        /\ TurnOf(job).id = job.turn
    BY IndexIs DEF GameInv, TurnOf
  <1>2. TurnInv(TurnOf(job))
    BY <1>1 DEF GameInv, CalmInv
  <1>3. job.turn # 0
    <2>1. PICK U : turns \in Seq(Rows(U))
      BY DEF GameInv, Types, TypesOver
    <2>2. TurnOf(job) \in Rows(U)
      BY <1>1, <2>1
    <2> QED
      BY <1>1, <2>2 DEF Rows
  <1>4. ~Live(job) => NoneLiveOn(job.turn)
    BY <1>3 DEF GameInv, CalmInv, Alone, NoneLiveOn
  <1> QED
    BY <1>1, <1>2, <1>4 DEF TurnInv, Found

\* A step that concerns one turn: its row, its changes, its job.
LEMMA TurnGoesOn ==
    ASSUME GameInv, NEW V, TypesOver(V), NEW id \in Nat, NEW row,
           Update(id, row), id \in Ids => row \in Rows(V) /\ row.id = id,
           jobs' \subseteq Jobs(V), \A j \in jobs' : Shape(j),
           \A j \in jobs \cup jobs' : j.turn # 0 /\ j.turn # id => (j \in jobs' <=> j \in jobs),
           changes' \subseteq Nat \X Nat, IsFiniteSet(changes'),
           \A c \in changes' : c[1] # id => c \in changes,
           calm' => \A c \in changes : c[1] # id => c \in changes',
           id <= issued, UNCHANGED issued, calm' \in BOOLEAN, calm' => calm,
           calm' => \A j, k \in jobs' : j.turn = id /\ k.turn = id /\ id # 0 => j = k,
           calm' => id = 0 \/ id \in Ids,
           calm' => \A c \in changes' : c[1] = id => id \in Ids,
           calm' /\ id \in Ids =>
               /\ Sound(row, ChangesOf(id)')
               /\ NoneLiveOn(id)' => Free(row, ChangesOf(id)')
               /\ \A j \in jobs' : Live(j) /\ j.turn = id => Held(row, ChangesOf(id)', j)
    PROVE  GameInv'
  <1>1. /\ turns \in Seq(Rows(V)) /\ jobs \subseteq Jobs(V) /\ Numbered
    BY DEF GameInv, TypesOver
  <1>2. /\ turns' \in Seq(Rows(V)) /\ DOMAIN turns' = DOMAIN turns /\ Ids' = Ids
        /\ \A i \in DOMAIN turns : /\ turns'[i] = IF turns[i].id = id THEN row ELSE turns[i]
                                   /\ turns'[i].id = turns[i].id
    BY UpdateIs
  <1>3. Types'
    BY <1>2 DEF GameInv, Types, TypesOver
  <1>4. Numbered'
    <2>1. \A j \in jobs' : j.turn <= issued
      <3>1. issued \in Nat
        BY DEF GameInv, Types
      <3> QED
        BY <1>1, <3>1 DEF Numbered
    <2>2. \A i \in DOMAIN turns : turns'[i].id <= issued
      BY <1>1, <1>2 DEF Numbered
    <2>3. \A i, k \in DOMAIN turns : turns'[i].id = turns'[k].id => i = k
      BY <1>1, <1>2 DEF Numbered
    <2>4. \A c \in changes' : c[1] <= issued
      BY <1>1 DEF Numbered
    <2> QED
      BY <1>2, <2>1, <2>2, <2>3, <2>4 DEF Numbered
  <1>5. ASSUME calm' PROVE CalmInv'
    <2>1. CalmInv /\ calm
      BY <1>5 DEF GameInv
    <2>2. Alone'
      BY <1>5, <2>1 DEF CalmInv, Alone
    <2>3. Placed'
      <3>1. \A j \in jobs' : j.turn # 0 => j.turn \in Ids
        BY <1>5, <2>1 DEF CalmInv, Placed
      <3>2. \A c \in changes' : c[1] \in Ids
        BY <1>5, <2>1 DEF CalmInv, Placed
      <3> QED
        BY <1>2, <3>1, <3>2 DEF Placed
    <2>4. ASSUME NEW i \in DOMAIN turns, NEW m, m = turns[i].id
          PROVE  /\ Sound(turns'[i], ChangesOf(m)')
                 /\ NoneLiveOn(m)' => Free(turns'[i], ChangesOf(m)')
                 /\ \A j \in jobs' : Live(j) /\ j.turn = m => Held(turns'[i], ChangesOf(m)', j)
      <3>1. m # 0 /\ m \in Ids
        <4>1. turns[i] \in Rows(V)
          BY <1>1
        <4> QED
          BY <2>4, <4>1 DEF Rows, Ids
      <3>2. CASE m # id
        <4>1. turns'[i] = turns[i]
          BY <1>2, <2>4, <3>2
        <4>2. ChangesOf(m)' = ChangesOf(m)
          BY <1>5, <3>2 DEF ChangesOf
        <4>3. TurnInv(turns[i])
          BY <2>1 DEF CalmInv
        <4>4. \A j \in jobs' : j.turn = m => j \in jobs
          BY <3>1, <3>2
        <4>5. NoneLiveOn(m)' => NoneLiveOn(m)
          BY <3>1, <3>2 DEF NoneLiveOn
        <4> QED
          BY <2>4, <4>1, <4>2, <4>3, <4>4, <4>5 DEF TurnInv
      <3>3. CASE m = id
        <4>1. turns'[i] = row
          BY <1>2, <2>4, <3>3
        <4> QED
          BY <1>5, <3>1, <3>3, <4>1
      <3> QED
        BY <3>2, <3>3
    <2>5. ASSUME NEW i \in DOMAIN turns' PROVE TurnInv(turns[i])'
      <3>1. turns'[i].id = turns[i].id /\ i \in DOMAIN turns
        BY <1>2
      <3> QED
        BY <2>4, <3>1 DEF TurnInv
    <2> QED
      BY <1>2, <2>2, <2>3, <2>5 DEF CalmInv
  <1> QED
    BY <1>3, <1>4, <1>5 DEF GameInv

\* A step of a job, which may leave a summary to be written.
LEMMA WorkGoesOn ==
    ASSUME GameInv, NEW job \in jobs, NEW V, TypesOver(V), NEW next, NEW row, NEW more,
           jobs' = (jobs \ {job}) \cup next \cup more, \A m, n \in next : m = n,
           \A n \in next : n \in Jobs(V) /\ n.turn = job.turn /\ Live(n) /\ Shape(n),
           \A n \in more : n \in Jobs(V) /\ n.turn = 0 /\ Shape(n),
           Update(job.turn, row), job.turn \in Ids => row \in Rows(V) /\ row.id = job.turn,
           Changes(job), UNCHANGED issued, calm' \in BOOLEAN, calm' => calm,
           calm' /\ job.turn \in Ids /\ Found(job) => Left(row, ChangesOf(job.turn)', next)
    PROVE  GameInv'
  <1> DEFINE id == job.turn
  <1>1. /\ jobs \subseteq Jobs(V) /\ changes \subseteq Nat \X Nat
        /\ IsFiniteSet(changes) /\ id \in Nat /\ id <= issued
    BY DEF GameInv, Types, TypesOver, Jobs, Numbered
  <1>2. /\ changes' \subseteq Nat \X Nat /\ IsFiniteSet(changes')
        /\ \A c \in changes' : c[1] # id => c \in changes
        /\ \A c \in changes : c \in changes'
        /\ changes' = changes \/ id # 0
    <2>1. CASE changes' = changes
      BY <1>1, <2>1
    <2>2. CASE /\ changes' = changes \cup {NewChange(job.turn)}
               /\ NewChange(job.turn) \in Nat \X Nat /\ NewChange(job.turn)[1] = job.turn
               /\ job.turn # 0
      BY <1>1, <2>2, FS_AddElement
    <2> QED
      BY <2>1, <2>2 DEF Changes
  <1>3. jobs' \subseteq Jobs(V) /\ \A j \in jobs' : Shape(j)
    BY <1>1 DEF GameInv
  <1>4. \A j \in jobs \cup jobs' : j.turn # 0 /\ j.turn # id => (j \in jobs' <=> j \in jobs)
    OBVIOUS
  <1>5. ASSUME calm'
        PROVE  /\ \A j, k \in jobs' : j.turn = id /\ k.turn = id /\ id # 0 => j = k
               /\ id = 0 \/ id \in Ids
               /\ \A c \in changes' : c[1] = id => id \in Ids
    <2>1. Alone /\ Placed
      BY <1>5 DEF GameInv, CalmInv
    <2>2. \A j \in jobs' : j.turn = id /\ id # 0 => j \in next
      BY <2>1 DEF Alone
    <2>3. id = 0 \/ id \in Ids
      BY <2>1 DEF Placed
    <2>4. \A c \in changes' : c[1] = id => id \in Ids
      BY <1>2, <2>1, <2>3 DEF Placed
    <2> QED
      BY <2>2, <2>3, <2>4
  <1>6. ASSUME calm', id \in Ids
        PROVE  /\ Sound(row, ChangesOf(id)')
               /\ NoneLiveOn(id)' => Free(row, ChangesOf(id)')
               /\ \A j \in jobs' : Live(j) /\ j.turn = id => Held(row, ChangesOf(id)', j)
    <2>1. Left(row, ChangesOf(id)', next) /\ calm
      BY <1>6, FoundIs
    <2>2. id # 0
      <3>1. PICK i \in DOMAIN turns : turns[i].id = id
        BY <1>6 DEF Ids
      <3>2. turns[i] \in Rows(V)
        BY DEF TypesOver
      <3> QED
        BY <3>1, <3>2 DEF Rows
    <2>3. \A j \in jobs' : j.turn = id => j \in next
      BY <2>1, <2>2 DEF GameInv, CalmInv, Alone
    <2>4. NoneLiveOn(id)' => next = {}
      BY DEF NoneLiveOn
    <2> QED
      BY <2>1, <2>3, <2>4 DEF Left
  <1> HIDE DEF id
  <1>7. calm' => calm
    OBVIOUS
  <1> QED
    BY <1>1, <1>2, <1>3, <1>4, <1>5, <1>6, TurnGoesOn DEF id

LEMMA Roomy ==
    ASSUME Types, NEW S
    PROVE  \E U : TypesOver(U) /\ S \subseteq U
  <1>1. PICK U : TypesOver(U)
    BY DEF Types
  <1>2. U \subseteq U \cup S
    OBVIOUS
  <1>3. TypesOver(U \cup S)
    BY <1>1, <1>2, Grows
  <1> QED
    BY <1>3

\* What is known of a job and of its turn.
LEMMA JobIs ==
    ASSUME GameInv, NEW U, TypesOver(U), NEW job \in jobs
    PROVE  /\ job \in Jobs(U) /\ Shape(job) /\ job.turn \in Nat
           /\ job.kind # "summarize" => job.turn \in Nat \ {0}
           /\ job.turn \in Ids => TurnOf(job) \in Rows(U) /\ TurnOf(job).id = job.turn
  <1>1. job \in Jobs(U) /\ Shape(job) /\ turns \in Seq(Rows(U)) /\ Numbered
    BY DEF TypesOver, GameInv
  <1>2. job.turn \in Nat /\ job.kind \in Kinds
    BY <1>1 DEF Jobs
  <1>3. job.turn \in Ids => TurnOf(job) \in Rows(U) /\ TurnOf(job).id = job.turn
    BY <1>1, IndexIs DEF TurnOf
  <1> QED
    BY <1>1, <1>2, <1>3 DEF Shape

LEMMA Calmly ==
    ASSUME GameInv, UNCHANGED calm
    PROVE  calm' \in BOOLEAN /\ (calm' => calm)
  <1>1. calm \in BOOLEAN
    BY DEF GameInv, Types
  <1> QED
    BY <1>1, Zenon

LEMMA JobGoesOn ==
    ASSUME GameInv, NEW job \in jobs, NEW V, TypesOver(V), NEW next \in Jobs(V), NEW row,
           Become(job, next), next.turn = job.turn, Live(next), Shape(next),
           Update(job.turn, row), job.turn \in Ids => row \in Rows(V) /\ row.id = job.turn,
           Changes(job), UNCHANGED issued, calm' \in BOOLEAN, calm' => calm,
           calm' /\ job.turn \in Ids /\ Found(job) =>
               Sound(row, ChangesOf(job.turn)') /\ Held(row, ChangesOf(job.turn)', next)
    PROVE  GameInv'
  <1> DEFINE nexts == {next}
             more == {}
  <1>1. jobs' = (jobs \ {job}) \cup nexts \cup more /\ \A n : n \notin more
    BY DEF Become
  <1>2. \A n \in nexts : n = next
    OBVIOUS
  <1>3. calm' /\ job.turn \in Ids /\ Found(job) => Left(row, ChangesOf(job.turn)', nexts)
    BY DEF Left
  <1> HIDE DEF nexts, more
  <1>4. \A n \in nexts : n \in Jobs(V) /\ n.turn = job.turn /\ Live(n) /\ Shape(n)
    BY <1>2
  <1> QED
    BY <1>1, <1>2, <1>3, <1>4, WorkGoesOn

LEMMA JobEnds ==
    ASSUME GameInv, NEW job \in jobs, NEW V, TypesOver(V), NEW row, Ends(job),
           Update(job.turn, row), job.turn \in Ids => row \in Rows(V) /\ row.id = job.turn,
           Changes(job), UNCHANGED issued, calm' \in BOOLEAN, calm' => calm,
           calm' /\ job.turn \in Ids /\ Found(job) =>
               Sound(row, ChangesOf(job.turn)') /\ Free(row, ChangesOf(job.turn)')
    PROVE  GameInv'
  <1> DEFINE next == {}
  <1>1. jobs' = (jobs \ {job}) \cup next \cup next /\ \A n : n \notin next
    BY DEF Ends
  <1>2. calm' /\ job.turn \in Ids /\ Found(job) => Left(row, ChangesOf(job.turn)', next)
    BY DEF Left
  <1> HIDE DEF next
  <1> QED
    BY <1>1, <1>2, WorkGoesOn

\* A step that leaves the changes alone.
LEMMA NoChange ==
    ASSUME NEW job, UNCHANGED changes
    PROVE  Changes(job) /\ ChangesOf(job.turn)' = ChangesOf(job.turn)
  BY DEF Changes, ChangesOf

-----------------------------------------------------------------------------
(* The job of a turn                                                        *)

LEMMA StartGoesOn ==
    ASSUME GameInv, NEW job \in jobs, Start(job)
    PROVE  GameInv'
  <1>1. PICK U : TypesOver(U)
    BY DEF GameInv, Types
  <1>2. /\ job \in Jobs(U) /\ Shape(job) /\ job.turn \in Ids
        /\ TurnOf(job) \in Rows(U) /\ TurnOf(job).id = job.turn
    BY <1>1, JobIs DEF Start, TurnExists
  <1>3. job.audit = <<>> /\ job.prose = NoProse /\ job.results = <<>> /\ ~Live(job)
    BY <1>2 DEF Start, Shape, NewJob, Live
  <1>4. calm' \in BOOLEAN /\ (calm' => calm /\ ~Leftovers(job))
    <2>1. calm \in BOOLEAN
      BY DEF GameInv, Types
    <2> QED
      BY <2>1, Zenon DEF Start
  <1>5. ASSUME calm' PROVE TurnOf(job).audit = <<>> /\ ChangesOf(job.turn) = {}
    BY <1>4, <1>5 DEF Leftovers, ChangesOf
  <1>6. Changes(job) /\ ChangesOf(job.turn)' = ChangesOf(job.turn) /\ UNCHANGED issued
    BY NoChange DEF Start
  <1>7. CASE job.kind = "structured"
    <2> DEFINE next == [job EXCEPT !.step = "declare"]
               row == [TurnOf(job) EXCEPT !.phase = "checks"]
    <2>1. next \in Jobs(U) /\ next.turn = job.turn /\ Live(next) /\ Shape(next)
      BY <1>2, <1>3, <1>7, NoProseIs, AuditOf
      DEF Jobs, Steps, Live, Shape, Rolling, Telling, Ending, Narrators
    <2>2. row \in Rows(U) /\ row.id = job.turn
      BY <1>2 DEF Rows, Phases
    <2>3. ASSUME calm', Found(job)
          PROVE  Sound(row, ChangesOf(job.turn)) /\ Held(row, ChangesOf(job.turn), next)
      <3>1. next.step = "declare" /\ row.audit = <<>> /\ row.phase = "checks" /\ row.checks = TurnOf(job).checks
        BY <1>2, <1>5, <2>3 DEF Jobs, Rows
      <3> QED
        BY <1>2, <1>5, <2>3, <3>1, AuditOf
        DEF Found, Sound, InOrder, Held, Rolled, Rolling, Telling
    <2>4. Become(job, next) /\ Update(job.turn, row)
      BY <1>7 DEF Start
    <2> HIDE DEF next, row
    <2> QED
      BY <1>1, <1>4, <1>6, <2>1, <2>2, <2>3, <2>4, JobGoesOn
  <1>8. CASE job.kind = "prose"
    <2> DEFINE prose == Narration(Len(TurnOf(job).checks))
               next == [job EXCEPT !.step = "stream", !.prose = prose]
               row == Narrated(job, prose)
    <2>1. prose \in Proses /\ prose.checks = Len(TurnOf(job).checks) /\ prose.changes = 0 /\ prose.results = 0
      <3>1. Len(TurnOf(job).checks) \in Nat
        BY <1>2 DEF Rows
      <3> QED
        BY <3>1, NoProseIs DEF Narration, NoProse, Proses
    <2>2. next \in Jobs(U) /\ next.turn = job.turn /\ next.step = "stream" /\ next.prose = prose
          /\ next.kind = "prose" /\ next.audit = <<>> /\ next.results = <<>>
      BY <1>2, <1>3, <1>8, <2>1 DEF Jobs, Steps, Telling
    <2>3. /\ row \in Rows(U) /\ row.id = job.turn /\ row.audit = TurnOf(job).audit
          /\ row.checks = TurnOf(job).checks /\ row.phase = "prose"
      BY <1>2, <2>1, NarratedIs DEF TurnExists
    <2>4. Become(job, next) /\ Update(job.turn, row)
      BY <1>8, KindsAre DEF Start
    <2> HIDE DEF next, row, prose
    <2>5. Live(next) /\ Shape(next)
      BY <1>2, <1>8, <2>1, <2>2, AuditOf, EmptySeq
      DEF Live, Shape, Rolling, Telling, Ending, Narrators
    <2>6. ASSUME calm', Found(job)
          PROVE  Sound(row, ChangesOf(job.turn)) /\ Held(row, ChangesOf(job.turn), next)
      BY <1>2, <1>5, <2>1, <2>2, <2>3, <2>6, AuditOf
      DEF Found, Sound, InOrder, Held, Told, Rolling, Telling
    <2> QED
      BY <1>1, <1>4, <1>6, <2>2, <2>3, <2>4, <2>5, <2>6, JobGoesOn
  <1> QED
    BY <1>7, <1>8, KindsAre DEF Start

LEMMA DeclareGoesOn ==
    ASSUME GameInv, NEW job \in jobs, Declare(job)
    PROVE  GameInv'
  <1>1. PICK U : TypesOver(U)
    BY DEF GameInv, Types
  <1>2. /\ job \in Jobs(U) /\ Shape(job) /\ job.turn \in Ids /\ job.step = "declare"
        /\ TurnOf(job) \in Rows(U) /\ TurnOf(job).id = job.turn
    BY <1>1, JobIs DEF Declare, TurnExists
  <1>3. PICK n \in 0..MaxChecks : Become(job, [job EXCEPT !.step = "insert", !.asked = n])
    BY DEF Declare
  <1> DEFINE next == [job EXCEPT !.step = "insert", !.asked = n]
             row == [TurnOf(job) EXCEPT !.checks = <<>>]
  <1>4. /\ next \in Jobs(U) /\ next.turn = job.turn /\ next.step = "insert" /\ next.kind = job.kind
        /\ next.prose = job.prose /\ next.audit = job.audit /\ next.results = job.results
    <2>1. n \in Int
      BY <1>3
    <2> QED
      BY <1>2, <2>1 DEF Jobs, Steps, Rolling
  <1>5. /\ row \in Rows(U) /\ row.id = job.turn /\ row.audit = TurnOf(job).audit
        /\ row.checks = <<>> /\ row.phase = TurnOf(job).phase
    <2>1. <<>> \in Seq(Nat)
      OBVIOUS
    <2> QED
      BY <1>2, <2>1 DEF Rows
  <1>6. Become(job, next) /\ Update(job.turn, row) /\ Changes(job)
        /\ ChangesOf(job.turn)' = ChangesOf(job.turn) /\ UNCHANGED <<issued, calm>>
    BY <1>3, NoChange DEF Declare
  <1> HIDE DEF next, row
  <1>7. Live(next) /\ Shape(next)
    BY <1>2, <1>4 DEF Live, Shape, Rolling, Telling, Ending
  <1>8. ASSUME Found(job)
        PROVE  Sound(row, ChangesOf(job.turn)) /\ Held(row, ChangesOf(job.turn), next)
    BY <1>2, <1>4, <1>5, <1>8
    DEF Found, Live, Shape, Sound, InOrder, Held, Rolled, Rolling, Telling
  <1> QED
    BY <1>1, <1>4, <1>5, <1>6, <1>7, <1>8, JobGoesOn, Calmly

LEMMA InsertCheckGoesOn ==
    ASSUME GameInv, NEW job \in jobs, InsertCheck(job)
    PROVE  GameInv'
  <1>1. PICK U : TypesOver(U)
    BY DEF GameInv, Types
  <1>2. /\ job \in Jobs(U) /\ Shape(job) /\ job.turn \in Ids /\ job.step = "insert"
        /\ TurnOf(job) \in Rows(U) /\ TurnOf(job).id = job.turn
    BY <1>1, JobIs DEF InsertCheck, TurnExists
  <1>3. Changes(job) /\ ChangesOf(job.turn)' = ChangesOf(job.turn) /\ UNCHANGED <<issued, calm>>
    BY NoChange DEF InsertCheck
  <1> DEFINE n == job.prose.checks
  <1>4. n \in Nat /\ TurnOf(job).checks \in Seq(Nat) /\ job.asked \in Int
    BY <1>2 DEF Jobs, Proses, Rows
  <1>5. CASE n < job.asked
    <2> DEFINE next == [job EXCEPT !.prose = Narration(n + 1)]
               row == [TurnOf(job) EXCEPT !.checks = Append(@, n)]
    <2>1. /\ Narration(n + 1) \in Proses /\ Narration(n + 1).checks = n + 1
          /\ Narration(n + 1).changes = 0 /\ Narration(n + 1).results = 0
      <3>1. n + 1 \in Nat
        BY <1>4
      <3> QED
        BY <3>1, NoProseIs DEF Narration, Proses
    <2>2. /\ next \in Jobs(U) /\ next.turn = job.turn /\ next.step = "insert" /\ next.kind = job.kind
          /\ next.prose = Narration(n + 1) /\ next.audit = job.audit /\ next.results = job.results
      BY <1>2, <2>1 DEF Jobs
    <2>3. /\ row \in Rows(U) /\ row.id = job.turn /\ row.audit = TurnOf(job).audit
          /\ row.checks = Append(TurnOf(job).checks, n) /\ row.phase = TurnOf(job).phase
      <3>1. Append(TurnOf(job).checks, n) \in Seq(Nat)
        BY <1>4
      <3> QED
        BY <1>2, <3>1 DEF Rows
    <2>4. Become(job, next) /\ Update(job.turn, row)
      BY <1>5 DEF InsertCheck
    <2> HIDE DEF next, row
    <2>5. Live(next) /\ Shape(next)
      BY <1>2, <2>1, <2>2, AuditOf DEF Live, Shape, Rolling, Telling, Ending
    <2>6. ASSUME Found(job)
          PROVE  Sound(row, ChangesOf(job.turn)) /\ Held(row, ChangesOf(job.turn), next)
      <3>1. Rolled(TurnOf(job), ChangesOf(job.turn), job) /\ InOrder(TurnOf(job))
        BY <1>2, <2>6 DEF Found, Live, Held, Sound, Rolling
      <3>2. InOrder(row) /\ Len(row.checks) = n + 1
        BY <1>2, <1>4, <2>3, <3>1 DEF InOrder, Rolled
      <3> QED
        BY <2>1, <2>2, <2>3, <2>6, <3>1, <3>2 DEF Found, Sound, Held, Rolled, Rolling, Telling
    <2> QED
      BY <1>1, <1>3, <2>2, <2>3, <2>4, <2>5, <2>6, JobGoesOn, Calmly
  <1>6. CASE ~(n < job.asked)
    <2> DEFINE next == [job EXCEPT !.step = "rolled"]
               row == [TurnOf(job) EXCEPT !.phase = "rolled"]
    <2>1. /\ next \in Jobs(U) /\ next.turn = job.turn /\ next.step = "rolled" /\ next.kind = job.kind
          /\ next.prose = job.prose /\ next.audit = job.audit /\ next.results = job.results
      BY <1>2 DEF Jobs, Steps, Rolling
    <2>2. /\ row \in Rows(U) /\ row.id = job.turn /\ row.audit = TurnOf(job).audit
          /\ row.checks = TurnOf(job).checks /\ row.phase = "rolled"
      BY <1>2 DEF Rows, Phases
    <2>3. Become(job, next) /\ Update(job.turn, row)
      BY <1>6 DEF InsertCheck
    <2> HIDE DEF next, row
    <2>4. Live(next) /\ Shape(next)
      BY <1>2, <2>1 DEF Live, Shape, Rolling, Telling, Ending
    <2>5. ASSUME Found(job)
          PROVE  Sound(row, ChangesOf(job.turn)) /\ Held(row, ChangesOf(job.turn), next)
      BY <1>2, <2>1, <2>2, <2>5 DEF Found, Live, Sound, InOrder, Held, Rolled, Rolling, Telling
    <2> QED
      BY <1>1, <1>3, <2>1, <2>2, <2>3, <2>4, <2>5, JobGoesOn, Calmly
  <1> QED
    BY <1>5, <1>6

LEMMA NarrateGoesOn ==
    ASSUME GameInv, NEW job \in jobs, Narrate(job)
    PROVE  GameInv'
  <1>1. PICK U : TypesOver(U) /\ {deck} \subseteq U
    BY Roomy DEF GameInv
  <1>2. /\ job \in Jobs(U) /\ Shape(job) /\ job.turn \in Ids /\ job.step = "rolled"
        /\ TurnOf(job) \in Rows(U) /\ TurnOf(job).id = job.turn
    BY <1>1, JobIs DEF Narrate, TurnExists
  <1> DEFINE next == [job EXCEPT !.step = "stream", !.deck = deck]
             row == Narrated(job, job.prose)
  <1>3. /\ next \in Jobs(U) /\ next.turn = job.turn /\ next.step = "stream" /\ next.kind = job.kind
        /\ next.prose = job.prose /\ next.audit = job.audit /\ next.results = job.results
    BY <1>1, <1>2 DEF Jobs, Steps, Telling
  <1>4. /\ row \in Rows(U) /\ row.id = job.turn /\ row.audit = TurnOf(job).audit
        /\ row.checks = TurnOf(job).checks /\ row.phase = "prose"
    <2>1. job.prose \in Proses
      BY <1>2 DEF Jobs
    <2> QED
      BY <1>2, <2>1, NarratedIs
  <1>5. Become(job, next) /\ Update(job.turn, row) /\ Changes(job)
        /\ ChangesOf(job.turn)' = ChangesOf(job.turn) /\ UNCHANGED <<issued, calm>>
    BY NoChange DEF Narrate
  <1> HIDE DEF next, row
  <1>6. Live(next) /\ Shape(next)
    BY <1>2, <1>3 DEF Live, Shape, Rolling, Telling, Ending, Narrators
  <1>7. ASSUME Found(job)
        PROVE  Sound(row, ChangesOf(job.turn)) /\ Held(row, ChangesOf(job.turn), next)
    BY <1>2, <1>3, <1>4, <1>7, AuditOf
    DEF Found, Live, Shape, Sound, InOrder, Held, Rolled, Told, Rolling, Telling
  <1> QED
    BY <1>1, <1>3, <1>4, <1>5, <1>6, <1>7, JobGoesOn, Calmly

LEMMA StreamGoesOn ==
    ASSUME GameInv, NEW job \in jobs, Stream(job)
    PROVE  GameInv'
  <1>1. PICK U : TypesOver(U)
    BY DEF GameInv, Types
  <1>2. /\ job \in Jobs(U) /\ Shape(job) /\ job.step = "stream" /\ job.prose \in Proses
        /\ job.turn \in Ids => TurnOf(job) \in Rows(U) /\ TurnOf(job).id = job.turn
    BY <1>1, JobIs DEF Stream, Jobs
  <1>0. PICK text \in {"thought", "prose"} \ {job.prose.text} :
            Become(job, [job EXCEPT !.prose = [job.prose EXCEPT !.text = text]])
    BY DEF Stream
  <1> DEFINE prose == [job.prose EXCEPT !.text = text]
             next == [job EXCEPT !.prose = prose]
  <1>3. /\ prose \in Proses /\ prose.checks = job.prose.checks /\ prose.changes = job.prose.changes
        /\ prose.results = job.prose.results
    BY <1>2 DEF Proses
  <1>4. Become(job, next) /\ Update(job.turn, TurnOf(job)) /\ Changes(job)
        /\ ChangesOf(job.turn)' = ChangesOf(job.turn) /\ UNCHANGED <<issued, calm>>
    BY <1>0, <1>1, NoChange, RowStays DEF Stream, GameInv
  <1> HIDE DEF prose
  <1>5. /\ next \in Jobs(U) /\ next.turn = job.turn /\ next.step = "stream" /\ next.kind = job.kind
        /\ next.prose = prose /\ next.audit = job.audit /\ next.results = job.results
    BY <1>2, <1>3 DEF Jobs
  <1> HIDE DEF next
  <1>6. Live(next) /\ Shape(next)
    BY <1>2, <1>3, <1>5 DEF Live, Shape, Rolling, Telling, Ending
  <1>7. ASSUME Found(job)
        PROVE  Sound(TurnOf(job), ChangesOf(job.turn)) /\ Held(TurnOf(job), ChangesOf(job.turn), next)
    BY <1>2, <1>3, <1>5, <1>7 DEF Found, Live, Held, Told, Rolling, Telling
  <1> QED
    BY <1>1, <1>2, <1>4, <1>5, <1>6, <1>7, JobGoesOn, Calmly

\* What a step of the narration writes of the turn.
LEMMA FlushedIs ==
    ASSUME GameInv, NEW U, TypesOver(U), NEW job \in jobs
    PROVE  job.turn \in Ids =>
               LET row == Flushed(job)
               IN /\ row \in Rows(U) /\ row.id = job.turn /\ row.audit = TurnOf(job).audit
                  /\ row.checks = TurnOf(job).checks /\ row.phase = TurnOf(job).phase
  <1>1. job \in Jobs(U) /\ (job.turn \in Ids => TurnOf(job) \in Rows(U) /\ TurnOf(job).id = job.turn)
    BY JobIs
  <1>2. job.prose \in Proses
    BY <1>1 DEF Jobs
  <1> QED
    BY <1>1, <1>2 DEF Rows, Flushed

LEMMA CallToolGoesOn ==
    ASSUME GameInv, NEW job \in jobs, CallTool(job)
    PROVE  GameInv'
  <1>1. PICK outcome \in ToolOutcomes(job.deck),
            mark \in Marked(job.prose, job.prose.results, Len(job.results) + 1) :
            Become(job, [job EXCEPT !.step = "results", !.calls = job.calls - 1, !.deck = outcome.deck,
                                    !.results = Append(job.results, outcome.result),
                                    !.prose = [job.prose EXCEPT !.results = mark]])
    BY DEF CallTool
  <1>2. PICK U : TypesOver(U) /\ {outcome.deck, outcome.result} \subseteq U
    <2> DEFINE S == {outcome.deck, outcome.result}
    <2> HIDE DEF S
    <2>1. \E U : TypesOver(U) /\ S \subseteq U
      BY Roomy DEF GameInv
    <2> QED
      BY <2>1 DEF S
  <1>3. /\ job \in Jobs(U) /\ Shape(job) /\ job.step = "stream" /\ job.kind = "structured"
        /\ job.prose \in Proses /\ job.results \in Seq(U)
    BY <1>2, JobIs DEF CallTool, Jobs
  <1> DEFINE prose == [job.prose EXCEPT !.results = mark]
             results == Append(job.results, outcome.result)
             next == [job EXCEPT !.step = "results", !.calls = job.calls - 1, !.deck = outcome.deck,
                                 !.results = results, !.prose = prose]
             row == Flushed(job)
  <1>4. /\ prose \in Proses /\ prose.checks = job.prose.checks /\ prose.changes = job.prose.changes
        /\ prose.results <= Len(job.results) + 1
    <2>1. job.prose.results \in Nat /\ Len(job.results) \in Nat
      BY <1>3 DEF Proses
    <2>2. job.prose.results <= Len(job.results)
      BY <1>3, KindsAre DEF Shape
    <2>3. mark \in Nat /\ mark <= Len(job.results) + 1
      BY <1>1, <1>3, <2>1, <2>2, MarkFits
    <2> QED
      BY <1>3, <2>3 DEF Proses
  <1>5. results \in Seq(U) /\ Len(results) = Len(job.results) + 1
    BY <1>2, <1>3
  <1>6. Become(job, next) /\ Update(job.turn, row) /\ Changes(job)
        /\ ChangesOf(job.turn)' = ChangesOf(job.turn) /\ UNCHANGED <<issued, calm>>
    BY <1>1, NoChange DEF CallTool
  <1>7. job.turn \in Ids => /\ row \in Rows(U) /\ row.id = job.turn /\ row.audit = TurnOf(job).audit
                            /\ row.checks = TurnOf(job).checks /\ row.phase = TurnOf(job).phase
    BY <1>2, FlushedIs
  <1> HIDE DEF prose, results, row
  <1>8. /\ next \in Jobs(U) /\ next.turn = job.turn /\ next.step = "results" /\ next.kind = job.kind
        /\ next.prose = prose /\ next.audit = job.audit /\ next.results = results
    <2>1. job.calls - 1 \in Int /\ outcome.deck \in U
      BY <1>2, <1>3 DEF Jobs
    <2> QED
      BY <1>3, <1>4, <1>5, <2>1 DEF Jobs, Steps, Telling
  <1> HIDE DEF next
  <1>9. Live(next) /\ Shape(next)
    BY <1>3, <1>4, <1>5, <1>8 DEF Live, Shape, Rolling, Telling, Ending
  <1>10. ASSUME Found(job), job.turn \in Ids
         PROVE  Sound(row, ChangesOf(job.turn)) /\ Held(row, ChangesOf(job.turn), next)
    BY <1>3, <1>4, <1>7, <1>8, <1>10 DEF Found, Live, Sound, InOrder, Held, Told, Rolling, Telling
  <1> QED
    BY <1>2, <1>6, <1>7, <1>8, <1>9, <1>10, JobGoesOn, Calmly

LEMMA WriteResultsGoesOn ==
    ASSUME GameInv, NEW job \in jobs, WriteResults(job)
    PROVE  GameInv'
  <1>1. PICK U : TypesOver(U)
    BY DEF GameInv, Types
  <1>2. /\ job \in Jobs(U) /\ Shape(job) /\ job.step = "results"
        /\ job.turn \in Ids => TurnOf(job) \in Rows(U) /\ TurnOf(job).id = job.turn
    BY <1>1, JobIs DEF WriteResults
  <1> DEFINE next == [job EXCEPT !.step = "deck"]
             row == [TurnOf(job) EXCEPT !.results = job.results]
  <1>3. /\ next \in Jobs(U) /\ next.turn = job.turn /\ next.step = "deck" /\ next.kind = job.kind
        /\ next.prose = job.prose /\ next.audit = job.audit /\ next.results = job.results
    BY <1>2 DEF Jobs, Steps, Telling
  <1>4. job.turn \in Ids => /\ row \in Rows(U) /\ row.id = job.turn /\ row.audit = TurnOf(job).audit
                            /\ row.checks = TurnOf(job).checks /\ row.phase = TurnOf(job).phase
    BY <1>2 DEF Rows, Jobs
  <1>5. Become(job, next) /\ Update(job.turn, row) /\ Changes(job)
        /\ ChangesOf(job.turn)' = ChangesOf(job.turn) /\ UNCHANGED <<issued, calm>>
    BY NoChange DEF WriteResults
  <1> HIDE DEF next, row
  <1>6. Live(next) /\ Shape(next)
    BY <1>2, <1>3 DEF Live, Shape, Rolling, Telling, Ending
  <1>7. ASSUME Found(job), job.turn \in Ids
        PROVE  Sound(row, ChangesOf(job.turn)) /\ Held(row, ChangesOf(job.turn), next)
    BY <1>2, <1>3, <1>4, <1>7 DEF Found, Live, Sound, InOrder, Held, Told, Rolling, Telling
  <1> QED
    BY <1>1, <1>3, <1>4, <1>5, <1>6, <1>7, JobGoesOn, Calmly

LEMMA WriteDeckGoesOn ==
    ASSUME GameInv, NEW job \in jobs, WriteDeck(job)
    PROVE  GameInv'
  <1>1. PICK U : TypesOver(U)
    BY DEF GameInv, Types
  <1>2. job \in Jobs(U) /\ Shape(job) /\ job.step = "deck"
    BY <1>1, JobIs DEF WriteDeck
  <1> DEFINE next == [job EXCEPT !.step = "stream"]
             row == Flushed(job)
  <1>3. /\ next \in Jobs(U) /\ next.turn = job.turn /\ next.step = "stream" /\ next.kind = job.kind
        /\ next.prose = job.prose /\ next.audit = job.audit /\ next.results = job.results
    BY <1>2 DEF Jobs, Steps, Telling
  <1>4. job.turn \in Ids => /\ row \in Rows(U) /\ row.id = job.turn /\ row.audit = TurnOf(job).audit
                            /\ row.checks = TurnOf(job).checks /\ row.phase = TurnOf(job).phase
    BY <1>1, FlushedIs
  <1>5. Become(job, next) /\ Update(job.turn, row) /\ Changes(job)
        /\ ChangesOf(job.turn)' = ChangesOf(job.turn) /\ UNCHANGED <<issued, calm>>
    BY NoChange DEF WriteDeck
  <1> HIDE DEF next, row
  <1>6. Live(next) /\ Shape(next)
    BY <1>2, <1>3 DEF Live, Shape, Rolling, Telling, Ending, Narrators
  <1>7. ASSUME Found(job), job.turn \in Ids
        PROVE  Sound(row, ChangesOf(job.turn)) /\ Held(row, ChangesOf(job.turn), next)
    BY <1>2, <1>3, <1>4, <1>7 DEF Found, Live, Sound, InOrder, Held, Told, Rolling, Telling
  <1> QED
    BY <1>1, <1>3, <1>4, <1>5, <1>6, <1>7, JobGoesOn, Calmly

\* A change of the game's state that a job makes.
LEMMA OneChange ==
    ASSUME GameInv, NEW job, job.turn \in Nat \ {0}, changes' = changes \cup {NewChange(job.turn)}
    PROVE  /\ Changes(job) /\ NewChange(job.turn) \in Nat \X Nat
           /\ ChangesOf(job.turn)' = ChangesOf(job.turn) \cup {NewChange(job.turn)}
  <1>1. NewChange(job.turn) \in Nat \X Nat /\ NewChange(job.turn)[1] = job.turn
    BY NewChangeIs DEF GameInv
  <1> QED
    BY <1>1 DEF Changes, ChangesOf

LEMMA ApplyChangeGoesOn ==
    ASSUME GameInv, NEW job \in jobs, ApplyChange(job)
    PROVE  GameInv'
  <1>1. PICK U : TypesOver(U)
    BY DEF GameInv, Types
  <1>2. /\ job \in Jobs(U) /\ Shape(job) /\ job.step = "stream" /\ job.kind \in Narrators
        /\ job.prose \in Proses /\ job.audit \in Audits /\ job.turn \in Nat \ {0}
    BY <1>1, JobIs, KindsAre DEF ApplyChange, Jobs
  <1>0. PICK mark \in Marked(job.prose, job.prose.changes, Len(job.audit) + 1) :
            Become(job, [job EXCEPT !.step = "audit", !.calls = job.calls - 1,
                                    !.audit = Append(job.audit, NewChange(job.turn)),
                                    !.prose = [job.prose EXCEPT !.changes = mark]])
    BY DEF ApplyChange
  <1> DEFINE new == NewChange(job.turn)
             prose == [job.prose EXCEPT !.changes = mark]
             audit == Append(job.audit, new)
             next == [job EXCEPT !.step = "audit", !.calls = job.calls - 1, !.audit = audit,
                                 !.prose = prose]
             row == Flushed(job)
  <1>3. /\ prose \in Proses /\ prose.checks = job.prose.checks
        /\ prose.changes <= Len(job.audit) + 1 /\ prose.results = job.prose.results
    <2>1. job.prose.changes \in Nat /\ Len(job.audit) \in Nat
      BY <1>2, AuditOf DEF Proses
    <2>2. job.prose.changes <= Len(job.audit)
      BY <1>2 DEF Shape
    <2>3. mark \in Nat /\ mark <= Len(job.audit) + 1
      BY <1>0, <1>2, <2>1, <2>2, MarkFits
    <2> QED
      BY <1>2, <2>3 DEF Proses
  <1>4. Become(job, next) /\ Update(job.turn, row) /\ Changes(job) /\ new \in Nat \X Nat
        /\ ChangesOf(job.turn)' = ChangesOf(job.turn) \cup {new} /\ UNCHANGED <<issued, calm>>
    BY <1>0, <1>2, OneChange DEF ApplyChange
  <1>5. job.turn \in Ids => /\ row \in Rows(U) /\ row.id = job.turn /\ row.audit = TurnOf(job).audit
                            /\ row.checks = TurnOf(job).checks /\ row.phase = TurnOf(job).phase
    BY <1>1, FlushedIs
  <1> HIDE DEF prose, row, new
  <1>6. audit \in Audits /\ Len(audit) = Len(job.audit) + 1 /\ ToSet(audit) = ToSet(job.audit) \cup {new}
    BY <1>2, <1>4, AuditOf
  <1> HIDE DEF audit
  <1>7. /\ next \in Jobs(U) /\ next.turn = job.turn /\ next.step = "audit" /\ next.kind = job.kind
        /\ next.prose = prose /\ next.audit = audit /\ next.results = job.results
    <2>1. job.calls - 1 \in Int
      BY <1>2 DEF Jobs
    <2> QED
      BY <1>2, <1>3, <1>6, <2>1 DEF Jobs, Steps
  <1> HIDE DEF next
  <1>8. Live(next) /\ Shape(next)
    BY <1>2, <1>3, <1>6, <1>7, KindsAre DEF Live, Shape, Rolling, Telling, Ending
  <1>9. ASSUME Found(job), job.turn \in Ids
        PROVE  Sound(row, ChangesOf(job.turn)') /\ Held(row, ChangesOf(job.turn)', next)
    <2>1. Sound(TurnOf(job), ChangesOf(job.turn)) /\ Told(TurnOf(job), ChangesOf(job.turn), job)
      BY <1>2, <1>9 DEF Found, Live, Held, Telling
    <2>2. Sound(row, ChangesOf(job.turn)')
      BY <1>4, <1>5, <1>9, <2>1 DEF Sound, InOrder
    <2>3. Told(row, ChangesOf(job.turn)', next)
      BY <1>3, <1>4, <1>5, <1>6, <1>7, <1>9, <2>1 DEF Told
    <2> QED
      BY <1>7, <2>2, <2>3 DEF Held, Rolling, Telling
  <1> QED
    BY <1>1, <1>4, <1>5, <1>7, <1>8, <1>9, JobGoesOn, Calmly

LEMMA WriteAuditGoesOn ==
    ASSUME GameInv, NEW job \in jobs, WriteAudit(job)
    PROVE  GameInv'
  <1>1. PICK U : TypesOver(U)
    BY DEF GameInv, Types
  <1>2. /\ job \in Jobs(U) /\ Shape(job) /\ job.step = "audit"
        /\ job.turn \in Ids => TurnOf(job) \in Rows(U) /\ TurnOf(job).id = job.turn
    BY <1>1, JobIs DEF WriteAudit
  <1> DEFINE next == [job EXCEPT !.step = "stream"]
             row == [TurnOf(job) EXCEPT !.audit = job.audit, !.prose = job.prose]
  <1>3. /\ next \in Jobs(U) /\ next.turn = job.turn /\ next.step = "stream" /\ next.kind = job.kind
        /\ next.prose = job.prose /\ next.audit = job.audit /\ next.results = job.results
    BY <1>2 DEF Jobs, Steps, Telling
  <1>4. job.turn \in Ids => /\ row \in Rows(U) /\ row.id = job.turn /\ row.audit = job.audit
                            /\ row.checks = TurnOf(job).checks /\ row.phase = TurnOf(job).phase
    BY <1>2 DEF Rows, Jobs
  <1>5. Become(job, next) /\ Update(job.turn, row) /\ Changes(job)
        /\ ChangesOf(job.turn)' = ChangesOf(job.turn) /\ UNCHANGED <<issued, calm>>
    BY NoChange DEF WriteAudit
  <1> HIDE DEF next, row
  <1>6. Live(next) /\ Shape(next)
    BY <1>2, <1>3 DEF Live, Shape, Rolling, Telling, Ending
  <1>7. ASSUME Found(job), job.turn \in Ids
        PROVE  Sound(row, ChangesOf(job.turn)) /\ Held(row, ChangesOf(job.turn), next)
    BY <1>2, <1>3, <1>4, <1>7 DEF Found, Live, Sound, InOrder, Held, Told, Rolling, Telling
  <1> QED
    BY <1>1, <1>3, <1>4, <1>5, <1>6, <1>7, JobGoesOn, Calmly

LEMMA FinishGoesOn ==
    ASSUME GameInv, NEW job \in jobs, Finish(job)
    PROVE  GameInv'
  <1>1. PICK U : TypesOver(U)
    BY DEF GameInv, Types
  <1>2. /\ job \in Jobs(U) /\ Shape(job) /\ job.step = "stream" /\ job.kind \in Narrators
        /\ job.turn \in Ids => TurnOf(job) \in Rows(U) /\ TurnOf(job).id = job.turn
    BY <1>1, JobIs DEF Finish, Shape
  <1> DEFINE next == [job EXCEPT !.step = "close"]
             row == Recorded(job)
             results == IF job.results = <<>> THEN TurnOf(job).results ELSE job.results
             audit == IF job.audit = <<>> THEN TurnOf(job).audit ELSE job.audit
  <1>3. /\ next \in Jobs(U) /\ next.turn = job.turn /\ next.step = "close" /\ next.kind = job.kind
        /\ next.prose = job.prose /\ next.audit = job.audit /\ next.results = job.results
    BY <1>2 DEF Jobs, Steps, Ending
  <1>4. job.turn \in Ids => /\ row \in Rows(U) /\ row.id = job.turn /\ row.audit = audit
                            /\ row.results = results /\ row.prose = job.prose
                            /\ row.checks = TurnOf(job).checks /\ row.phase = TurnOf(job).phase
    BY <1>2 DEF Rows, Jobs, Recorded
  <1>5. Become(job, next) /\ Update(job.turn, row) /\ Changes(job)
        /\ ChangesOf(job.turn)' = ChangesOf(job.turn) /\ UNCHANGED <<issued, calm>>
    BY NoChange DEF Finish
  <1>6. job.turn \in Ids => job.prose.results <= Len(results)
    <2>1. /\ job.prose.results <= Len(job.results) /\ job.results \in Seq(U)
          /\ job.prose.results \in Nat
      BY <1>2 DEF Shape, Jobs, Proses
    <2>2. job.turn \in Ids => Len(TurnOf(job).results) \in Nat
      BY <1>2 DEF Rows
    <2>3. job.results = <<>> => Len(job.results) = 0
      OBVIOUS
    <2>4. Len(job.results) \in Nat
      BY <2>1
    <2> QED
      BY <2>1, <2>2, <2>3, <2>4
  <1>7. Live(next) /\ Shape(next)
    BY <1>2, <1>3 DEF Live, Shape, Rolling, Telling, Ending, next
  <1> HIDE DEF next, row, results
  <1>8. ASSUME Found(job), job.turn \in Ids
        PROVE  Sound(row, ChangesOf(job.turn)) /\ Held(row, ChangesOf(job.turn), next)
    <2>1. Sound(TurnOf(job), ChangesOf(job.turn)) /\ Told(TurnOf(job), ChangesOf(job.turn), job)
      BY <1>2, <1>8 DEF Found, Live, Held, Telling
    <2>2. ToSet(audit) = ChangesOf(job.turn) /\ ToSet(job.audit) = ChangesOf(job.turn)
      BY <1>2, <2>1 DEF Told
    <2>3. /\ job.prose.changes <= Len(job.audit) /\ job.prose.changes \in Nat /\ Len(job.audit) \in Nat /\ Len(TurnOf(job).audit) \in Nat
          /\ job.audit = <<>> => Len(job.audit) = 0
      BY <1>2, <1>8, AuditOf DEF Shape, Jobs, Rows, Proses
    <2>4. job.prose.changes <= Len(audit)
      BY <2>3
    <2>5. Len(TurnOf(job).checks) \in Nat /\ job.prose.checks = Len(TurnOf(job).checks)
      BY <1>2, <1>8, <2>1 DEF Told, Rows
    <2>6. MarkersFit(row) /\ row.phase # "done"
      <3> HIDE DEF audit
      <3> QED
        BY <1>4, <1>6, <1>8, <2>1, <2>4, <2>5 DEF MarkersFit, Told
    <2>7. Sound(row, ChangesOf(job.turn)) /\ ToSet(row.audit) = ChangesOf(job.turn)
      BY <1>4, <1>8, <2>1, <2>2 DEF Sound, InOrder
    <2> QED
      BY <1>3, <1>4, <1>8, <2>6, <2>7 DEF Held, Rolling, Telling
  <1> QED
    BY <1>1, <1>3, <1>4, <1>5, <1>7, <1>8, JobGoesOn, Calmly

LEMMA FailedIs ==
    ASSUME GameInv, NEW U, TypesOver(U), NEW job \in jobs
    PROVE  job.turn \in Ids =>
               LET row == Failed(job)
               IN /\ row \in Rows(U) /\ row.id = job.turn /\ row.audit = TurnOf(job).audit
                  /\ row.checks = TurnOf(job).checks /\ row.phase = "failed"
  <1>1. job.turn \in Ids => TurnOf(job) \in Rows(U) /\ TurnOf(job).id = job.turn
    BY JobIs
  <1> QED
    BY <1>1 DEF Rows, Phases, Failed

LEMMA CloseGoesOn ==
    ASSUME GameInv, NEW job \in jobs, Close(job)
    PROVE  GameInv'
  <1>1. PICK U : TypesOver(U)
    BY DEF GameInv, Types
  <1>2. /\ job \in Jobs(U) /\ Shape(job) /\ job.step = "close"
        /\ job.turn \in Ids => TurnOf(job) \in Rows(U) /\ TurnOf(job).id = job.turn
    BY <1>1, JobIs DEF Close
  <1>3. Changes(job) /\ ChangesOf(job.turn)' = ChangesOf(job.turn) /\ UNCHANGED <<issued, calm>>
    BY NoChange DEF Close
  <1>4. ASSUME Found(job)
        PROVE  /\ Sound(TurnOf(job), ChangesOf(job.turn)) /\ TurnOf(job).prose = job.prose
               /\ ToSet(TurnOf(job).audit) = ChangesOf(job.turn) /\ MarkersFit(TurnOf(job))
    BY <1>2, <1>4 DEF Found, Live, Held
  <1>5. CASE HasContent(job.prose)
    <2> DEFINE next == [job EXCEPT !.step = "complete"]
               row == [TurnOf(job) EXCEPT !.phase = "done"]
    <2>1. /\ next \in Jobs(U) /\ next.turn = job.turn /\ next.step = "complete" /\ next.kind = job.kind
          /\ next.prose = job.prose /\ next.audit = job.audit /\ next.results = job.results
      BY <1>2 DEF Jobs, Steps, Ending
    <2>2. job.turn \in Ids =>
              /\ row \in Rows(U) /\ row.id = job.turn /\ row.audit = TurnOf(job).audit
              /\ row.checks = TurnOf(job).checks /\ row.results = TurnOf(job).results
              /\ row.prose = TurnOf(job).prose /\ row.edited = TurnOf(job).edited
      BY <1>2 DEF Rows, Phases
    <2>3. Become(job, next) /\ Update(job.turn, row)
      BY <1>5 DEF Close
    <2> HIDE DEF next, row
    <2>4. Live(next) /\ Shape(next)
      BY <1>2, <2>1 DEF Live, Shape, Rolling, Telling, Ending
    <2>5. ASSUME Found(job), job.turn \in Ids
          PROVE  Sound(row, ChangesOf(job.turn)) /\ Held(row, ChangesOf(job.turn), next)
      BY <1>4, <1>5, <2>1, <2>2, <2>5
      DEF Sound, InOrder, Held, Free, Tells, MarkersFit, Rolling, Telling
    <2> QED
      BY <1>1, <1>3, <2>1, <2>2, <2>3, <2>4, <2>5, JobGoesOn, Calmly
  <1>6. CASE ~HasContent(job.prose)
    <2> DEFINE row == Failed(job)
    <2>1. Ends(job) /\ Update(job.turn, row)
      BY <1>6 DEF Close
    <2>2. job.turn \in Ids => /\ row \in Rows(U) /\ row.id = job.turn /\ row.audit = TurnOf(job).audit
                              /\ row.checks = TurnOf(job).checks /\ row.phase = "failed"
      BY <1>1, FailedIs
    <2> HIDE DEF row
    <2>3. ASSUME Found(job), job.turn \in Ids
          PROVE  Sound(row, ChangesOf(job.turn)) /\ Free(row, ChangesOf(job.turn))
      BY <1>4, <2>2, <2>3 DEF Sound, InOrder, Free
    <2> QED
      BY <1>1, <1>3, <2>1, <2>2, <2>3, JobEnds, Calmly
  <1> QED
    BY <1>5, <1>6

LEMMA StopGoesOn ==
    ASSUME GameInv, NEW job \in jobs, Stop(job)
    PROVE  GameInv'
  <1>1. PICK U : TypesOver(U)
    BY DEF GameInv, Types
  <1>2. /\ job \in Jobs(U) /\ Shape(job) /\ job.step \in Rolling \cup {"stream"}
        /\ job.turn \in Ids => TurnOf(job) \in Rows(U) /\ TurnOf(job).id = job.turn
    BY <1>1, JobIs DEF Stop, MayStop, Rolling
  <1>3. Changes(job) /\ ChangesOf(job.turn)' = ChangesOf(job.turn) /\ UNCHANGED <<issued, calm>>
    BY NoChange DEF Stop
  <1>4. ASSUME Found(job)
        PROVE  /\ Sound(TurnOf(job), ChangesOf(job.turn)) /\ TurnOf(job).phase # "done"
               /\ ToSet(TurnOf(job).audit) = ChangesOf(job.turn)
    BY <1>2, <1>4, AuditOf DEF Found, Live, Held, Rolled, Told, Rolling, Telling
  <1> DEFINE row == IF job.row /\ job.kind \in Narrators THEN Failed(job) ELSE TurnOf(job)
  <1>5. Ends(job) /\ Update(job.turn, row)
    <2>1. UNCHANGED turns => Update(job.turn, TurnOf(job))
      BY <1>1, RowStays DEF GameInv
    <2> QED
      BY <2>1 DEF Stop
  <1>6. job.turn \in Ids => /\ row \in Rows(U) /\ row.id = job.turn /\ row.audit = TurnOf(job).audit
                            /\ row.checks = TurnOf(job).checks
                            /\ row.phase \in {"failed", TurnOf(job).phase}
    BY <1>1, <1>2, FailedIs
  <1> HIDE DEF row
  <1>7. ASSUME Found(job), job.turn \in Ids
        PROVE  Sound(row, ChangesOf(job.turn)) /\ Free(row, ChangesOf(job.turn))
    BY <1>4, <1>6, <1>7 DEF Sound, InOrder, Free
  <1> QED
    BY <1>1, <1>3, <1>5, <1>6, <1>7, JobEnds, Calmly

-----------------------------------------------------------------------------
(* The other jobs                                                           *)

LEMMA StartRecheckGoesOn ==
    ASSUME GameInv, NEW job \in jobs, StartRecheck(job)
    PROVE  GameInv'
  <1>1. PICK U : TypesOver(U)
    BY DEF GameInv, Types
  <1>2. /\ job \in Jobs(U) /\ Shape(job) /\ job.kind = "recheck" /\ job.step = "queued"
        /\ job.turn \in Ids => TurnOf(job) \in Rows(U) /\ TurnOf(job).id = job.turn
    BY <1>1, JobIs DEF StartRecheck
  <1>3. Changes(job) /\ ChangesOf(job.turn)' = ChangesOf(job.turn) /\ UNCHANGED <<issued, calm>>
        /\ Update(job.turn, TurnOf(job))
    BY <1>1, NoChange, RowStays DEF StartRecheck, GameInv
  <1>4. ASSUME Found(job)
        PROVE  Sound(TurnOf(job), ChangesOf(job.turn)) /\ Free(TurnOf(job), ChangesOf(job.turn))
    BY <1>2, <1>4 DEF Found, Live
  <1>5. CASE TurnExists(job) /\ HasProse(TurnOf(job).prose)
    <2> DEFINE next == [job EXCEPT !.step = "recheck", !.audit = TurnOf(job).audit]
    <2>1. TurnOf(job).audit \in Audits
      BY <1>2, <1>5 DEF TurnExists, Rows
    <2>2. /\ next \in Jobs(U) /\ next.turn = job.turn /\ next.step = "recheck" /\ next.kind = job.kind
          /\ next.audit = TurnOf(job).audit
      BY <1>2, <2>1 DEF Jobs, Steps
    <2>3. Become(job, next)
      BY <1>5 DEF StartRecheck
    <2> HIDE DEF next
    <2>4. Live(next) /\ Shape(next)
      BY <1>2, <2>2 DEF Live, Shape, Rolling, Telling, Ending, Narrators
    <2>5. ASSUME Found(job) PROVE Held(TurnOf(job), ChangesOf(job.turn), next)
      BY <1>4, <2>2, <2>5 DEF Held, Rolling, Telling
    <2> QED
      BY <1>1, <1>2, <1>3, <1>4, <2>2, <2>3, <2>4, <2>5, JobGoesOn, Calmly
  <1>6. CASE ~(TurnExists(job) /\ HasProse(TurnOf(job).prose))
    <2>1. Ends(job)
      BY <1>6 DEF StartRecheck
    <2> QED
      BY <1>1, <1>2, <1>3, <1>4, <2>1, JobEnds, Calmly
  <1> QED
    BY <1>5, <1>6

LEMMA RecheckGoesOn ==
    ASSUME GameInv, NEW job \in jobs, Recheck(job)
    PROVE  GameInv'
  <1>1. PICK U : TypesOver(U)
    BY DEF GameInv, Types
  <1>2. /\ job \in Jobs(U) /\ Shape(job) /\ job.step = "recheck" /\ job.kind = "recheck"
        /\ job.audit \in Audits /\ job.turn \in Nat \ {0}
        /\ job.turn \in Ids => TurnOf(job) \in Rows(U) /\ TurnOf(job).id = job.turn
    <2>1. job \in Jobs(U) /\ Shape(job) /\ job.step = "recheck" /\ job.kind = "recheck"
      BY <1>1, JobIs DEF Recheck, Shape
    <2> QED
      BY <1>1, <2>1, JobIs DEF Jobs
  <1>3. UNCHANGED <<issued, calm>> /\ Update(job.turn, TurnOf(job))
    BY <1>1, RowStays DEF Recheck, GameInv
  <1>4. ASSUME Found(job)
        PROVE  /\ Sound(TurnOf(job), ChangesOf(job.turn)) /\ Free(TurnOf(job), ChangesOf(job.turn))
               /\ job.audit = TurnOf(job).audit
    BY <1>2, <1>4 DEF Found, Live, Held
  <1>5. CASE Ends(job) /\ UNCHANGED changes
    BY <1>1, <1>2, <1>3, <1>4, <1>5, NoChange, JobEnds, Calmly
  <1>6. CASE /\ changes' = changes \cup {NewChange(job.turn)}
             /\ Become(job, [job EXCEPT !.step = "merge",
                                        !.audit = Append(job.audit, NewChange(job.turn))])
    <2> DEFINE new == NewChange(job.turn)
               audit == Append(job.audit, new)
               next == [job EXCEPT !.step = "merge", !.audit = audit]
    <2>1. /\ Changes(job) /\ new \in Nat \X Nat
          /\ ChangesOf(job.turn)' = ChangesOf(job.turn) \cup {new}
      BY <1>2, <1>6, OneChange
    <2>2. Become(job, next)
      BY <1>6
    <2> HIDE DEF new
    <2>3. /\ audit \in Audits /\ Len(audit) = Len(job.audit) + 1 /\ Len(job.audit) \in Nat
          /\ ToSet(audit) = ToSet(job.audit) \cup {new}
      BY <1>2, <2>1, AuditOf
    <2> HIDE DEF audit
    <2>4. /\ next \in Jobs(U) /\ next.turn = job.turn /\ next.step = "merge" /\ next.kind = job.kind
          /\ next.audit = audit
      BY <1>2, <2>3 DEF Jobs, Steps
    <2> HIDE DEF next
    <2>5. Live(next) /\ Shape(next)
      BY <1>2, <2>4 DEF Live, Shape, Rolling, Telling, Ending, Narrators
    <2>6. ASSUME Found(job)
          PROVE  /\ Sound(TurnOf(job), ChangesOf(job.turn)')
                 /\ Held(TurnOf(job), ChangesOf(job.turn)', next)
      <3>1. Sound(TurnOf(job), ChangesOf(job.turn)')
        BY <1>4, <2>1, <2>6 DEF Sound
      <3>2. ToSet(next.audit) = ChangesOf(job.turn)' /\ Len(TurnOf(job).audit) <= Len(next.audit)
        BY <1>4, <2>1, <2>3, <2>4, <2>6 DEF Free
      <3> QED
        BY <1>4, <2>4, <2>6, <3>1, <3>2 DEF Held, Free, Rolling, Telling
    <2> QED
      BY <1>1, <1>2, <1>3, <2>1, <2>2, <2>4, <2>5, <2>6, JobGoesOn, Calmly
  <1> QED
    BY <1>5, <1>6 DEF Recheck

LEMMA MergeAuditGoesOn ==
    ASSUME GameInv, NEW job \in jobs, MergeAudit(job)
    PROVE  GameInv'
  <1>1. PICK U : TypesOver(U)
    BY DEF GameInv, Types
  <1>2. /\ job \in Jobs(U) /\ Shape(job) /\ job.step = "merge"
        /\ job.turn \in Ids => TurnOf(job) \in Rows(U) /\ TurnOf(job).id = job.turn
    BY <1>1, JobIs DEF MergeAudit
  <1> DEFINE row == [TurnOf(job) EXCEPT !.audit = job.audit]
  <1>3. job.turn \in Ids =>
            /\ row \in Rows(U) /\ row.id = job.turn /\ row.audit = job.audit
            /\ row.checks = TurnOf(job).checks /\ row.results = TurnOf(job).results
            /\ row.prose = TurnOf(job).prose /\ row.phase = TurnOf(job).phase
            /\ row.edited = TurnOf(job).edited
    BY <1>2 DEF Rows, Jobs
  <1>4. Ends(job) /\ Update(job.turn, row) /\ Changes(job)
        /\ ChangesOf(job.turn)' = ChangesOf(job.turn) /\ UNCHANGED <<issued, calm>>
    BY NoChange DEF MergeAudit
  <1> HIDE DEF row
  <1>5. ASSUME Found(job), job.turn \in Ids
        PROVE  Sound(row, ChangesOf(job.turn)) /\ Free(row, ChangesOf(job.turn))
    <2>1. /\ ToSet(job.audit) = ChangesOf(job.turn) /\ Len(TurnOf(job).audit) <= Len(job.audit)
          /\ TurnOf(job).phase = "done" => Tells(TurnOf(job))
          /\ Sound(TurnOf(job), ChangesOf(job.turn))
      BY <1>2, <1>5 DEF Found, Live, Held
    <2>2. /\ Len(job.audit) \in Nat /\ Len(TurnOf(job).audit) \in Nat
          /\ TurnOf(job).prose.changes \in Nat
      BY <1>2, <1>5, AuditOf DEF Jobs, Rows, Proses
    <2> QED
      BY <1>3, <1>5, <2>1, <2>2 DEF Sound, InOrder, Free, Tells, MarkersFit
  <1> QED
    BY <1>1, <1>3, <1>4, <1>5, JobEnds, Calmly

LEMMA ZeroIsNoTurn == GameInv => 0 \notin Ids
  <1> SUFFICES ASSUME GameInv, NEW i \in DOMAIN turns PROVE turns[i].id # 0
    BY DEF Ids
  <1>1. PICK U : turns \in Seq(Rows(U))
    BY DEF GameInv, Types, TypesOver
  <1>2. turns[i] \in Rows(U)
    BY <1>1
  <1> QED
    BY <1>2 DEF Rows

LEMMA StartSummaryGoesOn ==
    ASSUME GameInv, NEW job \in jobs, StartSummary(job)
    PROVE  GameInv'
  <1>1. PICK U : TypesOver(U)
    BY DEF GameInv, Types
  <1>2. job \in Jobs(U) /\ Shape(job) /\ job.kind = "summarize" /\ job.step = "queued"
    BY <1>1, JobIs DEF StartSummary
  <1> DEFINE seen == {t.id : t \in {u \in ToSet(turns) : HasProse(u.prose)}}
             next == [job EXCEPT !.step = "summarize", !.seen = seen]
  <1>3. seen \subseteq Nat
    <2>1. \A i \in DOMAIN turns : turns[i] \in Rows(U)
      BY <1>1 DEF TypesOver
    <2>2. \A t \in ToSet(turns) : t.id \in Nat
      BY <2>1 DEF ToSet, Rows
    <2> QED
      BY <2>2
  <1>4. Become(job, next) /\ Update(job.turn, TurnOf(job)) /\ Changes(job) /\ UNCHANGED <<issued, calm>>
    BY <1>1, NoChange, RowStays DEF StartSummary, GameInv
  <1> HIDE DEF seen
  <1>5. /\ next \in Jobs(U) /\ next.turn = job.turn /\ next.step = "summarize" /\ next.kind = job.kind
    BY <1>2, <1>3 DEF Jobs, Steps
  <1> HIDE DEF next
  <1>6. Live(next) /\ Shape(next)
    BY <1>2, <1>5 DEF Live, Shape, Rolling, Telling, Ending, Narrators
  <1>7. job.turn \notin Ids
    BY <1>2, ZeroIsNoTurn DEF Shape
  <1> QED
    BY <1>1, <1>4, <1>5, <1>6, <1>7, JobGoesOn, Calmly

LEMMA SummarizeGoesOn ==
    ASSUME GameInv, NEW job \in jobs, Summarize(job)
    PROVE  GameInv'
  <1>1. PICK U : TypesOver(U)
    BY DEF GameInv, Types
  <1>2. job \in Jobs(U) /\ Shape(job) /\ job.step = "summarize"
    BY <1>1, JobIs DEF Summarize
  <1>3. Ends(job) /\ Update(job.turn, TurnOf(job)) /\ Changes(job) /\ UNCHANGED <<issued, calm>>
    BY <1>1, NoChange, RowStays DEF Summarize, GameInv
  <1>4. job.turn \notin Ids
    BY <1>2, ZeroIsNoTurn DEF Shape
  <1> QED
    BY <1>1, <1>3, <1>4, JobEnds, Calmly

LEMMA CompleteGoesOn ==
    ASSUME GameInv, NEW job \in jobs, Complete(job)
    PROVE  GameInv'
  <1>1. PICK U : TypesOver(U) /\ {Deck(<<>>, {}, 0)} \subseteq U
    BY Roomy DEF GameInv
  <1>2. /\ job \in Jobs(U) /\ Shape(job) /\ job.step = "complete"
        /\ job.turn \in Ids => TurnOf(job) \in Rows(U) /\ TurnOf(job).id = job.turn
    BY <1>1, JobIs DEF Complete
  <1>3. PICK more \in SUBSET {NewJob("summarize", 0)} : jobs' = (jobs \ {job}) \cup more
    <2> DEFINE asks == Len(turns) + 1 >= SceneSpan /\ ~scene.valid /\ Active \subseteq {job}
               more == IF asks THEN {NewJob("summarize", 0)} ELSE {}
    <2>1. jobs' = (jobs \ {job}) \cup more
      BY DEF Complete
    <2>2. more \in SUBSET {NewJob("summarize", 0)}
      <3> HIDE DEF asks
      <3> QED
        OBVIOUS
    <2> HIDE DEF more
    <2> QED
      BY <2>1, <2>2
  <1>4. \A n \in more : n \in Jobs(U) /\ n.turn = 0 /\ Shape(n)
    <2>1. "summarize" \in Kinds
      BY DEF Kinds
    <2>2. LET n == NewJob("summarize", 0) IN n \in Jobs(U) /\ n.turn = 0 /\ Shape(n)
      BY <1>1, <2>1, NewJobIs
    <2> QED
      BY <2>2
  <1>5. Update(job.turn, TurnOf(job)) /\ Changes(job) /\ UNCHANGED <<issued, calm>>
        /\ ChangesOf(job.turn)' = ChangesOf(job.turn)
    BY <1>1, NoChange, RowStays DEF Complete, GameInv
  <1> DEFINE next == {}
  <1>6. jobs' = (jobs \ {job}) \cup next \cup more /\ \A n : n \notin next
    BY <1>3
  <1>7. Found(job) => Left(TurnOf(job), ChangesOf(job.turn)', next)
    BY <1>2, <1>5 DEF Found, Live, Held, Left
  <1> HIDE DEF next
  <1> QED
    BY <1>1, <1>2, <1>4, <1>5, <1>6, <1>7, WorkGoesOn, Calmly

LEMMA StepGoesOn ==
    ASSUME GameInv, NEW job \in jobs, TurnStep(job) \/ RecheckStep(job) \/ SummaryStep(job)
    PROVE  GameInv'
  <1>1. CASE TurnStep(job)
    <2>1. CASE Start(job) \/ RollChecks(job) \/ Narrate(job)
      BY <2>1, StartGoesOn, DeclareGoesOn, InsertCheckGoesOn, NarrateGoesOn DEF RollChecks
    <2>2. CASE InlinePass(job) \/ ProsePass(job)
      BY <2>2, StreamGoesOn, CallToolGoesOn, WriteResultsGoesOn, WriteDeckGoesOn, ApplyChangeGoesOn,
         WriteAuditGoesOn DEF InlinePass, ProsePass
    <2>3. CASE Finish(job) \/ Close(job) \/ Complete(job) \/ Stop(job)
      BY <2>3, FinishGoesOn, CloseGoesOn, CompleteGoesOn, StopGoesOn
    <2> QED
      BY <1>1, <2>1, <2>2, <2>3 DEF TurnStep
  <1>2. CASE RecheckStep(job) \/ SummaryStep(job)
    BY <1>2, StartRecheckGoesOn, RecheckGoesOn, MergeAuditGoesOn, StartSummaryGoesOn, SummarizeGoesOn
    DEF RecheckStep, SummaryStep
  <1> QED
    BY <1>1, <1>2

-----------------------------------------------------------------------------
(* Requests                                                                 *)

\* A turn is asked for again, or rechecked: nobody works on it.
LEMMA TurnIsAsked ==
    ASSUME GameInv, NEW U, TypesOver(U), Deck(<<>>, {}, 0) \in U,
           NEW i \in DOMAIN turns, NEW id, id = turns[i].id,
           NEW kind \in Narrators \cup {"recheck"}, NEW row \in Rows(U), row.id = id,
           Update(id, row), ~ActiveOn(id), jobs' = jobs \cup {NewJob(kind, id)},
           changes' = changes \/ changes' = changes \ ToSet(turns[i].audit),
           UNCHANGED issued, calm' \in BOOLEAN, calm' => calm /\ NoneLiveOn(id),
           calm' => /\ InOrder(turns[i]) => InOrder(row)
                    /\ Free(turns[i], ChangesOf(id)) => Free(row, ChangesOf(id)')
    PROVE  GameInv'
  <1> DEFINE new == NewJob(kind, id)
  <1>1. /\ turns[i] \in Rows(U) /\ jobs \subseteq Jobs(U) /\ id \in Nat \ {0} /\ id \in Ids
        /\ id <= issued
    <2>1. turns[i] \in Rows(U) /\ jobs \subseteq Jobs(U)
      BY DEF TypesOver
    <2>2. id \in Nat \ {0} /\ id \in Ids
      BY <2>1 DEF Rows, Ids
    <2> QED
      BY <2>1, <2>2 DEF GameInv, Numbered
  <1>2. new \in Jobs(U) /\ new.turn = id /\ ~Live(new) /\ Shape(new)
    <2>1. kind \in Kinds /\ kind # "summarize"
      BY KindsAre DEF Kinds
    <2> QED
      BY <1>1, <2>1, NewJobIs
  <1> HIDE DEF new
  <1>3. jobs' = jobs \cup {new}
    BY DEF new
  <1>4. jobs' \subseteq Jobs(U) /\ \A j \in jobs' : Shape(j)
    BY <1>1, <1>2, <1>3 DEF GameInv
  <1>5. \A j \in jobs \cup jobs' : j.turn # 0 /\ j.turn # id => (j \in jobs' <=> j \in jobs)
    BY <1>2, <1>3
  <1>6. changes' \subseteq Nat \X Nat /\ IsFiniteSet(changes') /\ changes' \subseteq changes
    <2>1. changes \subseteq Nat \X Nat /\ IsFiniteSet(changes)
      BY DEF GameInv, Types
    <2>2. changes' \subseteq changes
      OBVIOUS
    <2> QED
      BY <2>1, <2>2, FS_Subset
  <1>7. ASSUME calm'
        PROVE  /\ InOrder(turns[i]) /\ Free(turns[i], ChangesOf(id))
               /\ ToSet(turns[i].audit) = ChangesOf(id)
               /\ \A j \in jobs : j.turn # id
    <2>1. TurnInv(turns[i]) /\ NoneLiveOn(id)
      BY <1>7 DEF GameInv, CalmInv
    <2>2. ASSUME NEW j \in jobs, j.turn = id PROVE FALSE
      <3>1. ~Live(j)
        BY <2>1, <2>2 DEF NoneLiveOn
      <3>2. j = NewJob(j.kind, j.turn)
        BY <3>1 DEF GameInv, Shape, Live
      <3>3. j.row
        BY <3>2 DEF NewJob
      <3> QED
        BY <2>2, <3>3 DEF ActiveOn, Active
    <2> QED
      BY <2>1, <2>2 DEF TurnInv, Sound, Free
  <1>8. ASSUME calm' PROVE \A c \in changes : c[1] # id => c \in changes'
    BY <1>7, <1>8 DEF ChangesOf
  <1>9. ASSUME calm' PROVE \A j, k \in jobs' : j.turn = id /\ k.turn = id => j = k
    BY <1>3, <1>7, <1>9
  <1>10. ASSUME calm'
         PROVE  /\ Sound(row, ChangesOf(id)') /\ Free(row, ChangesOf(id)')
                /\ \A j \in jobs' : ~(Live(j) /\ j.turn = id)
    <2>1. InOrder(row) /\ Free(row, ChangesOf(id)')
      BY <1>7, <1>10
    <2>2. ToSet(row.audit) = ChangesOf(id)'
      BY <2>1 DEF Free
    <2> QED
      BY <1>2, <1>3, <1>7, <1>10, <2>1, <2>2 DEF Sound
  <1> QED
    BY <1>1, <1>4, <1>5, <1>6, <1>8, <1>9, <1>10, TurnGoesOn

LEMMA LastTurnIs ==
    ASSUME NEW U, TypesOver(U), turns # <<>>
    PROVE  /\ Len(turns) \in DOMAIN turns /\ LastTurn = turns[Len(turns)]
           /\ LastTurn \in Rows(U) /\ LastTurn.id \in Nat \ {0}
  <1>1. turns \in Seq(Rows(U)) /\ Len(turns) \in Nat
    BY DEF TypesOver
  <1>2. Len(turns) # 0
    BY <1>1, EmptySeq
  <1>3. Len(turns) \in DOMAIN turns /\ turns[Len(turns)] \in Rows(U)
    BY <1>1, <1>2
  <1> QED
    BY <1>3 DEF LastTurn, Rows

\* An audit that is a turn's changes, and its undoing.
LEMMA Undone ==
    ASSUME NEW i \in DOMAIN turns, NEW id, id = turns[i].id,
           changes' = changes \ ToSet(turns[i].audit), Free(turns[i], ChangesOf(id))
    PROVE  ChangesOf(id)' = {}
  BY DEF Free, ChangesOf

LEMMA RegenerateTurnGoesOn == GameInv /\ RegenerateTurn => GameInv'
  <1> SUFFICES ASSUME GameInv, RegenerateTurn PROVE GameInv'
    OBVIOUS
  <1>1. PICK U : TypesOver(U) /\ {Deck(<<>>, {}, 0)} \subseteq U
    BY Roomy DEF GameInv
  <1>2. turns # <<>> /\ ~ActiveOn(LastTurn.id)
    BY DEF RegenerateTurn, LastAndIdle
  <1> DEFINE i == Len(turns)
  <1>0. PICK id : id = LastTurn.id
    OBVIOUS
  <1> DEFINE row == NewTurn(id)
  <1>3. i \in DOMAIN turns /\ LastTurn = turns[i] /\ LastTurn \in Rows(U) /\ id \in Nat \ {0}
    BY <1>0, <1>1, <1>2, LastTurnIs
  <1>4. row \in Rows(U) /\ row.id = id /\ row.audit = <<>> /\ row.checks = <<>> /\ row.phase = "pending"
    <2>1. <<>> \in Seq(Nat) /\ <<>> \in Seq(U) /\ <<>> \in Audits /\ NoProse \in Proses
      BY NoProseIs, AuditOf
    <2> QED
      BY <1>3, <2>1 DEF NewTurn, Rows, Phases
  <1>5. calm' \in BOOLEAN /\ (calm' => calm /\ NoneLiveOn(id))
    <2>1. calm \in BOOLEAN
      BY DEF GameInv, Types
    <2> QED
      BY <1>0, <2>1, Zenon DEF RegenerateTurn
  <1>6. /\ jobs' = jobs \cup {NewJob("structured", id)} /\ Update(id, row) /\ UNCHANGED issued
        /\ changes' = changes \ ToSet(LastTurn.audit) /\ ~ActiveOn(id)
    BY <1>0, <1>2 DEF RegenerateTurn
  <1> HIDE DEF row
  <1>7. id = turns[i].id
    BY <1>0, <1>3
  <1>8. InOrder(row) /\ (Free(turns[i], ChangesOf(id)) => Free(row, ChangesOf(id)'))
    <2>1. Free(turns[i], ChangesOf(id)) => ChangesOf(id)' = {}
      BY <1>3, <1>6, <1>7, Undone
    <2>2. InOrder(row)
      BY <1>4 DEF InOrder
    <2>3. Free(turns[i], ChangesOf(id)) => Free(row, ChangesOf(id)')
      BY <1>4, <2>1, AuditOf DEF Free
    <2> QED
      BY <2>2, <2>3
  <1> HIDE DEF i
  <1> QED
    BY <1>1, <1>3, <1>4, <1>5, <1>6, <1>7, <1>8, TurnIsAsked, KindsAre

LEMMA RegenerateProseGoesOn == GameInv /\ RegenerateProse => GameInv'
  <1> SUFFICES ASSUME GameInv, RegenerateProse PROVE GameInv'
    OBVIOUS
  <1>1. PICK U : TypesOver(U) /\ {Deck(<<>>, {}, 0)} \subseteq U
    BY Roomy DEF GameInv
  <1>2. turns # <<>> /\ ~ActiveOn(LastTurn.id)
    BY DEF RegenerateProse, LastAndIdle
  <1> DEFINE i == Len(turns)
  <1>0. PICK id : id = LastTurn.id
    OBVIOUS
  <1> DEFINE row == [LastTurn EXCEPT !.prose = NoProse, !.audit = <<>>, !.phase = "prose",
                                    !.edited = FALSE]
  <1>3. i \in DOMAIN turns /\ LastTurn = turns[i] /\ LastTurn \in Rows(U) /\ id \in Nat \ {0}
    BY <1>0, <1>1, <1>2, LastTurnIs
  <1>4. /\ row \in Rows(U) /\ row.id = id /\ row.audit = <<>> /\ row.checks = LastTurn.checks
        /\ row.phase = "prose"
    BY <1>0, <1>3, NoProseIs, AuditOf DEF Rows, Phases
  <1>5. calm' \in BOOLEAN /\ (calm' => calm /\ NoneLiveOn(id))
    <2>1. calm \in BOOLEAN
      BY DEF GameInv, Types
    <2> QED
      BY <1>0, <2>1, Zenon DEF RegenerateProse
  <1>6. /\ jobs' = jobs \cup {NewJob("prose", id)} /\ Update(id, row) /\ UNCHANGED issued
        /\ changes' = changes \ ToSet(LastTurn.audit) /\ ~ActiveOn(id)
    BY <1>0, <1>2 DEF RegenerateProse
  <1> HIDE DEF row
  <1>7. id = turns[i].id
    BY <1>0, <1>3
  <1>8. /\ InOrder(turns[i]) => InOrder(row)
        /\ Free(turns[i], ChangesOf(id)) => Free(row, ChangesOf(id)')
    <2>1. Free(turns[i], ChangesOf(id)) => ChangesOf(id)' = {}
      BY <1>3, <1>6, <1>7, Undone
    <2> QED
      BY <1>3, <1>4, <2>1, AuditOf DEF InOrder, Free
  <1> HIDE DEF i
  <1> QED
    BY <1>1, <1>3, <1>4, <1>5, <1>6, <1>7, <1>8, TurnIsAsked, KindsAre

LEMMA RecheckStateGoesOn ==
    ASSUME GameInv, NEW i \in DOMAIN turns, RecheckState(i)
    PROVE  GameInv'
  <1>1. PICK U : TypesOver(U) /\ {Deck(<<>>, {}, 0)} \subseteq U
    BY Roomy DEF GameInv
  <1>0. PICK id : id = turns[i].id
    OBVIOUS
  <1>2. turns \in Seq(Rows(U)) /\ turns[i] \in Rows(U)
    BY <1>1 DEF TypesOver
  <1>3. Update(id, turns[i])
    <2>1. \A k \in DOMAIN turns : turns[k].id = id => turns[k] = turns[i]
      BY <1>0 DEF GameInv, Numbered
    <2>2. turns' = [k \in DOMAIN turns |-> turns[k]]
      BY <1>2 DEF RecheckState
    <2> QED
      BY <2>1, <2>2 DEF Update
  <1>4. calm' \in BOOLEAN /\ (calm' => calm /\ NoneLiveOn(id))
    <2>1. calm \in BOOLEAN
      BY DEF GameInv, Types
    <2> QED
      BY <1>0, <2>1, Zenon DEF RecheckState
  <1>5. /\ jobs' = jobs \cup {NewJob("recheck", id)} /\ UNCHANGED <<issued, changes>> /\ ~ActiveOn(id)
        /\ ChangesOf(id)' = ChangesOf(id)
    BY <1>0 DEF RecheckState, ChangesOf
  <1> QED
    BY <1>0, <1>1, <1>2, <1>3, <1>4, <1>5, TurnIsAsked

LEMMA EditMechanicsGoesOn ==
    ASSUME GameInv, NEW i \in DOMAIN turns, EditMechanics(i)
    PROVE  GameInv'
  <1> DEFINE S == AnyResult
  <1>0. PICK id : id = turns[i].id
    OBVIOUS
  <1>1. PICK U : TypesOver(U) /\ S \subseteq U
    <2> HIDE DEF S
    <2> QED
      BY Roomy DEF GameInv
  <1>2. PICK results \in EditedResults :
            Update(id, [turns[i] EXCEPT !.results = results, !.edited = TRUE])
    BY <1>0 DEF EditMechanics
  <1> DEFINE yes == TRUE
             row == [turns[i] EXCEPT !.results = results, !.edited = yes]
  <1>3. turns[i] \in Rows(U) /\ jobs \subseteq Jobs(U) /\ id \in Nat \ {0} /\ id <= issued /\ id \in Ids
    <2>1. turns[i] \in Rows(U) /\ jobs \subseteq Jobs(U)
      BY <1>1 DEF TypesOver
    <2>2. id \in Nat \ {0} /\ id \in Ids
      BY <1>0, <2>1 DEF Rows, Ids
    <2> QED
      BY <1>0, <2>1, <2>2 DEF GameInv, Numbered
  <1>4. results \in Seq(U)
    <2>1. PICK n \in 0..MaxResults : results \in [1..n -> AnyResult]
      BY <1>2 DEF EditedResults
    <2>2. n \in Nat
      BY <2>1, BoundsAssumption
    <2> QED
      BY <1>1, <2>1, <2>2
  <1>5. /\ row \in Rows(U) /\ row.id = id /\ row.checks = turns[i].checks /\ row.audit = turns[i].audit
        /\ row.phase = turns[i].phase /\ row.prose = turns[i].prose /\ row.results = results
        /\ row.edited
    <2>1. yes \in BOOLEAN /\ yes
      OBVIOUS
    <2> HIDE DEF yes
    <2>2. /\ row \in Rows(U) /\ row.id = id /\ row.checks = turns[i].checks /\ row.audit = turns[i].audit
          /\ row.phase = turns[i].phase /\ row.prose = turns[i].prose /\ row.results = results
          /\ row.edited = yes
      BY <1>0, <1>3, <1>4, <2>1 DEF Rows
    <2> QED
      BY <2>1, <2>2, Zenon
  <1>6. UNCHANGED <<jobs, changes, issued>> /\ ChangesOf(id)' = ChangesOf(id) /\ Update(id, row)
    BY <1>2 DEF EditMechanics, ChangesOf
  <1>7. calm' \in BOOLEAN /\ (calm' => calm)
    <2>1. calm \in BOOLEAN
      BY DEF GameInv, Types
    <2> QED
      BY <2>1, Zenon DEF EditMechanics
  <1>8. changes \subseteq Nat \X Nat /\ IsFiniteSet(changes)
    BY DEF GameInv, Types
  <1> HIDE DEF row, S
  <1>9. /\ InOrder(row) <=> InOrder(turns[i])
        /\ Tells(turns[i]) => Tells(row)
        /\ MarkersFit(turns[i]) => MarkersFit(row)
    BY <1>4, <1>5 DEF InOrder, Tells, MarkersFit
  <1>10. ASSUME calm'
         PROVE  /\ Sound(row, ChangesOf(id))
                /\ NoneLiveOn(id) => Free(row, ChangesOf(id))
                /\ \A j \in jobs : Live(j) /\ j.turn = id => Held(row, ChangesOf(id), j)
    <2>1. TurnInv(turns[i])
      BY <1>7, <1>10 DEF GameInv, CalmInv
    <2>2. Sound(row, ChangesOf(id))
      BY <1>0, <1>5, <1>9, <2>1 DEF TurnInv, Sound
    <2>3. Free(turns[i], ChangesOf(id)) => Free(row, ChangesOf(id))
      BY <1>5, <1>9 DEF Free
    <2>4. ASSUME NEW j \in jobs, Held(turns[i], ChangesOf(id), j) PROVE Held(row, ChangesOf(id), j)
      BY <1>5, <1>9, <2>3, <2>4 DEF Held, Rolled, Told
    <2> QED
      BY <1>0, <2>1, <2>2, <2>3, <2>4 DEF TurnInv
  <1>11. ASSUME calm' PROVE \A j, k \in jobs : j.turn = id /\ k.turn = id /\ id # 0 => j = k
    BY <1>7, <1>11 DEF GameInv, CalmInv, Alone
  <1>12. NoneLiveOn(id)' => NoneLiveOn(id)
    BY <1>6 DEF NoneLiveOn
  <1>13. jobs' \subseteq Jobs(U) /\ \A j \in jobs' : Shape(j)
    BY <1>3, <1>6 DEF GameInv
  <1> QED
    BY <1>1, <1>3, <1>5, <1>6, <1>7, <1>8, <1>10, <1>11, <1>12, <1>13, TurnGoesOn

LEMMA CancelGoesOn ==
    ASSUME GameInv, NEW job \in jobs, Cancel(job)
    PROVE  GameInv'
  <1>1. PICK U : TypesOver(U)
    BY DEF GameInv, Types
  <1>2. /\ job \in Jobs(U) /\ Shape(job)
        /\ job.turn \in Ids => TurnOf(job) \in Rows(U) /\ TurnOf(job).id = job.turn
    BY <1>1, JobIs
  <1>3. Changes(job) /\ ChangesOf(job.turn)' = ChangesOf(job.turn) /\ UNCHANGED <<issued, calm>>
        /\ Update(job.turn, TurnOf(job))
    BY <1>1, NoChange, RowStays DEF Cancel, GameInv
  <1>4. CASE Live(job)
    <2> DEFINE next == CancelledJob(job)
    <2>1. /\ next \in Jobs(U) /\ next.turn = job.turn /\ next.step = job.step /\ next.kind = job.kind
          /\ next.prose = job.prose /\ next.audit = job.audit /\ next.results = job.results
      BY <1>2 DEF Jobs, CancelledJob
    <2>2. Become(job, next)
      BY <1>4 DEF Cancel, Become
    <2> HIDE DEF next
    <2>3. Live(next) /\ Shape(next)
      BY <1>2, <1>4, <2>1 DEF Live, Shape
    <2>4. ASSUME Found(job)
          PROVE  Sound(TurnOf(job), ChangesOf(job.turn)) /\ Held(TurnOf(job), ChangesOf(job.turn), next)
      BY <1>4, <2>1, <2>4 DEF Found, Held, Rolled, Told
    <2> QED
      BY <1>1, <1>2, <1>3, <2>1, <2>2, <2>3, <2>4, JobGoesOn, Calmly
  <1>5. CASE ~Live(job)
    <2>1. Ends(job)
      BY <1>5 DEF Cancel, Ends
    <2>2. Found(job) => Sound(TurnOf(job), ChangesOf(job.turn)) /\ Free(TurnOf(job), ChangesOf(job.turn))
      BY <1>5 DEF Found
    <2> QED
      BY <1>1, <1>2, <1>3, <2>1, <2>2, JobEnds, Calmly
  <1> QED
    BY <1>4, <1>5

LEMMA SubmitGoesOn == GameInv /\ Submit => GameInv'
  <1> SUFFICES ASSUME GameInv, Submit PROVE GameInv'
    OBVIOUS
  <1>1. PICK U : TypesOver(U) /\ {Deck(<<>>, {}, 0)} \subseteq U
    BY Roomy DEF GameInv
  <1>0. PICK id : id = issued + 1
    OBVIOUS
  <1> DEFINE turn == NewTurn(id)
             new == NewJob("structured", id)
  <1>2. /\ turns \in Seq(Rows(U)) /\ jobs \subseteq Jobs(U) /\ issued \in Nat /\ id \in Nat \ {0}
        /\ DOMAIN turns = 1..Len(turns) /\ Len(turns) \in Nat
    BY <1>0, <1>1 DEF TypesOver, GameInv, Types
  <1>3. turn \in Rows(U) /\ turn.id = id /\ turn.audit = <<>> /\ turn.checks = <<>> /\ turn.phase = "pending"
    <2>1. <<>> \in Seq(Nat) /\ <<>> \in Seq(U) /\ <<>> \in Audits /\ NoProse \in Proses
      BY NoProseIs, AuditOf
    <2> QED
      BY <1>2, <2>1 DEF NewTurn, Rows, Phases
  <1>4. new \in Jobs(U) /\ new.turn = id /\ ~Live(new) /\ Shape(new)
    <2>1. "structured" \in Kinds
      BY KindsAre DEF Kinds
    <2> QED
      BY <1>1, <1>2, <2>1, NewJobIs
  <1>5. /\ turns' = Append(turns, turn) /\ jobs' = jobs \cup {new} /\ issued' = id
        /\ UNCHANGED changes
    BY <1>0 DEF Submit
  <1>6. calm' \in BOOLEAN /\ (calm' => calm)
    <2>1. calm \in BOOLEAN
      BY DEF GameInv, Types
    <2> QED
      BY <2>1, Zenon DEF Submit
  <1> HIDE DEF turn, new
  <1>7. /\ turns' \in Seq(Rows(U)) /\ DOMAIN turns' = 1..Len(turns) + 1
        /\ \A i \in 1..Len(turns) : turns'[i] = turns[i]
        /\ turns'[Len(turns) + 1] = turn
        /\ \A i \in 1..Len(turns) + 1 : i \in 1..Len(turns) \/ i = Len(turns) + 1
        /\ \A i \in 1..Len(turns) : i \in 1..Len(turns) + 1
        /\ Len(turns) + 1 \in 1..Len(turns) + 1
    BY <1>2, <1>3, <1>5
  <1>8. /\ \A i \in DOMAIN turns : turns[i].id <= issued /\ turns[i].id # id
        /\ \A j \in jobs : j.turn <= issued /\ j.turn # id
        /\ \A c \in changes : c[1] <= issued /\ c[1] # id
    <2>1. \A i \in DOMAIN turns : turns[i].id \in Nat
      <3>1. \A i \in DOMAIN turns : turns[i] \in Rows(U)
        BY <1>2
      <3> QED
        BY <3>1 DEF Rows
    <2>2. \A j \in jobs : j.turn \in Nat
      BY <1>2 DEF Jobs
    <2>3. \A c \in changes : c[1] \in Nat
      BY DEF GameInv, Types
    <2> QED
      BY <1>0, <1>2, <2>1, <2>2, <2>3 DEF GameInv, Numbered
  <1>9. Types'
    <2>1. TypesOver(U)'
      BY <1>2, <1>4, <1>5, <1>7 DEF TypesOver
    <2>2. changes' \subseteq Nat \X Nat /\ IsFiniteSet(changes') /\ issued' \in Nat
      BY <1>2, <1>5 DEF GameInv, Types
    <2> QED
      BY <1>6, <2>1, <2>2 DEF Types
  <1>10. Numbered'
    <2>1. \A x \in Int : x <= issued => x <= issued'
      BY <1>0, <1>2, <1>5
    <2>2. \A i \in DOMAIN turns' : turns'[i].id <= issued'
      <3>1. \A i \in 1..Len(turns) : turns[i].id \in Int
        <4>1. \A i \in 1..Len(turns) : turns[i] \in Rows(U)
          BY <1>2
        <4> QED
          BY <4>1 DEF Rows
      <3> QED
        BY <1>2, <1>3, <1>5, <1>7, <1>8, <2>1, <3>1
    <2>3. \A i, k \in DOMAIN turns' : turns'[i].id = turns'[k].id => i = k
      BY <1>2, <1>3, <1>7, <1>8 DEF GameInv, Numbered
    <2>4. \A j \in jobs' : j.turn <= issued'
      <3>1. \A j \in jobs : j.turn \in Int
        BY <1>2 DEF Jobs
      <3> QED
        BY <1>2, <1>4, <1>5, <1>8, <2>1, <3>1
    <2>5. \A c \in changes' : c[1] <= issued'
      <3>1. \A c \in changes : c[1] \in Int
        BY DEF GameInv, Types
      <3> QED
        BY <1>5, <1>8, <2>1, <3>1
    <2> QED
      BY <2>2, <2>3, <2>4, <2>5 DEF Numbered
  <1>11. \A j \in jobs' : Shape(j)
    BY <1>4, <1>5 DEF GameInv
  <1>12. ASSUME calm' PROVE CalmInv'
    <2>1. CalmInv
      BY <1>6, <1>12 DEF GameInv
    <2>2. Alone'
      BY <1>4, <1>5, <1>8, <2>1 DEF CalmInv, Alone
    <2>3. Ids \subseteq Ids' /\ id \in Ids'
      BY <1>2, <1>3, <1>7 DEF Ids
    <2>4. Placed'
      BY <1>4, <1>5, <2>1, <2>3 DEF CalmInv, Placed
    <2>5. ASSUME NEW i \in DOMAIN turns', NEW m, m = turns'[i].id
          PROVE  /\ Sound(turns'[i], ChangesOf(m)')
                 /\ NoneLiveOn(m)' => Free(turns'[i], ChangesOf(m)')
                 /\ \A j \in jobs' : Live(j) /\ j.turn = m => Held(turns'[i], ChangesOf(m)', j)
      <3>1. ChangesOf(m)' = ChangesOf(m)
        BY <1>5 DEF ChangesOf
      <3>2. CASE i \in 1..Len(turns)
        <4>1. turns'[i] = turns[i] /\ i \in DOMAIN turns /\ m # id
          BY <1>2, <1>7, <1>8, <2>5, <3>2
        <4>2. TurnInv(turns[i])
          BY <2>1, <4>1 DEF CalmInv
        <4>3. \A j \in jobs' : j.turn = m => j \in jobs
          BY <1>4, <1>5, <4>1
        <4>4. NoneLiveOn(m)' => NoneLiveOn(m)
          BY <1>5 DEF NoneLiveOn
        <4> QED
          BY <2>5, <3>1, <4>1, <4>2, <4>3, <4>4 DEF TurnInv
      <3>3. CASE i = Len(turns) + 1
        <4>1. turns'[i] = turn /\ m = id /\ ChangesOf(m) = {}
          BY <1>3, <1>7, <1>8, <2>5, <3>3 DEF ChangesOf
        <4>2. InOrder(turn)
          BY <1>3 DEF InOrder
        <4>3. Sound(turn, {}) /\ Free(turn, {})
          BY <1>3, <4>2, AuditOf DEF Sound, Free
        <4>4. \A j \in jobs' : ~(Live(j) /\ j.turn = id)
          BY <1>4, <1>5, <1>8
        <4> QED
          BY <3>1, <4>1, <4>3, <4>4
      <3> QED
        BY <1>7, <3>2, <3>3
    <2>6. ASSUME NEW i \in DOMAIN turns' PROVE TurnInv(turns[i])'
      BY <2>5, <2>6 DEF TurnInv
    <2> QED
      BY <2>2, <2>4, <2>6 DEF CalmInv
  <1> QED
    BY <1>9, <1>10, <1>11, <1>12 DEF GameInv

LEMMA CrashGoesOn == GameInv /\ Crash => GameInv'
  <1> SUFFICES ASSUME GameInv, Crash PROVE GameInv'
    OBVIOUS
  <1>1. PICK U : TypesOver(U) /\ {Deck(<<>>, {}, 0)} \subseteq U
    BY Roomy DEF GameInv
  <1>2. /\ jobs' = {NewJob(job.kind, job.turn) : job \in Active} /\ Active \subseteq jobs
        /\ UNCHANGED <<turns, changes, issued>>
    BY DEF Crash, Active
  <1>3. jobs \subseteq Jobs(U) /\ turns \in Seq(Rows(U))
    BY <1>1 DEF TypesOver
  <1>4. ASSUME NEW job \in jobs
        PROVE  LET new == NewJob(job.kind, job.turn)
               IN new \in Jobs(U) /\ new.turn = job.turn /\ ~Live(new) /\ Shape(new)
    <2>1. job.kind \in Kinds /\ job.turn \in Nat /\ (job.kind = "summarize" <=> job.turn = 0)
      BY <1>3 DEF Jobs, GameInv, Shape
    <2> QED
      BY <1>1, <2>1, NewJobIs
  <1>5. \A j \in jobs' : j \in Jobs(U) /\ ~Live(j) /\ Shape(j) /\ \E job \in jobs : j.turn = job.turn
    BY <1>2, <1>4
  <1>6. calm' \in BOOLEAN /\ (calm' => calm /\ \A job \in jobs : job.step \notin {"deck", "audit", "merge"})
    <2>1. calm \in BOOLEAN
      BY DEF GameInv, Types
    <2> QED
      BY <2>1, Zenon DEF Crash
  <1>7. Types'
    <2>1. TypesOver(U)'
      BY <1>2, <1>3, <1>5 DEF TypesOver
    <2> QED
      BY <1>2, <1>6, <2>1 DEF GameInv, Types
  <1>8. Numbered'
    BY <1>2, <1>5 DEF GameInv, Numbered
  <1>9. ASSUME calm' PROVE CalmInv'
    <2>1. CalmInv
      BY <1>6, <1>9 DEF GameInv
    <2>2. Alone'
      <3> SUFFICES ASSUME NEW i \in jobs', NEW k \in jobs', i.turn = k.turn, i.turn # 0 PROVE i = k
        BY DEF Alone
      <3>1. PICK a \in jobs : i = NewJob(a.kind, a.turn)
        BY <1>2
      <3>2. PICK b \in jobs : k = NewJob(b.kind, b.turn)
        BY <1>2
      <3>3. a.turn = b.turn /\ a.turn # 0
        BY <1>4, <3>1, <3>2
      <3>4. a = b
        BY <2>1, <3>3 DEF CalmInv, Alone
      <3> QED
        BY <3>1, <3>2, <3>4
    <2>3. Placed'
      <3>1. Ids' = Ids
        BY <1>2 DEF Ids
      <3> QED
        BY <1>2, <1>5, <2>1, <3>1 DEF CalmInv, Placed
    <2>4. ASSUME NEW i \in DOMAIN turns, NEW m, m = turns[i].id
          PROVE  Sound(turns[i], ChangesOf(m)) /\ Free(turns[i], ChangesOf(m))
      <3>1. TurnInv(turns[i]) /\ turns[i] \in Rows(U)
        BY <1>3, <2>1 DEF CalmInv
      <3>2. CASE NoneLiveOn(m)
        BY <2>4, <3>1, <3>2 DEF TurnInv
      <3>3. CASE ~NoneLiveOn(m)
        <4>1. PICK job \in jobs : Live(job) /\ job.turn = m
          BY <3>3 DEF NoneLiveOn
        <4>2. Held(turns[i], ChangesOf(m), job) /\ Shape(job) /\ job \in Jobs(U)
          BY <1>3, <2>4, <3>1, <4>1 DEF TurnInv, GameInv
        <4>3. job.step \in Rolling \cup {"stream", "results", "recheck"} \cup Ending
          <5>1. m # 0
            BY <2>4, <3>1 DEF Rows
          <5>2. job.step # "summarize" /\ job.step # "queued"
            BY <4>1, <4>2, <5>1 DEF Shape, Live
          <5> QED
            BY <1>6, <1>9, <4>2, <5>2 DEF Jobs, Steps, Telling
        <4>4. Free(turns[i], ChangesOf(m))
          BY <4>2, <4>3, AuditOf DEF Held, Rolled, Told, Free, Rolling, Telling, Ending
        <4> QED
          BY <2>4, <3>1, <4>4 DEF TurnInv
      <3> QED
        BY <3>2, <3>3
    <2>5. ASSUME NEW i \in DOMAIN turns' PROVE TurnInv(turns[i])'
      <3>1. PICK m : m = turns[i].id
        OBVIOUS
      <3>2. turns'[i] = turns[i] /\ turns'[i].id = m /\ ChangesOf(m)' = ChangesOf(m)
        BY <1>2, <3>1 DEF ChangesOf
      <3>3. Sound(turns[i], ChangesOf(m)) /\ Free(turns[i], ChangesOf(m))
        BY <1>2, <2>4, <3>1
      <3> QED
        BY <1>5, <3>2, <3>3 DEF TurnInv
    <2> QED
      BY <2>2, <2>3, <2>5 DEF CalmInv
  <1> QED
    BY <1>5, <1>7, <1>8, <1>9 DEF GameInv

\* What a task that has found its token, or still has to, holds.
LEMMA CancelledIs ==
    ASSUME NEW U, NEW job \in Jobs(U), Live(job), Shape(job)
    PROVE  LET next == IF job.row THEN CancelledJob(job) ELSE job
           IN /\ next \in Jobs(U) /\ Live(next) /\ Shape(next) /\ next.turn = job.turn
              /\ \A turn, ch : Held(turn, ch, job) => Held(turn, ch, next)
  <1> DEFINE next == IF job.row THEN CancelledJob(job) ELSE job
  <1>1. /\ next \in Jobs(U) /\ next.turn = job.turn /\ next.step = job.step /\ next.kind = job.kind
        /\ next.prose = job.prose /\ next.audit = job.audit /\ next.results = job.results
    BY DEF Jobs, CancelledJob
  <1> HIDE DEF next
  <1>2. Live(next) /\ Shape(next)
    BY <1>1 DEF Live, Shape
  <1>3. ASSUME NEW turn, NEW ch, Held(turn, ch, job) PROVE Held(turn, ch, next)
    BY <1>1, <1>3 DEF Held, Rolled, Told
  <1> QED
    BY <1>1, <1>2, <1>3 DEF next

\* The rows after the i-th.
LEMMA RestIs ==
    ASSUME NEW S, NEW s \in Seq(S), NEW i \in Nat, i <= Len(s)
    PROVE  LET rest == SubSeq(s, i + 1, Len(s))
           IN /\ \A k \in DOMAIN s : k > i => k - i \in DOMAIN rest /\ rest[k - i] = s[k]
              /\ \A k \in DOMAIN rest : k + i \in DOMAIN s /\ k + i > i /\ rest[k] = s[k + i]
  <1> DEFINE rest == SubSeq(s, i + 1, Len(s))
  <1>1. Len(s) \in Nat /\ DOMAIN s = 1..Len(s)
    OBVIOUS
  <1>2. DOMAIN rest = 1..Len(s) - i /\ \A k \in 1..Len(s) - i : rest[k] = s[k + i]
    BY <1>1
  <1> HIDE DEF rest
  <1>3. ASSUME NEW k \in DOMAIN s, k > i PROVE k - i \in DOMAIN rest /\ rest[k - i] = s[k]
    <2>1. k - i \in 1..Len(s) - i /\ (k - i) + i = k
      BY <1>1, <1>3
    <2> QED
      BY <1>2, <2>1
  <1>4. ASSUME NEW k \in DOMAIN rest
        PROVE  k + i \in DOMAIN s /\ k + i > i /\ rest[k] = s[k + i]
    BY <1>1, <1>2
  <1> QED
    BY <1>3, <1>4 DEF rest

LEMMA RewindGoesOn ==
    ASSUME GameInv, NEW i \in 0..MaxTurns, Rewind(i)
    PROVE  GameInv'
  <1>1. PICK U : TypesOver(U)
    BY DEF GameInv, Types
  <1> DEFINE dropped == SubSeq(turns, i + 1, Len(turns))
             After(job) == IF job.row THEN CancelledJob(job) ELSE job
  <1>2. /\ turns \in Seq(Rows(U)) /\ jobs \subseteq Jobs(U) /\ Len(turns) \in Nat
        /\ DOMAIN turns = 1..Len(turns) /\ i \in Nat /\ i < Len(turns)
    BY <1>1 DEF TypesOver, Rewind
  <1>3. /\ turns' = SubSeq(turns, 1, i) /\ UNCHANGED issued
        /\ jobs' = {After(job) : job \in {j \in jobs : Live(j)}}
        /\ changes' = changes \ Audited(dropped)
    BY DEF Rewind
  <1>4. /\ turns' \in Seq(Rows(U)) /\ DOMAIN turns' = 1..i
        /\ \A k \in 1..i : turns'[k] = turns[k] /\ k \in DOMAIN turns
    BY <1>2, <1>3
  <1>5. /\ \A k \in DOMAIN turns : k > i => k - i \in DOMAIN dropped /\ dropped[k - i] = turns[k]
        /\ \A k \in DOMAIN dropped : k + i \in DOMAIN turns /\ k + i > i /\ dropped[k] = turns[k + i]
    <2>1. turns \in Seq(Rows(U)) /\ i \in Nat /\ i <= Len(turns)
      BY <1>2
    <2> QED
      BY <2>1, RestIs, Zenon
  <1>6. calm' \in BOOLEAN /\ (calm' => calm /\ \A k \in DOMAIN dropped : NoneLiveOn(dropped[k].id))
    <2>1. calm \in BOOLEAN
      BY DEF GameInv, Types
    <2> HIDE DEF dropped
    <2>2. calm' = (calm /\ NoNarratorLive /\ \A k \in DOMAIN dropped : NoneLiveOn(dropped[k].id))
      BY DEF Rewind, dropped
    <2> QED
      BY <2>1, <2>2, Zenon
  <1> HIDE DEF dropped
  <1>7. ASSUME NEW job \in jobs, Live(job)
        PROVE  /\ After(job) \in Jobs(U) /\ Live(After(job)) /\ Shape(After(job))
               /\ After(job).turn = job.turn
               /\ \A turn, ch : Held(turn, ch, job) => Held(turn, ch, After(job))
    BY <1>2, <1>7, CancelledIs DEF GameInv
  <1> HIDE DEF After
  <1>8. Types' /\ Numbered' /\ \A j \in jobs' : Shape(j)
    <2>1. TypesOver(U)'
      BY <1>3, <1>4, <1>7 DEF TypesOver
    <2>2. changes' \subseteq changes
      BY <1>3
    <2>3. changes' \subseteq Nat \X Nat /\ IsFiniteSet(changes') /\ issued' \in Nat
      BY <1>3, <2>2, FS_Subset DEF GameInv, Types
    <2>4. Numbered'
      BY <1>3, <1>4, <1>7, <2>2 DEF GameInv, Numbered
    <2> QED
      BY <1>3, <1>6, <1>7, <2>1, <2>3, <2>4 DEF Types
  <1>9. ASSUME calm' PROVE CalmInv'
    <2>1. CalmInv /\ Numbered
      BY <1>6, <1>9 DEF GameInv
    <2>2. ASSUME NEW k \in DOMAIN turns, k > i, NEW m, m = turns[k].id
          PROVE  NoneLiveOn(m) /\ ToSet(turns[k].audit) = ChangesOf(m)
      <3>1. NoneLiveOn(m)
        BY <1>5, <1>6, <1>9, <2>2
      <3> QED
        BY <2>1, <2>2, <3>1 DEF CalmInv, TurnInv, Free
    <2>3. Alone'
      <3> SUFFICES ASSUME NEW j \in jobs', NEW k \in jobs', j.turn = k.turn, j.turn # 0 PROVE j = k
        BY DEF Alone
      <3>1. PICK a \in jobs : Live(a) /\ j = After(a)
        BY <1>3
      <3>2. PICK b \in jobs : Live(b) /\ k = After(b)
        BY <1>3
      <3> QED
        BY <1>7, <2>1, <3>1, <3>2 DEF CalmInv, Alone
    <2>4. Ids' = {turns[k].id : k \in 1..i}
      BY <1>4 DEF Ids
    <2>5. \A k \in DOMAIN turns : k \in 1..i \/ k > i
      BY <1>2
    <2>6. Placed'
      <3>1. ASSUME NEW j \in jobs', j.turn # 0 PROVE j.turn \in Ids'
        <4>1. PICK a \in jobs : Live(a) /\ j = After(a)
          BY <1>3
        <4>2. PICK k \in DOMAIN turns : turns[k].id = a.turn
          BY <1>7, <2>1, <3>1, <4>1 DEF CalmInv, Placed, Ids
        <4>3. ~(k > i)
          BY <2>2, <4>1, <4>2 DEF NoneLiveOn
        <4> QED
          BY <1>7, <2>4, <2>5, <4>1, <4>2, <4>3
      <3>2. ASSUME NEW c \in changes' PROVE c[1] \in Ids'
        <4>1. c \in changes /\ c \notin Audited(dropped)
          BY <1>3
        <4>2. PICK k \in DOMAIN turns : turns[k].id = c[1]
          BY <2>1, <4>1 DEF CalmInv, Placed, Ids
        <4>3. ASSUME k > i PROVE FALSE
          <5>1. c \in ToSet(turns[k].audit)
            BY <2>2, <4>1, <4>2, <4>3 DEF ChangesOf
          <5>2. k - i \in DOMAIN dropped /\ dropped[k - i] = turns[k]
            BY <1>5, <4>3
          <5> QED
            BY <4>1, <5>1, <5>2 DEF Audited
        <4> QED
          BY <2>4, <2>5, <4>2, <4>3
      <3> QED
        BY <3>1, <3>2 DEF Placed
    <2>7. ASSUME NEW k \in 1..i, NEW m, m = turns[k].id
          PROVE  /\ Sound(turns[k], ChangesOf(m)')
                 /\ NoneLiveOn(m)' => Free(turns[k], ChangesOf(m)')
                 /\ \A j \in jobs' : Live(j) /\ j.turn = m => Held(turns[k], ChangesOf(m)', j)
      <3>1. k \in DOMAIN turns /\ TurnInv(turns[k])
        BY <1>4, <2>1 DEF CalmInv
      <3>2. ASSUME NEW c \in ChangesOf(m) PROVE c \notin Audited(dropped)
        <4> SUFFICES ASSUME c \in Audited(dropped) PROVE FALSE
          OBVIOUS
        <4>1. PICK n \in DOMAIN dropped : c \in ToSet(dropped[n].audit)
          BY DEF Audited
        <4>2. n + i \in DOMAIN turns /\ n + i > i /\ dropped[n] = turns[n + i]
          BY <1>5
        <4>3. PICK l : l = turns[n + i].id
          OBVIOUS
        <4>4. c \in ChangesOf(l)
          BY <2>2, <4>1, <4>2, <4>3
        <4>5. l = m
          BY <3>2, <4>4 DEF ChangesOf
        <4>6. n + i = k
          BY <2>1, <2>7, <3>1, <4>2, <4>3, <4>5 DEF Numbered
        <4> QED
          BY <1>2, <4>2, <4>6
      <3>3. ChangesOf(m)' = ChangesOf(m)
        BY <1>3, <3>2 DEF ChangesOf
      <3>4. NoneLiveOn(m)' => NoneLiveOn(m)
        BY <1>3, <1>7 DEF NoneLiveOn
      <3>5. ASSUME NEW j \in jobs', Live(j), j.turn = m PROVE Held(turns[k], ChangesOf(m), j)
        <4>1. PICK a \in jobs : Live(a) /\ j = After(a)
          BY <1>3
        <4>2. Held(turns[k], ChangesOf(m), a)
          BY <1>7, <2>7, <3>1, <3>5, <4>1 DEF TurnInv
        <4> QED
          BY <1>7, <4>1, <4>2
      <3> QED
        BY <2>7, <3>1, <3>3, <3>4, <3>5 DEF TurnInv
    <2>8. ASSUME NEW k \in DOMAIN turns' PROVE TurnInv(turns[k])'
      <3>1. PICK m : m = turns[k].id
        OBVIOUS
      <3>2. k \in 1..i /\ turns'[k] = turns[k] /\ turns'[k].id = m
        BY <1>4, <3>1
      <3> QED
        BY <2>7, <3>1, <3>2 DEF TurnInv
    <2> QED
      BY <2>3, <2>6, <2>8 DEF CalmInv
  <1> QED
    BY <1>8, <1>9 DEF GameInv

-----------------------------------------------------------------------------
(* The invariant, and what it shows                                         *)

LEMMA GameInit == Init => GameInv
  <1> SUFFICES ASSUME Init PROVE GameInv
    OBVIOUS
  <1>1. turns = <<>> /\ changes = {} /\ jobs = {} /\ issued = 0 /\ calm = TRUE
    BY DEF Init
  <1>2. TypesOver({}) /\ DOMAIN turns = {}
    <2>1. <<>> \in Seq(Rows({})) /\ DOMAIN <<>> = {}
      OBVIOUS
    <2> QED
      BY <1>1, <2>1 DEF TypesOver
  <1>3. Types
    <2>1. \E U : TypesOver(U)
      BY <1>2
    <2> QED
      BY <1>1, <2>1, FS_EmptySet DEF Types
  <1>4. Numbered
    BY <1>1, <1>2 DEF Numbered
  <1>5. CalmInv
    BY <1>1, <1>2 DEF CalmInv, Alone, Placed
  <1> QED
    BY <1>1, <1>3, <1>4, <1>5 DEF GameInv

LEMMA GameStep == GameInv /\ [Next]_vars => GameInv'
  <1> SUFFICES ASSUME GameInv, [Next]_vars PROVE GameInv'
    OBVIOUS
  <1>1. CASE Submit \/ RegenerateTurn \/ RegenerateProse \/ Crash
    BY <1>1, SubmitGoesOn, RegenerateTurnGoesOn, RegenerateProseGoesOn, CrashGoesOn
  <1>2. CASE \E job \in jobs : Cancel(job)
    BY <1>2, CancelGoesOn
  <1>3. CASE \E i \in 0..MaxTurns : Rewind(i)
    BY <1>3, RewindGoesOn
  <1>4. CASE \E i \in DOMAIN turns : EditMechanics(i) \/ RecheckState(i)
    BY <1>4, EditMechanicsGoesOn, RecheckStateGoesOn
  <1>5. CASE \E job \in jobs : TurnStep(job) \/ RecheckStep(job) \/ SummaryStep(job)
    BY <1>5, StepGoesOn
  <1>6. CASE UNCHANGED vars
    BY <1>6 DEF vars, GameInv, Types, TypesOver, Numbered, CalmInv, Alone, Placed, Ids, TurnInv,
                NoneLiveOn, ChangesOf
  <1> QED
    BY <1>1, <1>2, <1>3, <1>4, <1>5, <1>6 DEF Next

LEMMA Invariance == Spec => []GameInv
  BY GameInit, GameStep, PTL DEF Spec

\* The changes of turns nobody works on are what their audits name, of all of
\* them or of some.
LEMMA AuditsTell ==
    ASSUME GameInv, calm, \A job \in jobs : Live(job) => job.turn = 0
    PROVE  /\ changes = Audited(turns)
           /\ \A i \in DOMAIN turns : ToSet(turns[i].audit) = {c \in changes : c[1] = turns[i].id}
  <1>1. ASSUME NEW i \in DOMAIN turns
        PROVE  ToSet(turns[i].audit) = {c \in changes : c[1] = turns[i].id}
    <2>1. PICK U : turns \in Seq(Rows(U))
      BY DEF GameInv, Types, TypesOver
    <2>2. turns[i].id # 0
      <3>1. turns[i] \in Rows(U)
        BY <2>1
      <3> QED
        BY <3>1 DEF Rows
    <2>3. NoneLiveOn(turns[i].id)
      BY <2>2 DEF NoneLiveOn
    <2> QED
      BY <2>3 DEF GameInv, CalmInv, TurnInv, Free, ChangesOf
  <1>2. changes \subseteq Audited(turns)
    <2> SUFFICES ASSUME NEW c \in changes PROVE c \in Audited(turns)
      OBVIOUS
    <2>1. PICK i \in DOMAIN turns : turns[i].id = c[1]
      BY DEF GameInv, CalmInv, Placed, Ids
    <2>2. c \in ToSet(turns[i].audit)
      BY <1>1, <2>1
    <2> QED
      BY <2>2 DEF Audited
  <1>3. Audited(turns) \subseteq changes
    BY <1>1 DEF Audited
  <1> QED
    BY <1>1, <1>2, <1>3

\* Every change a turn made to the game's state is in its audit, so that it can be
\* undone, and the audit names no other, whatever was cancelled, failed,
\* regenerated, rechecked, rewound or stopped on the way.
THEOREM AuditsTellTheChanges == Spec => []AuditsAreTheChanges
  <1>1. GameInv => AuditsAreTheChanges
    <2> SUFFICES ASSUME GameInv, calm, \A job \in jobs : Live(job) => job.kind = "summarize"
                 PROVE  changes = Audited(turns)
      BY DEF AuditsAreTheChanges
    <2>1. \A job \in jobs : Live(job) => job.turn = 0
      BY DEF GameInv, Shape
    <2> QED
      BY <2>1, AuditsTell
  <1> QED
    BY <1>1, Invariance, PTL

\* A fork at a completed turn, which undoes the changes of the turns it leaves out,
\* has those of the turns it keeps and no other.
THEOREM ForksAreWhole == Spec => []ForkIsWhole
  <1>1. GameInv => ForkIsWhole
    <2> SUFFICES ASSUME GameInv, NEW i \in DOMAIN turns, calm, \A job \in jobs : ~Live(job)
                 PROVE  ForkedChanges(i) = Audited(ForkedTurns(i))
      BY DEF ForkIsWhole
    <2>1. PICK U : turns \in Seq(Rows(U))
      BY DEF GameInv, Types, TypesOver
    <2>2. /\ Len(turns) \in Nat /\ DOMAIN turns = 1..Len(turns) /\ i \in 1..Len(turns)
      BY <2>1
    <2> DEFINE kept == SubSeq(turns, 1, i)
               dropped == SubSeq(turns, i + 1, Len(turns))
    <2>3. /\ DOMAIN kept = 1..i /\ \A k \in 1..i : kept[k] = turns[k] /\ k \in DOMAIN turns
          /\ \A k \in DOMAIN turns : k \in 1..i \/ k > i
      BY <2>1, <2>2
    <2>4. /\ \A k \in DOMAIN turns : k > i => k - i \in DOMAIN dropped /\ dropped[k - i] = turns[k]
          /\ \A k \in DOMAIN dropped : k + i \in DOMAIN turns /\ k + i > i /\ dropped[k] = turns[k + i]
      <3>1. turns \in Seq(Rows(U)) /\ i \in Nat /\ i <= Len(turns)
        BY <2>1, <2>2
      <3> QED
        BY <3>1, RestIs, Zenon
    <2> HIDE DEF kept, dropped
    <2>5. /\ changes = Audited(turns)
          /\ \A k \in DOMAIN turns : ToSet(turns[k].audit) = {c \in changes : c[1] = turns[k].id}
      BY AuditsTell
    <2>6. \A k, l \in DOMAIN turns : turns[k].id = turns[l].id => k = l
      BY DEF GameInv, Numbered
    <2>7. ASSUME NEW c \in changes, c \notin Audited(dropped) PROVE c \in Audited(kept)
      <3>1. PICK k \in DOMAIN turns : c \in ToSet(turns[k].audit)
        BY <2>5 DEF Audited
      <3>2. ~(k > i)
        BY <2>4, <2>7, <3>1 DEF Audited
      <3> QED
        BY <2>3, <3>1, <3>2 DEF Audited
    <2>8. ASSUME NEW c \in Audited(kept) PROVE c \in changes /\ c \notin Audited(dropped)
      <3>1. PICK k \in 1..i : c \in ToSet(turns[k].audit) /\ k \in DOMAIN turns
        BY <2>3, <2>8 DEF Audited
      <3>2. ASSUME c \in Audited(dropped) PROVE FALSE
        <4>1. PICK n \in DOMAIN dropped : c \in ToSet(dropped[n].audit)
          BY <3>2 DEF Audited
        <4>2. n + i \in DOMAIN turns /\ n + i > i /\ c \in ToSet(turns[n + i].audit)
          BY <2>4, <4>1
        <4>3. turns[n + i].id = turns[k].id
          BY <2>5, <3>1, <4>2
        <4>4. n + i = k
          BY <2>6, <3>1, <4>2, <4>3
        <4> QED
          BY <2>2, <4>2, <4>4
      <3> QED
        BY <2>5, <3>1, <3>2
    <2> QED
      BY <2>7, <2>8 DEF ForkedChanges, ForkedTurns, kept, dropped
  <1> QED
    BY <1>1, Invariance, PTL

\* A completed turn has prose or a thought, and its markers name what was rolled, what
\* came of the tools unless the user wrote the list of it, and what was changed, each
\* check once, whatever runs were needed to complete it.
THEOREM DoneTurnsAreWhole == Spec => []DoneTurnIsWhole
  <1>1. GameInv => DoneTurnIsWhole
    <2> SUFFICES ASSUME GameInv, NEW i \in DOMAIN turns, calm, turns[i].phase = "done"
                 PROVE  /\ HasContent(turns[i].prose)
                        /\ \A k \in 1..turns[i].prose.checks :
                              Cardinality({j \in DOMAIN turns[i].checks : turns[i].checks[j] = k - 1}) = 1
                        /\ turns[i].edited \/ turns[i].prose.results <= Len(turns[i].results)
                        /\ turns[i].prose.changes <= Len(turns[i].audit)
      BY DEF DoneTurnIsWhole, ToSet
    <2> DEFINE turn == turns[i]
               checks == turn.checks
    <2>1. PICK U : turns \in Seq(Rows(U)) /\ jobs \subseteq Jobs(U)
      BY DEF GameInv, Types, TypesOver
    <2>2. turn \in Rows(U) /\ turn.id # 0 /\ TurnInv(turn)
      <3>1. turn \in Rows(U)
        BY <2>1
      <3> QED
        BY <3>1 DEF Rows, GameInv, CalmInv
    <2>3. Tells(turn)
      <3>1. CASE NoneLiveOn(turn.id)
        BY <2>2, <3>1 DEF TurnInv, Free
      <3>2. CASE ~NoneLiveOn(turn.id)
        <4>1. PICK job \in jobs : Live(job) /\ job.turn = turn.id
          BY <3>2 DEF NoneLiveOn
        <4>2. Held(turn, ChangesOf(turn.id), job) /\ Shape(job) /\ job \in Jobs(U)
          BY <2>1, <2>2, <4>1 DEF TurnInv, GameInv
        <4>3. job.step # "summarize" /\ job.step # "queued"
          BY <2>2, <4>1, <4>2 DEF Shape, Live
        <4> QED
          BY <4>2, <4>3 DEF Jobs, Steps, Held, Rolled, Told, Free, Rolling, Telling, Ending
      <3> QED
        BY <3>1, <3>2
    <2>4. /\ checks \in Seq(Nat) /\ DOMAIN checks = 1..Len(checks) /\ Len(checks) \in Nat
          /\ \A k \in DOMAIN checks : checks[k] = k - 1
          /\ turn.prose.checks <= Len(checks) /\ turn.prose.checks \in Nat
      BY <2>2, <2>3 DEF Rows, Proses, TurnInv, Sound, InOrder, Tells, MarkersFit
    <2> HIDE DEF turn
    <2>5. ASSUME NEW k \in 1..turn.prose.checks
          PROVE  Cardinality({j \in DOMAIN checks : checks[j] = k - 1}) = 1
      <3>1. k \in DOMAIN checks /\ \A j \in DOMAIN checks : j - 1 = k - 1 => j = k
        BY <2>4
      <3>2. {j \in DOMAIN checks : checks[j] = k - 1} = {k}
        BY <2>4, <3>1
      <3> QED
        BY <3>2, FS_Singleton
    <2> QED
      BY <2>3, <2>5 DEF Tells, MarkersFit, turn
  <1> QED
    BY <1>1, Invariance, PTL

-----------------------------------------------------------------------------
(* What a replay makes of the results *)

\* Induction up to n, for a set.
LEMMA UpTo ==
    ASSUME NEW n \in Nat, NEW S, 0 \in S, \A i \in 1..n : i - 1 \in S => i \in S
    PROVE  0..n \subseteq S
  <1> DEFINE R == OpToRel(<, Nat)
             T == {i \in 0..n : i \notin S}
  <1>1. IsWellFoundedOn(R, Nat) /\ \A i \in 1..n : <<i - 1, i>> \in R
    BY NatLessThanWellFounded DEF OpToRel
  <1> SUFFICES ASSUME T # {} PROVE FALSE
    OBVIOUS
  <1>2. T \subseteq Nat
    OBVIOUS
  <1> HIDE DEF R
  <1>3. PICK x \in T : \A y \in T : <<y, x>> \notin R
    <2> HIDE DEF T
    <2> QED
      BY <1>1, <1>2, WFMin
  <1>4. x \in 1..n /\ x - 1 \in T
    OBVIOUS
  <1> QED
    BY <1>1, <1>3, <1>4

LEMMA ReplayedIs ==
    ASSUME NEW deck0, NEW results, Len(results) \in Nat
    PROVE  \E decks :
              /\ decks = [i \in 0..Len(results) |->
                             IF i = 0 THEN deck0 ELSE ApplyResult(decks[i - 1], results[i])]
              /\ Replayed(deck0, results) = decks[Len(results)]
  <1> DEFINE n == Len(results)
             Def(m, g) == g = [i \in 0..m |-> IF i = 0 THEN deck0 ELSE ApplyResult(g[i - 1], results[i])]
             S == {m \in 0..n : \E g : Def(m, g)}
             decks == CHOOSE g : Def(n, g)
  <1>1. 0 \in S
    <2> DEFINE g == [i \in 0..0 |-> deck0]
    <2>1. Def(0, g) /\ 0 \in 0..n
      OBVIOUS
    <2> HIDE DEF Def, g
    <2> QED
      BY <2>1
  <1>2. ASSUME NEW m \in 1..n, m - 1 \in S PROVE m \in S
    <2>1. PICK g : Def(m - 1, g)
      BY <1>2
    <2> DEFINE h == [i \in 0..m |-> IF i = m THEN ApplyResult(g[m - 1], results[m]) ELSE g[i]]
    <2>2. ASSUME NEW i \in 0..m
          PROVE  h[i] = IF i = 0 THEN deck0 ELSE ApplyResult(h[i - 1], results[i])
      <3>1. CASE i = m
        BY <3>1
      <3>2. CASE i # m
        <4>1. i \in 0..m - 1 /\ h[i] = g[i] /\ (i # 0 => i - 1 \in 0..m /\ i - 1 # m /\ h[i - 1] = g[i - 1])
          BY <3>2
        <4> QED
          BY <2>1, <4>1
      <3> QED
        BY <3>1, <3>2
    <2> HIDE DEF h
    <2>3. h = [i \in 0..m |-> h[i]]
      BY DEF h
    <2>4. Def(m, h)
      BY <2>2, <2>3
    <2> HIDE DEF Def
    <2> QED
      BY <2>4
  <1>3. n \in S
    <2>1. n \in Nat
      OBVIOUS
    <2> HIDE DEF S, n
    <2>2. 0..n \subseteq S
      BY <1>1, <1>2, <2>1, UpTo
    <2> QED
      BY <2>1, <2>2
  <1>4. Def(n, decks)
    <2> HIDE DEF Def
    <2> QED
      BY <1>3
  <1>5. Replayed(deck0, results) = decks[n]
    BY DEF Replayed
  <1> HIDE DEF decks
  <1> QED
    BY <1>4, <1>5

\* One more result is one more card drawn or one more move.
LEMMA ReplayedMore ==
    ASSUME NEW U, NEW results \in Seq(U), NEW r \in U, NEW deck0
    PROVE  /\ Replayed(deck0, <<>>) = deck0
           /\ Replayed(deck0, Append(results, r)) = ApplyResult(Replayed(deck0, results), r)
  <1> DEFINE n == Len(results)
             more == Append(results, r)
  <1>1. /\ n \in Nat /\ Len(more) = n + 1 /\ Len(more) \in Nat /\ more[n + 1] = r
        /\ \A i \in 1..n : more[i] = results[i]
    BY AppendProperties
  <1> HIDE DEF more
  <1>2. PICK d : /\ d = [i \in 0..n |-> IF i = 0 THEN deck0 ELSE ApplyResult(d[i - 1], results[i])]
                 /\ Replayed(deck0, results) = d[n]
    BY <1>1, ReplayedIs DEF n
  <1>3. PICK e : /\ e = [i \in 0..Len(more) |-> IF i = 0 THEN deck0 ELSE ApplyResult(e[i - 1], more[i])]
                 /\ Replayed(deck0, more) = e[Len(more)]
    BY <1>1, ReplayedIs
  <1> DEFINE S == {i \in 0..n : e[i] = d[i]}
  <1>4. 0 \in S
    BY <1>1, <1>2, <1>3
  <1>5. ASSUME NEW i \in 1..n, i - 1 \in S PROVE i \in S
    BY <1>1, <1>2, <1>3, <1>5
  <1>6. n \in S
    <2> HIDE DEF S, n
    <2>1. 0..n \subseteq S
      BY <1>1, <1>4, <1>5, UpTo
    <2> QED
      BY <1>1, <2>1
  <1>7. Replayed(deck0, more) = ApplyResult(d[n], r)
    BY <1>1, <1>3, <1>6
  <1>8. Replayed(deck0, <<>>) = deck0
    <2>1. Len(<<>>) = 0
      OBVIOUS
    <2> DEFINE none == <<>>
    <2>2. PICK f : /\ f = [i \in 0..Len(none) |-> IF i = 0 THEN deck0 ELSE ApplyResult(f[i - 1], none[i])]
                   /\ Replayed(deck0, none) = f[Len(none)]
      <3> HIDE DEF none
      <3> QED
        BY <2>1, ReplayedIs DEF none
    <2> QED
      BY <2>2
  <1> QED
    BY <1>2, <1>7, <1>8 DEF more

-----------------------------------------------------------------------------
(* Decks *)

Distinct(s) == \A i, k \in DOMAIN s : s[i] = s[k] => i = k
Piles == {s \in Seq(Cards) : Distinct(s)}
Proper(d) == d = Deck(d.pile, d.discard, d.at) /\ d.pile \in Piles

LEMMA DeckIs ==
    ASSUME NEW pile, NEW discard, NEW at
    PROVE  LET d == Deck(pile, discard, at)
           IN d.pile = pile /\ d.discard = discard /\ d.at = at
  BY DEF Deck

LEMMA ShuffledIs ==
    ASSUME NEW d \in Shuffled
    PROVE  Proper(d)
  <1>1. PICK pile \in SetToSeqs(Cards) : d = Deck(pile, {}, 0)
    BY DEF Shuffled
  <1>2. Cardinality(Cards) \in Nat
    BY MechanicsAssumption, FS_CardinalityType
  <1>3. pile \in [1..Cardinality(Cards) -> Cards]
        /\ \A i, k \in 1..Cardinality(Cards) : i # k => pile[i] # pile[k]
    BY DEF SetToSeqs
  <1>4. pile \in Seq(Cards) /\ DOMAIN pile = 1..Cardinality(Cards)
    BY <1>2, <1>3
  <1>5. d.pile = pile /\ d = Deck(d.pile, d.discard, d.at)
    BY <1>1, DeckIs
  <1>6. Distinct(pile)
    BY <1>3, <1>4 DEF Distinct
  <1> QED
    BY <1>4, <1>5, <1>6 DEF Proper, Piles

\* A pile without its first card, and without a card that is somewhere in it.
LEMMA PileWithout ==
    ASSUME NEW pile \in Piles, NEW i \in DOMAIN pile
    PROVE  RemoveAt(pile, i) \in Piles /\ ToSet(RemoveAt(pile, i)) = ToSet(pile) \ {pile[i]}
  <1> DEFINE a == SubSeq(pile, 1, i - 1)
             b == SubSeq(pile, i + 1, Len(pile))
             rest == RemoveAt(pile, i)
             At(k) == IF k < i THEN pile[k] ELSE pile[k + 1]
  <1>1. pile \in Seq(Cards) /\ Distinct(pile) /\ Len(pile) \in Nat /\ DOMAIN pile = 1..Len(pile)
    BY DEF Piles
  <1>2. /\ a \in Seq(Cards) /\ Len(a) = i - 1 /\ \A k \in 1..i - 1 : a[k] = pile[k]
        /\ b \in Seq(Cards) /\ Len(b) = Len(pile) - i /\ \A k \in 1..Len(pile) - i : b[k] = pile[i + k]
    BY <1>1
  <1>3. rest = a \o b
    BY DEF RemoveAt
  <1> HIDE DEF a, b, rest
  <1>4. /\ rest \in Seq(Cards) /\ Len(rest) = Len(pile) - 1 /\ DOMAIN rest = 1..Len(pile) - 1
        /\ \A k \in 1..Len(pile) - 1 : rest[k] = At(k)
    <2>1. /\ rest \in Seq(Cards) /\ Len(rest) = Len(a) + Len(b)
          /\ \A k \in 1..Len(a) + Len(b) : rest[k] = IF k <= Len(a) THEN a[k] ELSE b[k - Len(a)]
      BY <1>2, <1>3, ConcatProperties
    <2>2. i \in 1..Len(pile) /\ Len(a) + Len(b) = Len(pile) - 1
      BY <1>1, <1>2
    <2>3. ASSUME NEW k \in 1..Len(pile) - 1 PROVE rest[k] = At(k)
      <3>1. CASE k < i
        <4>1. k <= Len(a) /\ k \in 1..i - 1 /\ k \in 1..Len(a) + Len(b)
          BY <1>1, <1>2, <2>2, <3>1
        <4> QED
          BY <1>2, <2>1, <3>1, <4>1
      <3>2. CASE ~(k < i)
        <4>1. ~(k <= Len(a)) /\ k - Len(a) \in 1..Len(pile) - i /\ i + (k - Len(a)) = k + 1 /\ k \in 1..Len(a) + Len(b)
          BY <1>1, <1>2, <2>2, <3>2
        <4>2. rest[k] = b[k - Len(a)]
          BY <2>1, <4>1
        <4>3. b[k - Len(a)] = pile[i + (k - Len(a))]
          BY <1>2, <4>1
        <4> QED
          BY <3>2, <4>1, <4>2, <4>3
      <3> QED
        BY <3>1, <3>2
    <2>4. DOMAIN rest = 1..Len(rest)
      BY <2>1
    <2> QED
      BY <2>1, <2>2, <2>3, <2>4
  <1>5. \A k \in 1..Len(pile) - 1 : /\ (IF k < i THEN k ELSE k + 1) \in DOMAIN pile
                                    /\ (IF k < i THEN k ELSE k + 1) # i
    BY <1>1
  <1>6. Distinct(rest)
    <2> SUFFICES ASSUME NEW j \in 1..Len(pile) - 1, NEW k \in 1..Len(pile) - 1, At(j) = At(k)
                 PROVE  j = k
      BY <1>4 DEF Distinct
    <2> QED
      BY <1>1, <1>5 DEF Distinct
  <1>7. ToSet(rest) \subseteq ToSet(pile) \ {pile[i]}
    BY <1>1, <1>4, <1>5 DEF ToSet, Distinct
  <1>8. ASSUME NEW c \in ToSet(pile) \ {pile[i]} PROVE c \in ToSet(rest)
    <2>1. PICK k \in DOMAIN pile : c = pile[k] /\ k # i
      BY DEF ToSet
    <2>2. CASE k < i
      <3>1. k \in DOMAIN rest /\ rest[k] = c
        BY <1>1, <1>4, <2>1, <2>2
      <3> QED
        BY <3>1 DEF ToSet
    <2>3. CASE k > i
      <3>1. k - 1 \in DOMAIN rest /\ rest[k - 1] = c
        BY <1>1, <1>4, <2>1, <2>3
      <3> QED
        BY <3>1 DEF ToSet
    <2> QED
      BY <1>1, <2>1, <2>2, <2>3
  <1> QED
    BY <1>4, <1>6, <1>7, <1>8 DEF Piles, rest

LEMMA FirstRemoved ==
    ASSUME NEW pile \in Piles, NEW card
    PROVE  RemoveFirst(pile, card) \in Piles /\ ToSet(RemoveFirst(pile, card)) = ToSet(pile) \ {card}
  <1>1. pile \in Seq(Cards) /\ DOMAIN pile = 1..Len(pile) /\ Distinct(pile)
    BY DEF Piles
  <1>2. CASE card \notin ToSet(pile)
    BY <1>1, <1>2 DEF RemoveFirst, ToSet
  <1>3. CASE card \in ToSet(pile)
    <2>1. PICK i \in DOMAIN pile : pile[i] = card
      BY <1>3 DEF ToSet
    <2>2. {k \in 1..Len(pile) : pile[k] = card} = {i}
      BY <1>1, <2>1 DEF Distinct
    <2>3. SelectInSeq(pile, LAMBDA v : v = card) = i
      BY <1>1, <2>1, <2>2 DEF SelectInSeq, Min
    <2>4. RemoveFirst(pile, card) = RemoveAt(pile, i)
      BY <1>1, <2>1, <2>3 DEF RemoveFirst
    <2> QED
      BY <2>1, <2>4, PileWithout
  <1> QED
    BY <1>2, <1>3

LEMMA FirstDrawn ==
    ASSUME NEW pile \in Piles, pile # <<>>
    PROVE  Tail(pile) \in Piles /\ ToSet(Tail(pile)) = ToSet(pile) \ {Head(pile)}
  <1>1. pile \in Seq(Cards) /\ Len(pile) \in Nat /\ DOMAIN pile = 1..Len(pile) /\ Len(pile) > 0
        /\ Head(pile) = pile[1] /\ 1 \in DOMAIN pile
    BY EmptySeq DEF Piles
  <1>2. RemoveAt(pile, 1) = Tail(pile)
    <2>1. SubSeq(pile, 1, 0) = <<>> /\ SubSeq(pile, 2, Len(pile)) = Tail(pile)
      BY <1>1, TailIsSubSeq, SubSeqEmpty
    <2>2. Tail(pile) \in Seq(Cards)
      BY <1>1
    <2> QED
      BY <2>1, <2>2, ConcatEmptySeq DEF RemoveAt
  <1> QED
    BY <1>1, <1>2, PileWithout

\* What a result makes of a deck depends on what the deck shows, and on nothing else.
LEMMA Applied ==
    ASSUME NEW d, Proper(d), NEW r
    PROVE  /\ Proper(ApplyResult(d, r))
           /\ Shown(ApplyResult(d, r)) =
                  IF r.kind = "move" THEN [Shown(d) EXCEPT !.at = r.to]
                  ELSE IF r.kind = "draw" /\ r.consumed
                  THEN [left |-> Shown(d).left \ {r.card}, discard |-> Shown(d).discard \cup {r.card},
                        at |-> Shown(d).at]
                  ELSE Shown(d)
  <1>1. d = Deck(d.pile, d.discard, d.at) /\ d.pile \in Piles
    BY DEF Proper
  <1>2. CASE r.kind = "move"
    <2>1. ApplyResult(d, r) = Deck(d.pile, d.discard, r.to)
      BY <1>1, <1>2, Zenon DEF ApplyResult, Deck
    <2> QED
      BY <1>1, <1>2, <2>1, DeckIs DEF Proper, Shown
  <1>3. CASE r.kind = "draw" /\ r.consumed
    <2>1. ApplyResult(d, r) = Deck(RemoveFirst(d.pile, r.card), d.discard \cup {r.card}, d.at)
      BY <1>3 DEF ApplyResult
    <2>2. RemoveFirst(d.pile, r.card) \in Piles
          /\ ToSet(RemoveFirst(d.pile, r.card)) = ToSet(d.pile) \ {r.card}
      BY <1>1, FirstRemoved
    <2>3. /\ ApplyResult(d, r).pile = RemoveFirst(d.pile, r.card)
          /\ ApplyResult(d, r).discard = d.discard \cup {r.card} /\ ApplyResult(d, r).at = d.at
      BY <2>1, DeckIs
    <2> HIDE DEF ApplyResult
    <2>4. Proper(ApplyResult(d, r))
      BY <2>1, <2>2, <2>3 DEF Proper
    <2>5. r.kind # "move"
      BY <1>3
    <2> QED
      BY <1>3, <2>2, <2>3, <2>4, <2>5 DEF Shown
  <1>4. CASE ~(r.kind = "move") /\ ~(r.kind = "draw" /\ r.consumed)
    <2>1. ApplyResult(d, r) = d
      BY <1>4 DEF ApplyResult
    <2> QED
      BY <1>4, <2>1
  <1> QED
    BY <1>2, <1>3, <1>4

\* What a tool makes of a deck is what its result says.
LEMMA OutcomeIs ==
    ASSUME NEW d, Proper(d), NEW outcome \in ToolOutcomes(d)
    PROVE  Proper(outcome.deck) /\ Shown(outcome.deck) = Shown(ApplyResult(d, outcome.result))
  <1>1. d = Deck(d.pile, d.discard, d.at) /\ d.pile \in Piles
    BY DEF Proper
  <1>2. CASE \E roll \in Rolls : outcome = MovePawn(d, roll)
    <2>1. PICK roll \in Rolls : outcome = MovePawn(d, roll)
      BY <1>2
    <2>2. outcome.deck = [d EXCEPT !.at = MoveTo(d, roll)] /\ outcome.result = Move(MoveTo(d, roll))
      BY <2>1 DEF MovePawn
    <2>3. outcome.result.kind = "move" /\ outcome.result.to = MoveTo(d, roll)
      BY <2>2 DEF Move
    <2>4. ApplyResult(d, outcome.result) = outcome.deck
      BY <2>2, <2>3 DEF ApplyResult
    <2> QED
      BY <2>4, Applied
  <1>3. CASE \E consume \in BOOLEAN : outcome = DrawCard(d, consume) /\ d.pile # <<>>
    <2>1. PICK consume \in BOOLEAN : outcome = DrawCard(d, consume) /\ d.pile # <<>>
      BY <1>3
    <2>2. /\ outcome.deck = IF consume THEN Deck(Tail(d.pile), d.discard \cup {Head(d.pile)}, d.at) ELSE d
          /\ outcome.result = Draw(Head(d.pile), consume)
      BY <2>1 DEF DrawCard
    <2>3. outcome.result.kind = "draw" /\ outcome.result.card = Head(d.pile) /\ outcome.result.consumed = consume
      BY <2>2 DEF Draw
    <2>4. CASE consume
      <3>1. ApplyResult(d, outcome.result)
                = Deck(RemoveFirst(d.pile, Head(d.pile)), d.discard \cup {Head(d.pile)}, d.at)
        BY <2>3, <2>4 DEF ApplyResult
      <3>2. /\ ToSet(RemoveFirst(d.pile, Head(d.pile))) = ToSet(Tail(d.pile)) /\ Tail(d.pile) \in Piles
        BY <1>1, <2>1, FirstRemoved, FirstDrawn
      <3>3. outcome.deck = Deck(Tail(d.pile), d.discard \cup {Head(d.pile)}, d.at)
        BY <2>2, <2>4
      <3> QED
        BY <3>1, <3>2, <3>3, DeckIs DEF Proper, Shown
    <2>5. CASE ~consume
      <3>1. ApplyResult(d, outcome.result) = d /\ outcome.deck = d
        BY <2>2, <2>3, <2>5 DEF ApplyResult
      <3> QED
        BY <3>1
    <2> QED
      BY <2>4, <2>5
  <1> QED
    BY <1>2, <1>3 DEF ToolOutcomes

\* A replay gives a deck in order: no card twice.
LEMMA ReplayIsProper ==
    ASSUME NEW U, NEW results \in Seq(U), NEW d \in Replay(results)
    PROVE  Proper(d)
  <1> DEFINE n == Len(results)
  <1>1. PICK deck0 \in Shuffled : d = Replayed(deck0, results)
    BY DEF Replay
  <1>2. n \in Nat /\ Len(results) \in Nat
    OBVIOUS
  <1>3. PICK g : /\ g = [i \in 0..n |-> IF i = 0 THEN deck0 ELSE ApplyResult(g[i - 1], results[i])]
                 /\ Replayed(deck0, results) = g[n]
    BY <1>2, ReplayedIs
  <1> DEFINE S == {i \in 0..n : Proper(g[i])}
  <1> HIDE DEF n
  <1>4. 0 \in S
    <2>1. g[0] = deck0 /\ 0 \in 0..n
      BY <1>2, <1>3
    <2> QED
      BY <2>1, ShuffledIs
  <1>5. ASSUME NEW i \in 1..n, i - 1 \in S PROVE i \in S
    <2>1. g[i] = ApplyResult(g[i - 1], results[i]) /\ Proper(g[i - 1]) /\ i \in 0..n
      BY <1>2, <1>3, <1>5
    <2>2. Proper(g[i])
      BY <2>1, Applied
    <2> QED
      BY <2>1, <2>2
  <1> HIDE DEF S
  <1>6. 0..n \subseteq S
    BY <1>2, <1>4, <1>5, UpTo
  <1> QED
    BY <1>1, <1>2, <1>3, <1>6 DEF S

LEMMA Replays ==
    ASSUME NEW results, NEW d \in Replay(results)
    PROVE  Accounts(d, results)
  BY DEF Accounts

\* A deck that nothing was recorded of.
LEMMA Unplayed ==
    ASSUME NEW d \in Shuffled
    PROVE  Proper(d) /\ Accounts(d, <<>>)
  <1>1. Replayed(d, <<>>) = d
    <2>1. <<>> \in Seq({1}) /\ 1 \in {1}
      OBVIOUS
    <2> QED
      BY <2>1, ReplayedMore
  <1>2. d \in Replay(<<>>)
    BY <1>1 DEF Replay
  <1> QED
    BY <1>2, ShuffledIs, Replays

\* One more tool call, recorded, keeps the account.
LEMMA CallAccounts ==
    ASSUME NEW U, NEW results \in Seq(U), NEW d, Proper(d), Accounts(d, results),
           NEW outcome \in ToolOutcomes(d), outcome.result \in U
    PROVE  Proper(outcome.deck) /\ Accounts(outcome.deck, Append(results, outcome.result))
  <1> DEFINE r == outcome.result
  <1>1. PICK e \in Replay(results) : Shown(d) = Shown(e)
    BY DEF Accounts
  <1>2. PICK deck0 \in Shuffled : e = Replayed(deck0, results)
    BY <1>1 DEF Replay
  <1>3. Replayed(deck0, Append(results, r)) = ApplyResult(e, r)
    BY <1>2, ReplayedMore
  <1>4. ApplyResult(e, r) \in Replay(Append(results, r))
    BY <1>3 DEF Replay
  <1>5. Proper(e)
    BY <1>1, ReplayIsProper
  <1>6. Proper(outcome.deck) /\ Shown(outcome.deck) = Shown(ApplyResult(d, r))
    BY OutcomeIs
  <1>7. Shown(ApplyResult(d, r)) = Shown(ApplyResult(e, r))
    BY <1>1, <1>5, Applied
  <1> QED
    BY <1>4, <1>6, <1>7 DEF Accounts

-----------------------------------------------------------------------------
(* The results of the turns                                                  *)

LEMMA FlattenIs ==
    ASSUME NEW ss, Len(ss) \in Nat \ {0}
    PROVE  \E g : /\ g = [i \in 1..Len(ss) |-> IF i = 1 THEN ss[i] ELSE g[i - 1] \o ss[i]]
                  /\ FlattenSeq(ss) = g[Len(ss)]
  <1> DEFINE n == Len(ss)
             Def(m, g) == g = [i \in 1..m |-> IF i = 1 THEN ss[i] ELSE g[i - 1] \o ss[i]]
             S == {m \in 0..n : \E g : Def(m, g)}
             flat == CHOOSE g : Def(n, g)
  <1>1. 0 \in S
    <2> DEFINE g == [i \in 1..0 |-> ss[i]]
    <2>1. Def(0, g) /\ 0 \in 0..n
      OBVIOUS
    <2> HIDE DEF Def, g
    <2> QED
      BY <2>1
  <1>2. ASSUME NEW m \in 1..n, m - 1 \in S PROVE m \in S
    <2>1. PICK g : Def(m - 1, g)
      BY <1>2
    <2> DEFINE h == [i \in 1..m |-> IF i = m THEN (IF m = 1 THEN ss[m] ELSE g[m - 1] \o ss[m]) ELSE g[i]]
    <2>2. ASSUME NEW i \in 1..m
          PROVE  h[i] = IF i = 1 THEN ss[i] ELSE h[i - 1] \o ss[i]
      <3>1. CASE i = m
        BY <3>1
      <3>2. CASE i # m
        <4>1. i \in 1..m - 1 /\ h[i] = g[i] /\ (i # 1 => i - 1 \in 1..m /\ i - 1 # m /\ h[i - 1] = g[i - 1])
          BY <3>2
        <4> QED
          BY <2>1, <4>1
      <3> QED
        BY <3>1, <3>2
    <2> HIDE DEF h
    <2>3. h = [i \in 1..m |-> h[i]]
      BY DEF h
    <2>4. Def(m, h)
      BY <2>2, <2>3
    <2> HIDE DEF Def
    <2> QED
      BY <2>4
  <1>3. n \in S
    <2>1. n \in Nat
      OBVIOUS
    <2> HIDE DEF S, n
    <2>2. 0..n \subseteq S
      BY <1>1, <1>2, <2>1, UpTo
    <2> QED
      BY <2>1, <2>2
  <1>4. Def(n, flat)
    <2> HIDE DEF Def
    <2> QED
      BY <1>3
  <1>5. FlattenSeq(ss) = flat[n]
    BY DEF FlattenSeq
  <1> HIDE DEF flat
  <1> QED
    BY <1>4, <1>5

LEMMA FlattenMore ==
    ASSUME NEW U, NEW ss \in Seq(Seq(U)), NEW s \in Seq(U)
    PROVE  /\ FlattenSeq(ss) \in Seq(U)
           /\ FlattenSeq(Append(ss, s)) = FlattenSeq(ss) \o s
  <1> DEFINE n == Len(ss)
             more == Append(ss, s)
  <1>1. /\ n \in Nat /\ Len(more) = n + 1 /\ Len(more) \in Nat \ {0} /\ more[n + 1] = s
        /\ \A i \in 1..n : more[i] = ss[i] /\ ss[i] \in Seq(U)
    BY AppendProperties
  <1> HIDE DEF more
  <1>2. PICK e : /\ e = [i \in 1..Len(more) |-> IF i = 1 THEN more[i] ELSE e[i - 1] \o more[i]]
                 /\ FlattenSeq(more) = e[Len(more)]
    BY <1>1, FlattenIs
  <1>3. CASE ss = <<>>
    <2>1. n = 0 /\ FlattenSeq(ss) = <<>>
      BY <1>3 DEF FlattenSeq
    <2>2. FlattenSeq(more) = s
      BY <1>1, <1>2, <2>1
    <2>3. <<>> \o s = s /\ <<>> \in Seq(U)
      BY ConcatEmptySeq
    <2> QED
      BY <2>1, <2>2, <2>3 DEF more
  <1>4. CASE ss # <<>>
    <2>1. n \in Nat \ {0} /\ Len(ss) \in Nat \ {0}
      BY <1>4, EmptySeq
    <2>2. PICK d : /\ d = [i \in 1..n |-> IF i = 1 THEN ss[i] ELSE d[i - 1] \o ss[i]]
                   /\ FlattenSeq(ss) = d[n]
      BY <2>1, FlattenIs DEF n
    <2> DEFINE S == {i \in 0..n : i = 0 \/ (e[i] = d[i] /\ d[i] \in Seq(U))}
    <2>3. 0 \in S
      BY <1>1
    <2>4. ASSUME NEW i \in 1..n, i - 1 \in S PROVE i \in S
      <3>1. CASE i = 1
        BY <1>1, <1>2, <2>2, <3>1
      <3>2. CASE i # 1
        <4>1. e[i - 1] = d[i - 1] /\ d[i - 1] \in Seq(U)
          BY <2>4, <3>2
        <4>2. i \in 1..n /\ i \in 1..Len(more) /\ more[i] = ss[i] /\ ss[i] \in Seq(U)
          BY <1>1
        <4>3. d[i] = d[i - 1] \o ss[i]
          BY <2>2, <3>2, <4>2
        <4>4. e[i] = e[i - 1] \o ss[i]
          <5>1. e[i] = IF i = 1 THEN more[i] ELSE e[i - 1] \o more[i]
            BY <1>2, <4>2
          <5> QED
            BY <3>2, <4>2, <5>1
        <4>5. d[i] \in Seq(U)
          BY <4>1, <4>2, <4>3, ConcatProperties
        <4> HIDE DEF n
        <4>6. i \in 0..n /\ e[i] = d[i]
          BY <1>1, <4>1, <4>3, <4>4
        <4> QED
          BY <4>5, <4>6
      <3> QED
        BY <3>1, <3>2
    <2>5. e[n] = d[n] /\ d[n] \in Seq(U)
      <3> HIDE DEF S, n
      <3>1. 0..n \subseteq S
        BY <1>1, <2>3, <2>4, UpTo
      <3> QED
        BY <1>1, <2>1, <3>1 DEF S
    <2>6. FlattenSeq(more) = d[n] \o s
      <3> HIDE DEF n
      <3>1. n + 1 # 1 /\ n + 1 \in 1..Len(more) /\ (n + 1) - 1 = n
        BY <1>1, <2>1
      <3> QED
        <4>1. e[n + 1] = e[n] \o more[n + 1]
          <5>1. e[n + 1] = IF n + 1 = 1 THEN more[n + 1] ELSE e[(n + 1) - 1] \o more[n + 1]
            BY <1>2, <3>1
          <5> QED
            BY <3>1, <5>1
        <4> QED
          BY <1>1, <1>2, <2>5, <4>1
    <2> QED
      BY <2>2, <2>5, <2>6 DEF more
  <1> QED
    BY <1>3, <1>4

\* The results of the turns before the last one.
Before == AllResults(Front(turns))

LEMMA ResultsMore ==
    ASSUME NEW U, NEW rows \in Seq(Rows(U)), NEW row \in Rows(U)
    PROVE  /\ AllResults(rows) \in Seq(U) /\ AllResults(<<>>) = <<>>
           /\ AllResults(Append(rows, row)) = AllResults(rows) \o row.results
  <1> DEFINE ss == [i \in DOMAIN rows |-> rows[i].results]
             more == Append(rows, row)
  <1>1. /\ DOMAIN rows = 1..Len(rows) /\ Len(rows) \in Nat
        /\ more \in Seq(Rows(U)) /\ DOMAIN more = 1..Len(rows) + 1 /\ more[Len(rows) + 1] = row
        /\ \A i \in 1..Len(rows) : more[i] = rows[i] /\ rows[i].results \in Seq(U)
        /\ row.results \in Seq(U)
    <2>1. \A r \in Rows(U) : r.results \in Seq(U)
      BY DEF Rows
    <2> QED
      BY <2>1, AppendProperties
  <1>2. ss \in Seq(Seq(U)) /\ Len(ss) = Len(rows)
    BY <1>1
  <1> HIDE DEF more
  <1>3. [i \in DOMAIN more |-> more[i].results] = Append(ss, row.results)
    BY <1>1, <1>2 DEF more
  <1>4. AllResults(<<>>) = <<>>
    <2>1. [i \in DOMAIN <<>> |-> <<>>[i].results] = <<>>
      OBVIOUS
    <2> QED
      BY <2>1 DEF AllResults, FlattenSeq
  <1> HIDE DEF ss
  <1>5. /\ FlattenSeq(ss) \in Seq(U)
        /\ FlattenSeq(Append(ss, row.results)) = FlattenSeq(ss) \o row.results
    BY <1>1, <1>2, FlattenMore
  <1>6. AllResults(rows) = FlattenSeq(ss) /\ AllResults(more) = FlattenSeq(Append(ss, row.results))
    BY <1>3 DEF AllResults, ss
  <1> QED
    BY <1>4, <1>5, <1>6 DEF more

\* Rows that differ in anything but their results.
LEMMA SameResults ==
    ASSUME NEW rows, NEW others, DOMAIN rows = DOMAIN others,
           \A i \in DOMAIN rows : rows[i].results = others[i].results
    PROVE  AllResults(rows) = AllResults(others)
  <1>1. [i \in DOMAIN rows |-> rows[i].results] = [i \in DOMAIN others |-> others[i].results]
    OBVIOUS
  <1> QED
    BY <1>1 DEF AllResults

LEMMA FrontIs ==
    ASSUME NEW S, NEW rows \in Seq(S), rows # <<>>
    PROVE  /\ Front(rows) \in Seq(S) /\ Len(Front(rows)) = Len(rows) - 1
           /\ \A i \in 1..Len(rows) - 1 : Front(rows)[i] = rows[i]
           /\ rows = Append(Front(rows), rows[Len(rows)]) /\ rows[Len(rows)] \in S
           /\ Len(rows) \in Nat \ {0}
  <1>1. Len(rows) \in Nat \ {0} /\ DOMAIN rows = 1..Len(rows) /\ \A i \in DOMAIN rows : rows[i] \in S
    BY EmptySeq
  <1>2. Front(rows) \in Seq(S) /\ Len(Front(rows)) = Len(rows) - 1
        /\ \A i \in 1..Len(rows) - 1 : Front(rows)[i] = rows[i]
    BY <1>1 DEF Front
  <1> DEFINE a == Append(Front(rows), rows[Len(rows)])
  <1>3. a \in Seq(S) /\ Len(a) = Len(rows) /\ \A i \in 1..Len(rows) : a[i] = rows[i]
    <2> DEFINE n == Len(rows)
    <2>0. n \in Nat \ {0} /\ rows[n] \in S /\ Len(Front(rows)) = n - 1
      BY <1>1, <1>2
    <2>1. /\ a \in Seq(S) /\ Len(a) = n /\ a[n] = rows[n]
          /\ \A i \in 1..n - 1 : a[i] = Front(rows)[i]
      <3> HIDE DEF n
      <3> QED
        BY <1>2, <2>0, AppendProperties DEF n
    <2>2. \A i \in 1..n : i = n \/ i \in 1..n - 1
      <3> HIDE DEF n
      <3> QED
        BY <2>0
    <2> HIDE DEF a
    <2> QED
      BY <1>2, <2>1, <2>2
  <1> HIDE DEF a
  <1>4. a = rows
    BY <1>1, <1>3
  <1> QED
    BY <1>1, <1>2, <1>4 DEF a

\* All results are those before the last turn and its own.
LEMMA ResultsAre ==
    ASSUME NEW U, TypesOver(U), turns # <<>>
    PROVE  AllResults(turns) = Before \o LastTurn.results /\ Before \in Seq(U) /\ LastTurn.results \in Seq(U)
  <1>1. turns \in Seq(Rows(U))
    BY DEF TypesOver
  <1>2. Front(turns) \in Seq(Rows(U)) /\ turns = Append(Front(turns), LastTurn) /\ LastTurn \in Rows(U)
    BY <1>1, FrontIs DEF LastTurn
  <1>3. LastTurn.results \in Seq(U)
    BY <1>2 DEF Rows
  <1> QED
    BY <1>2, <1>3, ResultsMore DEF Before

\* The last turn is written: what came before stays.
LEMMA LastRewritten ==
    ASSUME NEW U, TypesOver(U), Numbered, turns # <<>>, NEW row \in Rows(U), row.id = LastTurn.id,
           Update(LastTurn.id, row)
    PROVE  /\ turns' # <<>> /\ LastTurn' = row /\ LastTurn'.id = LastTurn.id
           /\ Before' = Before /\ Before \in Seq(U)
           /\ AllResults(turns)' = Before \o row.results
  <1>1. turns \in Seq(Rows(U))
    BY DEF TypesOver
  <1>2. /\ turns' \in Seq(Rows(U)) /\ DOMAIN turns' = DOMAIN turns /\ Len(turns') = Len(turns)
        /\ \A i \in DOMAIN turns : turns'[i] = IF turns[i].id = LastTurn.id THEN row ELSE turns[i]
    BY UpdateIs
  <1>3. /\ Front(turns) \in Seq(Rows(U)) /\ Len(Front(turns)) = Len(turns) - 1
        /\ \A i \in 1..Len(turns) - 1 : Front(turns)[i] = turns[i]
        /\ Len(turns) \in Nat \ {0}
    BY <1>1, FrontIs
  <1>4. turns' # <<>> /\ Len(turns) \in DOMAIN turns /\ DOMAIN turns = 1..Len(turns)
    BY <1>1, <1>2, <1>3
  <1>5. /\ Front(turns') \in Seq(Rows(U)) /\ Len(Front(turns')) = Len(turns) - 1
        /\ \A i \in 1..Len(turns) - 1 : Front(turns')[i] = turns'[i]
        /\ turns' = Append(Front(turns'), turns'[Len(turns)])
    BY <1>2, <1>4, FrontIs
  <1>6. turns'[Len(turns)] = row
    BY <1>2, <1>4 DEF LastTurn
  <1>7. \A i \in 1..Len(turns) - 1 : turns'[i] = turns[i]
    <2> SUFFICES ASSUME NEW i \in 1..Len(turns) - 1 PROVE turns'[i] = turns[i]
      OBVIOUS
    <2>1. i \in DOMAIN turns /\ i # Len(turns)
      BY <1>3, <1>4
    <2> QED
      BY <1>2, <1>4, <2>1 DEF Numbered, LastTurn
  <1>8. Front(turns') = Front(turns)
    BY <1>3, <1>5, <1>7
  <1>9. Before' = Before /\ LastTurn' = row
    BY <1>2, <1>6, <1>8 DEF Before, LastTurn
  <1>10. AllResults(turns') = AllResults(Front(turns)) \o row.results /\ AllResults(Front(turns)) \in Seq(U)
    <2>1. turns' = Append(Front(turns), row)
      BY <1>5, <1>6, <1>8
    <2> QED
      BY <1>3, <2>1, ResultsMore
  <1> QED
    BY <1>4, <1>9, <1>10 DEF Before

-----------------------------------------------------------------------------
(* The deck of a game, and the deck in a narration's hands                  *)

\* What the task of a narration holds of a game whose turns before its own had the
\* results before, and whose own has those of told.
Hand(job, before, told) ==
    /\ job.kind = "prose" => job.results = <<>>
    /\ job.kind = "structured" /\ job.step \notin {"results"} \cup Ending => told = job.results
    /\ job.kind = "structured" /\ job.step \in Telling \cup {"audit"} =>
          Proper(job.deck) /\ Accounts(job.deck, before \o job.results)

DeckInv ==
    calm =>
        /\ Proper(deck)
        /\ \A job \in jobs : job.kind \in Narrators =>
              /\ turns # <<>> /\ job.turn = LastTurn.id
              /\ Live(job) => Hand(job, Before, LastTurn.results)
        /\ (\A job \in jobs : job.step # "deck") => Accounts(deck, AllResults(turns))

\* What a narration finds,
Dealt(job) ==
    /\ turns # <<>> /\ TurnOf(job) = LastTurn /\ job.turn = LastTurn.id
    /\ Proper(deck)
    /\ Live(job) => Hand(job, Before, LastTurn.results)
    /\ job.step # "deck" => Accounts(deck, Before \o LastTurn.results)

\* and what it leaves, for itself as it is in next, or when it ends.
Deals(row, next) ==
    /\ row.id = LastTurn.id
    /\ Proper(deck')
    /\ \A n \in next : Live(n) => Hand(n, Before, row.results)
    /\ (\A n \in next : n.step # "deck") => Accounts(deck', Before \o row.results)

LEMMA DealtIs ==
    ASSUME GameInv, DeckInv, calm, NEW U, TypesOver(U), NEW job \in jobs, job.kind \in Narrators
    PROVE  /\ Dealt(job) /\ LastTurn \in Rows(U) /\ Before \in Seq(U) /\ LastTurn.results \in Seq(U)
           /\ job.turn \in Ids
           /\ \A j \in jobs : j.kind \in Narrators \/ j.step = "deck" => j = job
  <1>1. turns # <<>> /\ job.turn = LastTurn.id /\ Proper(deck)
        /\ (Live(job) => Hand(job, Before, LastTurn.results))
    BY DEF DeckInv
  <1>2. Len(turns) \in DOMAIN turns /\ LastTurn = turns[Len(turns)] /\ LastTurn \in Rows(U)
        /\ LastTurn.id \in Nat \ {0}
    BY <1>1, LastTurnIs
  <1>3. job.turn \in Ids
    BY <1>1, <1>2 DEF Ids
  <1>4. TurnOf(job) = LastTurn
    <2>1. Numbered
      BY DEF GameInv
    <2>2. Len(turns) = IndexOf(job.turn)
      BY <1>1, <1>2, <1>3, <2>1, IndexIs
    <2> QED
      BY <1>2, <2>2 DEF TurnOf
  <1>5. ASSUME NEW j \in jobs, j.kind \in Narrators \/ j.step = "deck" PROVE j = job
    <2>1. j.kind \in Narrators
      BY <1>5 DEF GameInv, Shape, Narrators
    <2>2. j.turn = job.turn /\ j.turn # 0
      BY <1>1, <1>2, <2>1 DEF DeckInv
    <2> QED
      BY <2>2 DEF GameInv, CalmInv, Alone
  <1>6. Before \in Seq(U) /\ LastTurn.results \in Seq(U) /\ AllResults(turns) = Before \o LastTurn.results
    BY <1>1, ResultsAre
  <1>7. job.step # "deck" => Accounts(deck, Before \o LastTurn.results)
    BY <1>5, <1>6 DEF DeckInv
  <1> QED
    BY <1>1, <1>2, <1>3, <1>4, <1>5, <1>6, <1>7 DEF Dealt

LEMMA NarratorGoesOn ==
    ASSUME GameInv, GameInv', DeckInv, NEW job \in jobs, job.kind \in Narrators, NEW next, NEW more,
           jobs' = (jobs \ {job}) \cup next \cup more,
           \A n \in next : n.kind = job.kind /\ n.turn = job.turn,
           \A n \in more : n.kind \notin Narrators /\ n.step # "deck",
           NEW row, Update(job.turn, row), calm' => calm,
           calm' /\ Dealt(job) => Deals(row, next)
    PROVE  DeckInv'
  <1> SUFFICES ASSUME calm'
               PROVE  /\ Proper(deck)'
                      /\ \A k \in jobs' : k.kind \in Narrators =>
                            /\ turns' # <<>> /\ k.turn = LastTurn.id'
                            /\ Live(k) => Hand(k, Before', LastTurn.results')
                      /\ (\A k \in jobs' : k.step # "deck") => Accounts(deck', AllResults(turns)')
    BY DEF DeckInv, Live, Hand, Accounts, Proper
  <1>1. PICK U, V : TypesOver(U) /\ TypesOver(V)'
    BY DEF GameInv, Types
  <1> DEFINE W == U \cup V
  <1>2. TypesOver(W) /\ Rows(V) \subseteq Rows(W)
    BY <1>1, Grows
  <1>3. /\ Dealt(job) /\ job.turn \in Ids
        /\ \A j \in jobs : j.kind \in Narrators \/ j.step = "deck" => j = job
    BY <1>1, DealtIs
  <1>4. Deals(row, next)
    BY <1>3
  <1>5. turns # <<>> /\ job.turn = LastTurn.id /\ Numbered
    BY <1>3 DEF Dealt, GameInv
  <1>6. row \in Rows(W)
    <2>1. PICK i \in DOMAIN turns : turns[i].id = job.turn
      BY <1>3 DEF Ids
    <2>2. turns'[i] = row /\ i \in DOMAIN turns'
      BY <2>1 DEF Update
    <2>3. turns' \in Seq(Rows(V))
      BY <1>1 DEF TypesOver
    <2>4. row \in Rows(V)
      BY <2>2, <2>3
    <2> HIDE DEF W
    <2> QED
      BY <1>2, <2>4
  <1> HIDE DEF W
  <1>7. /\ turns' # <<>> /\ LastTurn' = row /\ row.id = LastTurn.id
        /\ Before' = Before /\ AllResults(turns)' = Before \o row.results
    BY <1>2, <1>4, <1>5, <1>6, LastRewritten DEF Deals
  <1>8. ASSUME NEW k \in jobs', k.kind \in Narrators
        PROVE  k \in next /\ k.turn = LastTurn.id /\ (Live(k) => Hand(k, Before, row.results))
    <2>1. k \in next
      BY <1>3, <1>8
    <2> QED
      BY <1>4, <1>5, <2>1 DEF Deals
  <1>9. (\A k \in jobs' : k.step # "deck") => Accounts(deck', Before \o row.results)
    BY <1>4 DEF Deals
  <1>10. Proper(deck)'
    BY <1>4 DEF Deals, Proper
  <1> QED
    BY <1>7, <1>8, <1>9, <1>10

\* Another job, or a request that leaves the turns' results and the deck alone.
LEMMA DeckStays ==
    ASSUME GameInv, GameInv', DeckInv, calm' => calm, UNCHANGED deck,
           DOMAIN turns' = DOMAIN turns,
           \A i \in DOMAIN turns : turns'[i].id = turns[i].id /\ turns'[i].results = turns[i].results,
           calm' => \A k \in jobs' : k.kind \in Narrators =>
               \/ ~Live(k) /\ turns # <<>> /\ k.turn = LastTurn.id
               \/ \E j \in jobs : /\ k.kind = j.kind /\ k.turn = j.turn /\ k.step = j.step
                                  /\ k.results = j.results /\ k.deck = j.deck,
           calm' => \A j \in jobs : j.step = "deck" => \E k \in jobs' : k.step = "deck"
    PROVE  DeckInv'
  <1> SUFFICES ASSUME calm'
               PROVE  /\ Proper(deck)'
                      /\ \A k \in jobs' : k.kind \in Narrators =>
                            /\ turns' # <<>> /\ k.turn = LastTurn.id'
                            /\ Live(k) => Hand(k, Before', LastTurn.results')
                      /\ (\A k \in jobs' : k.step # "deck") => Accounts(deck', AllResults(turns)')
    BY DEF DeckInv, Live, Hand, Accounts, Proper
  <1>1. PICK U, V : turns \in Seq(Rows(U)) /\ turns' \in Seq(Rows(V))
    BY DEF GameInv, Types, TypesOver
  <1>2. Len(turns') = Len(turns) /\ (turns' = <<>> <=> turns = <<>>) /\ DOMAIN turns = 1..Len(turns)
        /\ Len(turns) \in Nat
    BY <1>1, EmptySeq
  <1>3. AllResults(turns)' = AllResults(turns)
    BY SameResults
  <1>4. ASSUME turns # <<>>
        PROVE  LastTurn'.id = LastTurn.id /\ LastTurn'.results = LastTurn.results /\ Before' = Before
    <2>1. Len(turns) \in DOMAIN turns
      BY <1>2, <1>4, EmptySeq, <1>1
    <2>2. LastTurn'.id = LastTurn.id /\ LastTurn'.results = LastTurn.results
      BY <1>2, <2>1 DEF LastTurn
    <2>3. /\ Front(turns) \in Seq(Rows(U)) /\ Len(Front(turns)) = Len(turns) - 1
          /\ \A i \in 1..Len(turns) - 1 : Front(turns)[i] = turns[i]
      BY <1>1, <1>4, FrontIs
    <2>4. /\ Front(turns') \in Seq(Rows(V)) /\ Len(Front(turns')) = Len(turns) - 1
          /\ \A i \in 1..Len(turns) - 1 : Front(turns')[i] = turns'[i]
      BY <1>1, <1>2, <1>4, FrontIs
    <2>5. DOMAIN Front(turns') = DOMAIN Front(turns) /\ DOMAIN Front(turns) = 1..Len(turns) - 1
      BY <1>2, <2>3, <2>4
    <2>6. \A i \in 1..Len(turns) - 1 : Front(turns')[i].results = Front(turns)[i].results
      BY <1>2, <2>3, <2>4
    <2>7. AllResults(Front(turns')) = AllResults(Front(turns))
      BY <2>5, <2>6, SameResults
    <2> QED
      BY <2>2, <2>7 DEF Before
  <1>5. Proper(deck)'
    BY DEF DeckInv, Proper
  <1>6. (\A k \in jobs' : k.step # "deck") => Accounts(deck', AllResults(turns)')
    BY <1>3 DEF DeckInv
  <1>7. ASSUME NEW k \in jobs', k.kind \in Narrators
        PROVE  /\ turns # <<>> /\ k.turn = LastTurn.id
               /\ Live(k) => Hand(k, Before, LastTurn.results)
    <2>1. CASE \E j \in jobs : /\ k.kind = j.kind /\ k.turn = j.turn /\ k.step = j.step
                               /\ k.results = j.results /\ k.deck = j.deck
      <3>1. PICK j \in jobs : /\ k.kind = j.kind /\ k.turn = j.turn /\ k.step = j.step
                              /\ k.results = j.results /\ k.deck = j.deck
        BY <2>1
      <3>2. turns # <<>> /\ j.turn = LastTurn.id /\ (Live(j) => Hand(j, Before, LastTurn.results))
        BY <1>7, <3>1 DEF DeckInv
      <3> QED
        BY <3>1, <3>2 DEF Live, Hand
    <2> QED
      BY <1>7, <2>1
  <1> QED
    BY <1>2, <1>4, <1>5, <1>6, <1>7

\* A request that deals anew, while nothing narrates.
LEMMA DealtAnew ==
    ASSUME calm' =>
               /\ Proper(deck') /\ Accounts(deck', AllResults(turns'))
               /\ \A k \in jobs' : k.kind \in Narrators =>
                     ~Live(k) /\ turns' # <<>> /\ k.turn = turns'[Len(turns')].id
    PROVE  DeckInv'
  BY DEF DeckInv, Live, Proper, Accounts, LastTurn

-----------------------------------------------------------------------------
(* The steps of a narration                                                  *)

\* A step that touches neither the results nor the deck, of the turn or of the job.
LEMMA NarratorKeeps ==
    ASSUME GameInv, GameInv', DeckInv, NEW job \in jobs, job.kind \in Narrators, NEW next, NEW more,
           jobs' = (jobs \ {job}) \cup next \cup more,
           \A n \in more : n.kind \notin Narrators /\ n.step # "deck",
           NEW row, Update(job.turn, row), calm' => calm, UNCHANGED deck,
           calm' /\ Dealt(job) => row.id = TurnOf(job).id /\ row.results = TurnOf(job).results,
           job.step # "deck",
           \A n \in next : /\ n.kind = job.kind /\ n.turn = job.turn
                           /\ n.results = job.results /\ n.deck = job.deck
                           /\ Live(job)
                           /\ job.step \in {"results"} \cup Ending => n.step \in Ending
                           /\ n.step \in Telling \cup {"audit"} => job.step \in Telling \cup {"audit"}
    PROVE  DeckInv'
  <1>1. ASSUME calm', Dealt(job) PROVE Deals(row, next)
    <2>1. row.id = LastTurn.id /\ row.results = LastTurn.results
      BY <1>1 DEF Dealt
    <2>2. \A n \in next : Hand(n, Before, LastTurn.results)
      BY <1>1 DEF Dealt, Hand, Ending, Telling
    <2> QED
      BY <1>1, <2>1, <2>2 DEF Deals, Dealt
  <1> QED
    BY <1>1, NarratorGoesOn

\* The same of a job that goes on, or is over.
LEMMA GoingOnKeeps ==
    ASSUME GameInv, GameInv', DeckInv, NEW job \in jobs, job.kind \in Narrators, NEW next,
           Become(job, next), NEW row, Update(job.turn, row), UNCHANGED <<deck, calm>>,
           calm' /\ Dealt(job) => row.id = TurnOf(job).id /\ row.results = TurnOf(job).results,
           job.step \notin {"queued", "results", "deck"},
           next.kind = job.kind, next.turn = job.turn, next.results = job.results, next.deck = job.deck,
           job.step \in Ending => next.step \in Ending,
           next.step \in Telling \cup {"audit"} => job.step \in Telling \cup {"audit"}
    PROVE  DeckInv'
  <1> DEFINE after == {next}
             none == {}
  <1>1. jobs' = (jobs \ {job}) \cup after \cup none
    BY DEF Become
  <1>2. \A n \in after : n = next
    OBVIOUS
  <1>3. \A n \in none : FALSE
    OBVIOUS
  <1>4. Live(job)
    BY DEF Live
  <1> HIDE DEF after, none
  <1> QED
    BY <1>1, <1>2, <1>3, <1>4, NarratorKeeps

LEMMA EndingKeeps ==
    ASSUME GameInv, GameInv', DeckInv, NEW job \in jobs, job.kind \in Narrators, NEW more,
           jobs' = (jobs \ {job}) \cup more,
           \A n \in more : n.kind \notin Narrators /\ n.step # "deck",
           NEW row, Update(job.turn, row), UNCHANGED <<deck, calm>>,
           calm' /\ Dealt(job) => row.id = TurnOf(job).id /\ row.results = TurnOf(job).results,
           job.step # "deck"
    PROVE  DeckInv'
  <1> DEFINE none == {}
  <1>1. jobs' = (jobs \ {job}) \cup none \cup more
    OBVIOUS
  <1>2. \A n \in none : FALSE
    OBVIOUS
  <1> HIDE DEF none
  <1> QED
    BY <1>1, <1>2, NarratorKeeps

LEMMA DeclareKeeps ==
    ASSUME GameInv, GameInv', DeckInv, NEW job \in jobs, Declare(job)
    PROVE  DeckInv'
  <1>1. PICK U : TypesOver(U)
    BY DEF GameInv, Types
  <1>2. /\ job \in Jobs(U) /\ Shape(job) /\ job.turn \in Ids
        /\ TurnOf(job) \in Rows(U) /\ TurnOf(job).id = job.turn
    BY <1>1, JobIs DEF Declare, TurnExists
  <1>3. job.kind \in Narrators /\ job.step = "declare"
    BY <1>2 DEF Declare, Shape, Rolling, Narrators
  <1>4. PICK n \in 0..MaxChecks : Become(job, [job EXCEPT !.step = "insert", !.asked = n])
    BY DEF Declare
  <1> DEFINE next == [job EXCEPT !.step = "insert", !.asked = n]
             row == [TurnOf(job) EXCEPT !.checks = <<>>]
  <1>5. /\ next.kind = job.kind /\ next.turn = job.turn /\ next.results = job.results
        /\ next.deck = job.deck /\ next.step = "insert"
    BY <1>2 DEF Jobs
  <1>6. row.id = TurnOf(job).id /\ row.results = TurnOf(job).results
    BY <1>2 DEF Rows
  <1>7. Update(job.turn, row) /\ UNCHANGED <<deck, calm>> /\ Become(job, next)
    BY <1>4 DEF Declare, Become
  <1> HIDE DEF row, next
  <1> QED
    BY <1>3, <1>5, <1>6, <1>7, GoingOnKeeps DEF Ending, Telling

LEMMA InsertCheckKeeps ==
    ASSUME GameInv, GameInv', DeckInv, NEW job \in jobs, InsertCheck(job)
    PROVE  DeckInv'
  <1>1. PICK U : TypesOver(U)
    BY DEF GameInv, Types
  <1>2. /\ job \in Jobs(U) /\ Shape(job) /\ job.turn \in Ids
        /\ TurnOf(job) \in Rows(U) /\ TurnOf(job).id = job.turn
    BY <1>1, JobIs DEF InsertCheck, TurnExists
  <1>3. job.kind \in Narrators /\ job.step = "insert"
    BY <1>2 DEF InsertCheck, Shape, Rolling, Narrators
  <1>4. PICK next, row :
           /\ next.kind = job.kind /\ next.turn = job.turn /\ next.results = job.results
           /\ next.deck = job.deck /\ next.step \in {"insert", "rolled"}
           /\ row.id = TurnOf(job).id /\ row.results = TurnOf(job).results
           /\ Update(job.turn, row) /\ Become(job, next)
    <2>1. CASE job.prose.checks < job.asked
      <3> DEFINE next == [job EXCEPT !.prose = Narration(job.prose.checks + 1)]
                 row == [TurnOf(job) EXCEPT !.checks = Append(@, job.prose.checks)]
      <3>1. /\ next.kind = job.kind /\ next.turn = job.turn /\ next.results = job.results
            /\ next.deck = job.deck /\ next.step \in {"insert", "rolled"}
            /\ row.id = TurnOf(job).id /\ row.results = TurnOf(job).results
        BY <1>2, <1>3 DEF Jobs, Rows
      <3>2. Update(job.turn, row) /\ Become(job, next)
        BY <2>1 DEF InsertCheck
      <3> QED
        BY <3>1, <3>2
    <2>2. CASE ~(job.prose.checks < job.asked)
      <3> DEFINE next == [job EXCEPT !.step = "rolled"]
                 row == [TurnOf(job) EXCEPT !.phase = "rolled"]
      <3>1. /\ next.kind = job.kind /\ next.turn = job.turn /\ next.results = job.results
            /\ next.deck = job.deck /\ next.step \in {"insert", "rolled"}
            /\ row.id = TurnOf(job).id /\ row.results = TurnOf(job).results
        BY <1>2, <1>3 DEF Jobs, Rows
      <3>2. Update(job.turn, row) /\ Become(job, next)
        BY <2>2 DEF InsertCheck
      <3> QED
        BY <3>1, <3>2
    <2> QED
      BY <2>1, <2>2
  <1>5. UNCHANGED <<deck, calm>> /\ Become(job, next)
    BY <1>4 DEF InsertCheck, Become
  <1> QED
    BY <1>3, <1>4, <1>5, GoingOnKeeps DEF Ending, Telling

LEMMA StreamKeeps ==
    ASSUME GameInv, GameInv', DeckInv, NEW job \in jobs, Stream(job)
    PROVE  DeckInv'
  <1>1. PICK U : TypesOver(U)
    BY DEF GameInv, Types
  <1>2. job \in Jobs(U) /\ Shape(job) /\ job.kind \in Narrators /\ job.step = "stream" /\ Numbered
    BY <1>1, JobIs DEF Stream, Shape, GameInv
  <1>0. PICK text : Become(job, [job EXCEPT !.prose = [job.prose EXCEPT !.text = text]])
    BY DEF Stream
  <1> DEFINE next == [job EXCEPT !.prose = [job.prose EXCEPT !.text = text]]
  <1>3. /\ next.kind = job.kind /\ next.turn = job.turn /\ next.results = job.results
        /\ next.deck = job.deck /\ next.step = "stream"
    BY <1>2 DEF Jobs
  <1>4. /\ UNCHANGED <<deck, calm>> /\ Become(job, next)
        /\ Update(job.turn, TurnOf(job))
    BY <1>0, <1>1, <1>2, RowStays DEF Stream
  <1> HIDE DEF next
  <1> QED
    BY <1>2, <1>3, <1>4, GoingOnKeeps DEF Ending, Telling

LEMMA ApplyChangeKeeps ==
    ASSUME GameInv, GameInv', DeckInv, NEW job \in jobs, ApplyChange(job)
    PROVE  DeckInv'
  <1>1. PICK U : TypesOver(U)
    BY DEF GameInv, Types
  <1>2. job \in Jobs(U) /\ job.kind \in Narrators /\ job.step = "stream"
    BY <1>1, JobIs DEF ApplyChange
  <1>0. PICK mark :
            Become(job, [job EXCEPT !.step = "audit", !.calls = job.calls - 1,
                                    !.audit = Append(job.audit, NewChange(job.turn)),
                                    !.prose = [job.prose EXCEPT !.changes = mark]])
    BY DEF ApplyChange
  <1> DEFINE next == [job EXCEPT !.step = "audit", !.calls = job.calls - 1,
                                 !.audit = Append(job.audit, NewChange(job.turn)),
                                 !.prose = [job.prose EXCEPT !.changes = mark]]
             row == Flushed(job)
  <1>3. /\ next.kind = job.kind /\ next.turn = job.turn /\ next.results = job.results
        /\ next.deck = job.deck /\ next.step = "audit"
    BY <1>2 DEF Jobs
  <1>4. calm' /\ Dealt(job) => row.id = TurnOf(job).id /\ row.results = TurnOf(job).results
    BY <1>1, LastTurnIs DEF Dealt, Flushed, Rows
  <1>5. Update(job.turn, row) /\ UNCHANGED <<deck, calm>> /\ Become(job, next)
    BY <1>0 DEF ApplyChange
  <1> HIDE DEF row, next
  <1> QED
    BY <1>2, <1>3, <1>4, <1>5, GoingOnKeeps DEF Ending, Telling

LEMMA WriteAuditKeeps ==
    ASSUME GameInv, GameInv', DeckInv, NEW job \in jobs, WriteAudit(job)
    PROVE  DeckInv'
  <1>1. PICK U : TypesOver(U)
    BY DEF GameInv, Types
  <1>2. job \in Jobs(U) /\ job.kind \in Narrators /\ job.step = "audit"
    BY <1>1, JobIs DEF WriteAudit, Shape
  <1> DEFINE next == [job EXCEPT !.step = "stream"]
             row == [TurnOf(job) EXCEPT !.audit = job.audit, !.prose = job.prose]
  <1>3. /\ next.kind = job.kind /\ next.turn = job.turn /\ next.results = job.results
        /\ next.deck = job.deck /\ next.step = "stream"
    BY <1>2 DEF Jobs
  <1>4. calm' /\ Dealt(job) => row.id = TurnOf(job).id /\ row.results = TurnOf(job).results
    BY <1>1, LastTurnIs DEF Dealt, Rows
  <1>5. Update(job.turn, row) /\ UNCHANGED <<deck, calm>> /\ Become(job, next)
    BY DEF WriteAudit, Become
  <1> HIDE DEF row, next
  <1> QED
    BY <1>2, <1>3, <1>4, <1>5, GoingOnKeeps DEF Ending, Telling

LEMMA CloseKeeps ==
    ASSUME GameInv, GameInv', DeckInv, NEW job \in jobs, Close(job)
    PROVE  DeckInv'
  <1>1. PICK U : TypesOver(U)
    BY DEF GameInv, Types
  <1>2. job \in Jobs(U) /\ job.kind \in Narrators /\ job.step = "close"
    BY <1>1, JobIs DEF Close, Shape, Ending
  <1> DEFINE next == [job EXCEPT !.step = "complete"]
             done == [TurnOf(job) EXCEPT !.phase = "done"]
             failed == Failed(job)
  <1>3. /\ next.kind = job.kind /\ next.turn = job.turn /\ next.results = job.results
        /\ next.deck = job.deck /\ next.step = "complete"
    BY <1>2 DEF Jobs
  <1>4. calm' /\ Dealt(job) => /\ done.id = TurnOf(job).id /\ done.results = TurnOf(job).results
                               /\ failed.id = TurnOf(job).id /\ failed.results = TurnOf(job).results
    BY <1>1, LastTurnIs DEF Dealt, Rows, Failed
  <1>5. UNCHANGED <<deck, calm>>
    BY DEF Close
  <1>6. CASE HasContent(job.prose)
    <2>1. Update(job.turn, done) /\ Become(job, next)
      BY <1>6 DEF Close, Become
    <2> HIDE DEF next, done
    <2> QED
      BY <1>2, <1>3, <1>4, <1>5, <2>1, GoingOnKeeps DEF Ending, Telling
  <1>7. CASE ~HasContent(job.prose)
    <2> DEFINE none == {}
    <2>1. Update(job.turn, failed) /\ jobs' = (jobs \ {job}) \cup none /\ \A n \in none : FALSE
      BY <1>7 DEF Close, Ends
    <2> HIDE DEF next, failed, none
    <2> QED
      BY <1>2, <1>4, <1>5, <2>1, EndingKeeps
  <1> QED
    BY <1>6, <1>7

LEMMA CompleteKeeps ==
    ASSUME GameInv, GameInv', DeckInv, NEW job \in jobs, Complete(job)
    PROVE  DeckInv'
  <1>1. PICK U : TypesOver(U)
    BY DEF GameInv, Types
  <1>2. job.kind \in Narrators /\ job.step = "complete" /\ Numbered
    BY <1>1, JobIs DEF Complete, Shape, Ending, GameInv
  <1> DEFINE more == IF /\ Len(turns) + 1 >= SceneSpan /\ ~scene.valid /\ Active \subseteq {job}
                     THEN {NewJob("summarize", 0)} ELSE {}
  <1>3. \A n \in more : n.kind \notin Narrators /\ n.step # "deck"
    BY DEF NewJob, Narrators
  <1>4. /\ UNCHANGED <<deck, calm>> /\ jobs' = (jobs \ {job}) \cup more
        /\ Update(job.turn, TurnOf(job))
    BY <1>1, <1>2, RowStays DEF Complete
  <1> HIDE DEF more
  <1> QED
    BY <1>2, <1>3, <1>4, EndingKeeps

LEMMA StopKeeps ==
    ASSUME GameInv, GameInv', DeckInv, NEW job \in jobs, Stop(job)
    PROVE  DeckInv'
  <1>1. PICK U : TypesOver(U)
    BY DEF GameInv, Types
  <1>2. job.kind \in Narrators /\ job.step # "deck" /\ Numbered
    BY <1>1, JobIs DEF Stop, MayStop, Shape, Rolling, Narrators, GameInv
  <1> DEFINE none == {}
  <1>3. UNCHANGED <<deck, calm>> /\ jobs' = (jobs \ {job}) \cup none /\ \A n \in none : FALSE
    BY DEF Stop, Ends
  <1>4. PICK row : Update(job.turn, row) /\ row \in {Failed(job), TurnOf(job)}
    BY <1>1, <1>2, RowStays DEF Stop
  <1>5. calm' /\ Dealt(job) => row.id = TurnOf(job).id /\ row.results = TurnOf(job).results
    BY <1>1, <1>4, LastTurnIs DEF Dealt, Rows, Failed
  <1> HIDE DEF none
  <1> QED
    BY <1>2, <1>3, <1>4, <1>5, EndingKeeps

\* A step of a narration that goes on with the deck or with the results.
LEMMA GoingOnDeals ==
    ASSUME GameInv, GameInv', DeckInv, NEW job \in jobs, job.kind \in Narrators, NEW next,
           Become(job, next), NEW row, Update(job.turn, row), calm' => calm,
           next.kind = job.kind, next.turn = job.turn,
           calm' /\ Dealt(job) =>
               /\ row.id = LastTurn.id /\ Proper(deck')
               /\ Live(next) => Hand(next, Before, row.results)
               /\ next.step # "deck" => Accounts(deck', Before \o row.results)
    PROVE  DeckInv'
  <1> DEFINE after == {next}
             none == {}
  <1>1. jobs' = (jobs \ {job}) \cup after \cup none /\ next \in after
    BY DEF Become
  <1>2. \A n \in after : n = next
    OBVIOUS
  <1>3. \A n \in none : FALSE
    OBVIOUS
  <1> HIDE DEF after, none
  <1>4. calm' /\ Dealt(job) => Deals(row, after)
    BY <1>1, <1>2 DEF Deals
  <1> QED
    BY <1>1, <1>2, <1>3, <1>4, NarratorGoesOn

LEMMA StartDeals ==
    ASSUME GameInv, GameInv', DeckInv, NEW job \in jobs, Start(job)
    PROVE  DeckInv'
  <1>1. PICK U : TypesOver(U)
    BY DEF GameInv, Types
  <1>2. job \in Jobs(U) /\ Shape(job) /\ job.kind \in Narrators /\ job.step = "queued"
        /\ TurnOf(job) \in Rows(U)
    BY <1>1, JobIs DEF Start, TurnExists
  <1>3. job.results = <<>>
    BY <1>2 DEF Shape, NewJob
  <1>4. calm' => calm /\ ~Leftovers(job)
    <2>1. calm \in BOOLEAN
      BY DEF GameInv, Types
    <2> QED
      BY <2>1, Zenon DEF Start
  <1>5. PICK next, row :
           /\ next.kind = job.kind /\ next.turn = job.turn /\ next.results = <<>>
           /\ next.step = IF job.kind = "structured" THEN "declare" ELSE "stream"
           /\ row.id = TurnOf(job).id /\ row.results = TurnOf(job).results
           /\ Update(job.turn, row) /\ Become(job, next)
    <2>1. CASE job.kind = "structured"
      <3> DEFINE next == [job EXCEPT !.step = "declare"]
                 row == [TurnOf(job) EXCEPT !.phase = "checks"]
      <3>1. /\ next.kind = job.kind /\ next.turn = job.turn /\ next.results = <<>>
            /\ next.step = "declare"
            /\ row.id = TurnOf(job).id /\ row.results = TurnOf(job).results
        BY <1>2, <1>3 DEF Jobs, Rows
      <3>2. Update(job.turn, row) /\ Become(job, next)
        BY <2>1 DEF Start
      <3> QED
        BY <2>1, <3>1, <3>2
    <2>2. CASE job.kind # "structured"
      <3> DEFINE prose == Narration(Len(TurnOf(job).checks))
                 next == [job EXCEPT !.step = "stream", !.prose = prose]
                 row == Narrated(job, prose)
      <3>1. /\ next.kind = job.kind /\ next.turn = job.turn /\ next.results = <<>>
            /\ next.step = "stream"
            /\ row.id = TurnOf(job).id /\ row.results = TurnOf(job).results
        BY <1>2, <1>3 DEF Jobs, Rows, Narrated
      <3>2. Update(job.turn, row) /\ Become(job, next)
        BY <2>2 DEF Start
      <3> QED
        BY <2>2, <3>1, <3>2
    <2> QED
      BY <2>1, <2>2
  <1>6. UNCHANGED deck
    BY DEF Start
  <1>7. ASSUME calm', Dealt(job)
        PROVE  /\ row.id = LastTurn.id /\ Proper(deck')
               /\ Live(next) => Hand(next, Before, row.results)
               /\ next.step # "deck" => Accounts(deck', Before \o row.results)
    <2>1. row.id = LastTurn.id /\ row.results = LastTurn.results
      BY <1>5, <1>7 DEF Dealt
    <2>2. job.kind = "structured" => LastTurn.results = <<>>
      BY <1>4, <1>7 DEF Leftovers, Dealt
    <2>3. Hand(next, Before, row.results)
      BY <1>2, <1>5, <2>1, <2>2 DEF Hand, Telling, Ending, Narrators
    <2> QED
      BY <1>2, <1>6, <1>7, <2>1, <2>3 DEF Dealt
  <1> QED
    BY <1>2, <1>4, <1>5, <1>7, GoingOnDeals

LEMMA NarrateDeals ==
    ASSUME GameInv, GameInv', DeckInv, NEW job \in jobs, Narrate(job)
    PROVE  DeckInv'
  <1>1. PICK U : TypesOver(U)
    BY DEF GameInv, Types
  <1>2. job \in Jobs(U) /\ Shape(job) /\ job.step = "rolled" /\ job.kind = "structured"
        /\ job.results = <<>> /\ TurnOf(job) \in Rows(U)
    BY <1>1, JobIs DEF Narrate, TurnExists, Shape, Rolling
  <1> DEFINE next == [job EXCEPT !.step = "stream", !.deck = deck]
             row == Narrated(job, job.prose)
  <1>3. /\ next.kind = job.kind /\ next.turn = job.turn /\ next.results = job.results
        /\ next.deck = deck /\ next.step = "stream"
    BY <1>2 DEF Jobs
  <1>4. row.id = TurnOf(job).id /\ row.results = TurnOf(job).results
    BY <1>2 DEF Narrated, Rows
  <1>5. Update(job.turn, row) /\ UNCHANGED <<deck, calm>> /\ Become(job, next)
    BY DEF Narrate
  <1> HIDE DEF row, next
  <1>6. ASSUME calm', Dealt(job)
        PROVE  /\ row.id = LastTurn.id /\ Proper(deck')
               /\ Hand(next, Before, row.results)
               /\ Accounts(deck', Before \o row.results)
    <2>1. LastTurn.results = job.results /\ Proper(deck) /\ Accounts(deck, Before \o LastTurn.results)
      BY <1>2, <1>6 DEF Dealt, Hand, Ending, Live
    <2>2. row.id = LastTurn.id /\ row.results = LastTurn.results
      BY <1>4, <1>6 DEF Dealt
    <2>3. Hand(next, Before, row.results)
      BY <1>2, <1>3, <2>1, <2>2 DEF Hand
    <2> QED
      BY <1>5, <2>1, <2>2, <2>3
  <1> QED
    BY <1>2, <1>3, <1>5, <1>6, GoingOnDeals DEF Narrators

LEMMA CallToolDeals ==
    ASSUME GameInv, GameInv', DeckInv, NEW job \in jobs, CallTool(job)
    PROVE  DeckInv'
  <1>1. PICK U0 : TypesOver(U0)
    BY DEF GameInv, Types
  <1>2. PICK outcome \in ToolOutcomes(job.deck),
           mark \in Marked(job.prose, job.prose.results, Len(job.results) + 1) :
           Become(job, [job EXCEPT !.step = "results", !.calls = job.calls - 1, !.deck = outcome.deck,
                                   !.results = Append(job.results, outcome.result),
                                   !.prose = [job.prose EXCEPT !.results = mark]])
    BY DEF CallTool
  <1>3. PICK U : TypesOver(U) /\ {outcome.result} \subseteq U
    BY Roomy DEF GameInv
  <1>4. job \in Jobs(U) /\ job.step = "stream" /\ job.kind = "structured"
    BY <1>3, JobIs DEF CallTool
  <1> DEFINE next == [job EXCEPT !.step = "results", !.calls = job.calls - 1, !.deck = outcome.deck,
                                 !.results = Append(job.results, outcome.result),
                                 !.prose = [job.prose EXCEPT !.results = mark]]
             row == Flushed(job)
  <1>5. /\ next.kind = job.kind /\ next.turn = job.turn
        /\ next.results = Append(job.results, outcome.result)
        /\ next.deck = outcome.deck /\ next.step = "results"
    BY <1>4 DEF Jobs
  <1>6. calm' /\ Dealt(job) => row.id = TurnOf(job).id /\ row.results = TurnOf(job).results
    BY <1>3, LastTurnIs DEF Dealt, Flushed, Rows
  <1>7. Update(job.turn, row) /\ UNCHANGED <<deck, calm>> /\ Become(job, next)
    BY <1>2 DEF CallTool
  <1> HIDE DEF row, next
  <1>8. ASSUME calm', Dealt(job)
        PROVE  /\ row.id = LastTurn.id /\ Proper(deck')
               /\ Hand(next, Before, row.results)
               /\ Accounts(deck', Before \o row.results)
    <2>1. /\ LastTurn.results = job.results /\ Proper(deck) /\ Accounts(deck, Before \o LastTurn.results)
          /\ Proper(job.deck) /\ Accounts(job.deck, Before \o job.results)
      BY <1>4, <1>8 DEF Dealt, Hand, Ending, Live, Telling
    <2>2. row.id = LastTurn.id /\ row.results = LastTurn.results
      BY <1>6, <1>8 DEF Dealt
    <2>3. Before \in Seq(U) /\ job.results \in Seq(U) /\ outcome.result \in U
      BY <1>3, <1>8, <2>1, ResultsAre DEF Dealt
    <2>4. Before \o job.results \in Seq(U)
          /\ Append(Before \o job.results, outcome.result) = Before \o Append(job.results, outcome.result)
      BY <2>3
    <2>5. Proper(outcome.deck) /\ Accounts(outcome.deck, Before \o Append(job.results, outcome.result))
      BY <2>1, <2>3, <2>4, CallAccounts
    <2>6. Hand(next, Before, row.results)
      BY <1>4, <1>5, <2>5 DEF Hand
    <2> QED
      BY <1>7, <2>1, <2>2, <2>6
  <1> QED
    BY <1>4, <1>5, <1>7, <1>8, GoingOnDeals DEF Narrators

LEMMA WriteResultsDeals ==
    ASSUME GameInv, GameInv', DeckInv, NEW job \in jobs, WriteResults(job)
    PROVE  DeckInv'
  <1>1. PICK U : TypesOver(U)
    BY DEF GameInv, Types
  <1>2. job \in Jobs(U) /\ job.kind = "structured" /\ job.step = "results"
    BY <1>1, JobIs DEF WriteResults, Shape
  <1> DEFINE next == [job EXCEPT !.step = "deck"]
             row == [TurnOf(job) EXCEPT !.results = job.results]
  <1>3. /\ next.kind = job.kind /\ next.turn = job.turn /\ next.results = job.results
        /\ next.deck = job.deck /\ next.step = "deck"
    BY <1>2 DEF Jobs
  <1>4. calm' /\ Dealt(job) => row.id = TurnOf(job).id /\ row.results = job.results
    BY <1>1, LastTurnIs DEF Dealt, Rows
  <1>5. Update(job.turn, row) /\ UNCHANGED <<deck, calm>> /\ Become(job, next)
    BY DEF WriteResults
  <1> HIDE DEF row, next
  <1>6. ASSUME calm', Dealt(job)
        PROVE  row.id = LastTurn.id /\ Proper(deck') /\ Hand(next, Before, row.results)
    BY <1>2, <1>3, <1>4, <1>5, <1>6 DEF Dealt, Hand, Telling, Live
  <1> QED
    BY <1>2, <1>3, <1>5, <1>6, GoingOnDeals DEF Narrators

LEMMA WriteDeckDeals ==
    ASSUME GameInv, GameInv', DeckInv, NEW job \in jobs, WriteDeck(job)
    PROVE  DeckInv'
  <1>1. PICK U : TypesOver(U)
    BY DEF GameInv, Types
  <1>2. job \in Jobs(U) /\ job.kind = "structured" /\ job.step = "deck"
    BY <1>1, JobIs DEF WriteDeck, Shape
  <1> DEFINE next == [job EXCEPT !.step = "stream"]
             row == Flushed(job)
  <1>3. /\ next.kind = job.kind /\ next.turn = job.turn /\ next.results = job.results
        /\ next.deck = job.deck /\ next.step = "stream"
    BY <1>2 DEF Jobs
  <1>4. calm' /\ Dealt(job) => row.id = TurnOf(job).id /\ row.results = TurnOf(job).results
    BY <1>1, LastTurnIs DEF Dealt, Rows, Flushed
  <1>5. Update(job.turn, row) /\ deck' = job.deck /\ UNCHANGED calm /\ Become(job, next)
    BY DEF WriteDeck
  <1> HIDE DEF row, next
  <1>6. ASSUME calm', Dealt(job)
        PROVE  /\ row.id = LastTurn.id /\ Proper(deck')
               /\ Hand(next, Before, row.results)
               /\ Accounts(deck', Before \o row.results)
    <2>1. /\ LastTurn.results = job.results
          /\ Proper(job.deck) /\ Accounts(job.deck, Before \o job.results)
      BY <1>2, <1>6 DEF Dealt, Hand, Ending, Live, Telling
    <2>2. row.id = LastTurn.id /\ row.results = LastTurn.results
      BY <1>4, <1>6 DEF Dealt
    <2>3. Hand(next, Before, row.results)
      BY <1>2, <1>3, <2>1, <2>2 DEF Hand
    <2> QED
      BY <1>5, <2>1, <2>2, <2>3
  <1> QED
    BY <1>2, <1>3, <1>5, <1>6, GoingOnDeals DEF Narrators

LEMMA FinishDeals ==
    ASSUME GameInv, GameInv', DeckInv, NEW job \in jobs, Finish(job)
    PROVE  DeckInv'
  <1>1. PICK U : TypesOver(U)
    BY DEF GameInv, Types
  <1>2. job \in Jobs(U) /\ job.kind \in Narrators /\ job.step = "stream"
    BY <1>1, JobIs DEF Finish, Shape
  <1> DEFINE next == [job EXCEPT !.step = "close"]
             row == Recorded(job)
  <1>3. /\ next.kind = job.kind /\ next.turn = job.turn /\ next.results = job.results
        /\ next.deck = job.deck /\ next.step = "close"
    BY <1>2 DEF Jobs
  <1>4. calm' /\ Dealt(job) => /\ row.id = TurnOf(job).id
                               /\ row.results = IF job.results = <<>> THEN TurnOf(job).results ELSE job.results
    BY <1>1, LastTurnIs DEF Dealt, Rows, Recorded
  <1>5. /\ Update(job.turn, row) /\ UNCHANGED calm /\ Become(job, next)
        /\ deck' = IF job.results = <<>> THEN deck ELSE job.deck
    BY DEF Finish
  <1> HIDE DEF row, next
  <1>6. ASSUME calm', Dealt(job)
        PROVE  /\ row.id = LastTurn.id /\ Proper(deck')
               /\ Hand(next, Before, row.results)
               /\ Accounts(deck', Before \o row.results)
    <2>1. /\ Proper(deck) /\ Accounts(deck, Before \o LastTurn.results)
          /\ job.kind = "prose" => job.results = <<>>
          /\ job.kind = "structured" =>
                /\ LastTurn.results = job.results
                /\ Proper(job.deck) /\ Accounts(job.deck, Before \o job.results)
      BY <1>2, <1>6 DEF Dealt, Hand, Ending, Live, Telling
    <2>2. row.id = LastTurn.id /\ row.results = LastTurn.results
      BY <1>2, <1>4, <1>6, <2>1 DEF Dealt, Narrators
    <2>3. Hand(next, Before, row.results)
      BY <1>3, <2>1 DEF Hand, Ending, Telling
    <2> QED
      BY <1>2, <1>5, <2>1, <2>2, <2>3 DEF Narrators
  <1> QED
    BY <1>2, <1>3, <1>5, <1>6, GoingOnDeals

-----------------------------------------------------------------------------
(* Other jobs, and the requests                                              *)

LEMMA OthersKeep ==
    ASSUME GameInv, GameInv', DeckInv, NEW job \in jobs, job.kind \notin Narrators, NEW next,
           \A n \in next : n.kind \notin Narrators, jobs' = (jobs \ {job}) \cup next,
           UNCHANGED deck, calm' => calm,
           DOMAIN turns' = DOMAIN turns,
           \A i \in DOMAIN turns : turns'[i].id = turns[i].id /\ turns'[i].results = turns[i].results
    PROVE  DeckInv'
  <1>1. job.step # "deck"
    BY DEF GameInv, Shape, Narrators
  <1>2. \A k \in jobs' : k.kind \in Narrators => k \in jobs
    OBVIOUS
  <1>3. \A j \in jobs : j.step = "deck" => j \in jobs'
    BY <1>1
  <1> QED
    BY <1>2, <1>3, DeckStays

LEMMA OtherStepsKeep ==
    ASSUME GameInv, GameInv', DeckInv, NEW job \in jobs, RecheckStep(job) \/ SummaryStep(job)
    PROVE  DeckInv'
  <1>1. PICK U : TypesOver(U)
    BY DEF GameInv, Types
  <1>2. job \in Jobs(U) /\ Shape(job) /\ Numbered /\ turns \in Seq(Rows(U))
    BY <1>1, JobIs DEF GameInv, TypesOver
  <1>3. job.kind \notin Narrators /\ UNCHANGED <<deck, calm>>
    BY <1>2 DEF RecheckStep, SummaryStep, StartRecheck, Recheck, MergeAudit, StartSummary, Summarize,
                Shape, Narrators
  <1>4. CASE MergeAudit(job)
    <2> DEFINE none == {}
               row == [TurnOf(job) EXCEPT !.audit = job.audit]
    <2>1. jobs' = (jobs \ {job}) \cup none /\ Update(job.turn, row)
      BY <1>4 DEF MergeAudit, Ends
    <2>2. \A n \in none : FALSE
      OBVIOUS
    <2>3. job.turn \in Ids => row \in Rows(U) /\ row.id = job.turn /\ row.results = TurnOf(job).results
      BY <1>1, <1>2, JobIs DEF Rows, Jobs
    <2> HIDE DEF none, row
    <2>4. /\ DOMAIN turns' = DOMAIN turns
          /\ \A i \in DOMAIN turns : /\ turns'[i].id = turns[i].id
                                     /\ turns'[i] = IF turns[i].id = job.turn THEN row ELSE turns[i]
      BY <1>1, <2>1, <2>3, UpdateIs
    <2>5. ASSUME NEW i \in DOMAIN turns PROVE turns'[i].results = turns[i].results
      <3>1. CASE turns[i].id = job.turn
        <4>1. job.turn \in Ids
          BY <3>1 DEF Ids
        <4>2. TurnOf(job) = turns[i]
          BY <1>2, <3>1, <4>1, IndexIs DEF TurnOf
        <4> QED
          BY <2>3, <2>4, <3>1, <4>1, <4>2
      <3> QED
        BY <2>4, <3>1
    <2> QED
      BY <1>3, <2>1, <2>2, <2>4, <2>5, OthersKeep
  <1>5. CASE ~MergeAudit(job)
    <2>1. UNCHANGED turns
      BY <1>5 DEF RecheckStep, SummaryStep, StartRecheck, Recheck, StartSummary, Summarize
    <2>2. \E next : jobs' = (jobs \ {job}) \cup next /\ \A n \in next : n.kind \notin Narrators
      <3> DEFINE none == {}
      <3>1. CASE Ends(job)
        <4>1. jobs' = (jobs \ {job}) \cup none /\ \A n \in none : FALSE
          BY <3>1 DEF Ends
        <4> HIDE DEF none
        <4> QED
          BY <4>1
      <3>2. CASE \E next : Become(job, next) /\ next.kind = job.kind
        <4>1. PICK n : Become(job, n) /\ n.kind = job.kind
          BY <3>2
        <4> DEFINE after == {n}
        <4>2. jobs' = (jobs \ {job}) \cup after /\ \A m \in after : m.kind \notin Narrators
          BY <1>3, <4>1 DEF Become
        <4> HIDE DEF after
        <4> QED
          BY <4>2
      <3>3. \A v, w, x : /\ [job EXCEPT !.step = v, !.audit = w].kind = job.kind
                         /\ [job EXCEPT !.step = v, !.seen = x].kind = job.kind
        BY <1>2 DEF Jobs
      <3>4. Ends(job) \/ \E next : Become(job, next) /\ next.kind = job.kind
        <4>1. CASE StartRecheck(job)
          <5> DEFINE n == [job EXCEPT !.step = "recheck", !.audit = TurnOf(job).audit]
          <5>1. n.kind = job.kind
            BY <3>3
          <5>2. Ends(job) \/ Become(job, n)
            BY <4>1 DEF StartRecheck
          <5> HIDE DEF n
          <5> QED
            BY <5>1, <5>2
        <4>2. CASE Recheck(job)
          BY <3>3, <4>2 DEF Recheck
        <4>3. CASE StartSummary(job)
          BY <3>3, <4>3 DEF StartSummary
        <4>4. CASE Summarize(job)
          BY <4>4 DEF Summarize
        <4> QED
          BY <1>5, <4>1, <4>2, <4>3, <4>4 DEF RecheckStep, SummaryStep
      <3> QED
        BY <3>1, <3>2, <3>4
    <2> QED
      BY <1>3, <2>1, <2>2, OthersKeep
  <1> QED
    BY <1>4, <1>5

LEMMA CancelKeeps ==
    ASSUME GameInv, GameInv', DeckInv, NEW job \in jobs, Cancel(job)
    PROVE  DeckInv'
  <1>1. PICK U : job \in Jobs(U)
    BY DEF GameInv, Types, TypesOver
  <1> DEFINE gone == CancelledJob(job)
  <1>2. /\ gone.kind = job.kind /\ gone.turn = job.turn /\ gone.step = job.step
        /\ gone.results = job.results /\ gone.deck = job.deck
    BY <1>1 DEF CancelledJob, Jobs
  <1>3. jobs' = (jobs \ {job}) \cup (IF Live(job) THEN {gone} ELSE {}) /\ UNCHANGED <<turns, deck, calm>>
    BY DEF Cancel
  <1> HIDE DEF gone
  <1>4. ASSUME NEW k \in jobs'
        PROVE  \E j \in jobs : /\ k.kind = j.kind /\ k.turn = j.turn /\ k.step = j.step
                               /\ k.results = j.results /\ k.deck = j.deck
    BY <1>2, <1>3
  <1>5. ASSUME NEW j \in jobs, j.step = "deck"
        PROVE  \E k \in jobs' : k.step = "deck"
    <2>1. CASE j = job
      BY <1>2, <1>3, <1>5, <2>1 DEF Live
    <2>2. CASE j # job
      BY <1>3, <1>5, <2>2
    <2> QED
      BY <2>1, <2>2
  <1> QED
    BY <1>3, <1>4, <1>5, DeckStays

LEMMA RecheckStateKeeps ==
    ASSUME GameInv, GameInv', DeckInv, NEW i \in DOMAIN turns, RecheckState(i)
    PROVE  DeckInv'
  <1> DEFINE new == NewJob("recheck", turns[i].id)
  <1>1. new.kind \notin Narrators
    BY DEF NewJob, Narrators
  <1>2. jobs' = jobs \cup {new} /\ UNCHANGED <<turns, deck>>
    BY DEF RecheckState
  <1>3. calm' => calm
    <2>1. calm \in BOOLEAN
      BY DEF GameInv, Types
    <2> QED
      BY <2>1, Zenon DEF RecheckState
  <1> HIDE DEF new
  <1>4. \A k \in jobs' : k.kind \in Narrators => k \in jobs
    BY <1>1, <1>2
  <1>5. jobs \subseteq jobs'
    BY <1>2
  <1> QED
    BY <1>2, <1>3, <1>4, <1>5, DeckStays

LEMMA CrashKeeps ==
    ASSUME GameInv, GameInv', DeckInv, Crash
    PROVE  DeckInv'
  <1>1. UNCHANGED <<turns, deck>> /\ jobs' = {NewJob(job.kind, job.turn) : job \in Active}
    BY DEF Crash
  <1>2. calm' => calm /\ \A job \in jobs : job.step # "deck"
    <2>1. calm \in BOOLEAN
      BY DEF GameInv, Types
    <2>2. calm' => calm /\ \A job \in jobs : job.step \notin {"deck", "audit", "merge"}
      BY <2>1, Zenon DEF Crash
    <2> QED
      BY <2>2
  <1>3. ASSUME calm', NEW k \in jobs', k.kind \in Narrators
        PROVE  ~Live(k) /\ turns # <<>> /\ k.turn = LastTurn.id
    <2>1. PICK job \in jobs : k = NewJob(job.kind, job.turn)
      BY <1>1 DEF Active
    <2>2. k.kind = job.kind /\ k.turn = job.turn /\ k.step = "queued"
      BY <2>1 DEF NewJob
    <2> QED
      BY <1>2, <1>3, <2>2 DEF Live, DeckInv
  <1> QED
    BY <1>1, <1>2, <1>3, DeckStays

\* While nothing narrates, what a narration is asked for finds no other in the way.
LEMMA Waiting ==
    ASSUME GameInv, DeckInv, calm, NoNarratorLive
    PROVE  /\ Accounts(deck, AllResults(turns)) /\ Proper(deck)
           /\ \A k \in jobs : k.kind \in Narrators =>
                 ~Live(k) /\ turns # <<>> /\ k.turn = LastTurn.id /\ k.row
  <1>1. \A k \in jobs : k.step # "deck"
    BY DEF GameInv, Shape, NoNarratorLive, Live, Narrators
  <1>2. \A k \in jobs : k.kind \in Narrators => ~Live(k) /\ k.row
    BY DEF GameInv, Shape, NoNarratorLive, Live, NewJob
  <1> QED
    BY <1>1, <1>2 DEF DeckInv

LEMMA RegenerateProseKeeps ==
    ASSUME GameInv, GameInv', DeckInv, RegenerateProse
    PROVE  DeckInv'
  <1>1. PICK U : TypesOver(U)
    BY DEF GameInv, Types
  <1>2. turns # <<>> /\ Numbered
    BY DEF RegenerateProse, LastAndIdle, GameInv
  <1> DEFINE row == [LastTurn EXCEPT !.prose = NoProse, !.audit = <<>>, !.phase = "prose",
                                    !.edited = FALSE]
             new == NewJob("prose", LastTurn.id)
  <1>3. Len(turns) \in DOMAIN turns /\ LastTurn = turns[Len(turns)] /\ LastTurn \in Rows(U)
    BY <1>1, <1>2, LastTurnIs
  <1>4. row.id = LastTurn.id /\ row.results = LastTurn.results
    BY <1>3 DEF Rows
  <1>5. ~Live(new) /\ new.turn = LastTurn.id
    BY DEF NewJob, Live
  <1>6. jobs' = jobs \cup {new} /\ Update(LastTurn.id, row) /\ UNCHANGED deck
    BY DEF RegenerateProse
  <1> HIDE DEF row, new
  <1>7. calm' => calm
    <2>1. calm \in BOOLEAN
      BY DEF GameInv, Types
    <2> QED
      BY <2>1, Zenon DEF RegenerateProse
  <1>8. DOMAIN turns' = DOMAIN turns
    BY <1>6 DEF Update
  <1>9. ASSUME NEW i \in DOMAIN turns
        PROVE  turns'[i].id = turns[i].id /\ turns'[i].results = turns[i].results
    <2>1. turns'[i] = IF turns[i].id = LastTurn.id THEN row ELSE turns[i]
      BY <1>6 DEF Update
    <2>2. turns[i].id = LastTurn.id => turns[i] = LastTurn
      BY <1>2, <1>3 DEF Numbered
    <2> QED
      BY <1>4, <2>1, <2>2
  <1>10. \A k \in jobs' : k \in jobs \/ (~Live(k) /\ turns # <<>> /\ k.turn = LastTurn.id)
    BY <1>2, <1>5, <1>6
  <1>11. jobs \subseteq jobs'
    BY <1>6
  <1> QED
    BY <1>6, <1>7, <1>8, <1>9, <1>10, <1>11, DeckStays

LEMMA RegenerateTurnDeals ==
    ASSUME GameInv, GameInv', DeckInv, RegenerateTurn
    PROVE  DeckInv'
  <1>1. PICK U : TypesOver(U)
    BY DEF GameInv, Types
  <1>2. turns # <<>> /\ Numbered
    BY DEF RegenerateTurn, LastAndIdle, GameInv
  <1>3. LastTurn \in Rows(U) /\ LastTurn.id \in Nat \ {0}
    BY <1>1, <1>2, LastTurnIs
  <1> DEFINE row == NewTurn(LastTurn.id)
             new == NewJob("structured", LastTurn.id)
  <1>4. row \in Rows(U) /\ row.id = LastTurn.id /\ row.results = <<>>
    <2>1. <<>> \in Seq(Nat) /\ <<>> \in Seq(U) /\ <<>> \in Audits /\ NoProse \in Proses
      BY NoProseIs, AuditOf
    <2> QED
      BY <1>3, <2>1 DEF NewTurn, Rows, Phases
  <1>5. ~Live(new) /\ new.turn = LastTurn.id
    BY DEF NewJob, Live
  <1>6. jobs' = jobs \cup {new} /\ Update(LastTurn.id, row) /\ deck' \in Replay(Before)
    BY DEF RegenerateTurn, TurnsBefore, Before
  <1>7. calm' => calm /\ NoNarratorLive
    <2>1. calm \in BOOLEAN
      BY DEF GameInv, Types
    <2> QED
      BY <2>1, Zenon DEF RegenerateTurn
  <1> HIDE DEF row, new
  <1>8. /\ turns' # <<>> /\ turns'[Len(turns')].id = LastTurn.id
        /\ Before \in Seq(U) /\ AllResults(turns') = Before
    <2>1. /\ turns' # <<>> /\ LastTurn' = row /\ Before \in Seq(U)
          /\ AllResults(turns)' = Before \o row.results
      BY <1>1, <1>2, <1>4, <1>6, LastRewritten
    <2>2. Before \o <<>> = Before
      BY <2>1, ConcatEmptySeq
    <2> QED
      BY <1>4, <2>1, <2>2 DEF LastTurn
  <1>9. Proper(deck') /\ Accounts(deck', AllResults(turns'))
    BY <1>6, <1>8, ReplayIsProper, Replays
  <1>10. ASSUME calm', NEW k \in jobs', k.kind \in Narrators
         PROVE  ~Live(k) /\ turns' # <<>> /\ k.turn = turns'[Len(turns')].id
    BY <1>5, <1>6, <1>7, <1>8, <1>10, Waiting
  <1> QED
    BY <1>9, <1>10, DealtAnew

LEMMA SubmitDeals ==
    ASSUME GameInv, GameInv', DeckInv, Submit
    PROVE  DeckInv'
  <1>1. PICK U : TypesOver(U)
    BY DEF GameInv, Types
  <1> DEFINE row == NewTurn(issued + 1)
             new == NewJob("structured", issued + 1)
  <1>2. row \in Rows(U) /\ row.id = issued + 1 /\ row.results = <<>>
    <2>1. <<>> \in Seq(Nat) /\ <<>> \in Seq(U) /\ <<>> \in Audits /\ NoProse \in Proses
      BY NoProseIs, AuditOf
    <2>2. issued + 1 \in Nat \ {0}
      BY DEF GameInv, Types
    <2> QED
      BY <2>1, <2>2 DEF NewTurn, Rows, Phases
  <1>3. ~Live(new) /\ new.turn = issued + 1
    BY DEF NewJob, Live
  <1>4. jobs' = jobs \cup {new} /\ turns' = Append(turns, row) /\ UNCHANGED deck /\ Active = {}
    BY DEF Submit
  <1>5. calm' => calm /\ NoNarratorLive
    <2>1. calm \in BOOLEAN
      BY DEF GameInv, Types
    <2> QED
      BY <2>1, Zenon DEF Submit
  <1> HIDE DEF row, new
  <1>6. turns \in Seq(Rows(U))
    BY <1>1 DEF TypesOver
  <1>7. turns' # <<>> /\ turns'[Len(turns')] = row
    BY <1>2, <1>4, <1>6, AppendProperties
  <1>8. AllResults(turns') = AllResults(turns)
    <2>1. AllResults(turns) \in Seq(U) /\ AllResults(turns') = AllResults(turns) \o <<>>
      BY <1>2, <1>4, <1>6, ResultsMore
    <2> QED
      BY <2>1, ConcatEmptySeq
  <1>9. ASSUME calm'
        PROVE  /\ Proper(deck') /\ Accounts(deck', AllResults(turns'))
               /\ \A k \in jobs' : k.kind \in Narrators => k = new
    <2>1. \A k \in jobs : ~k.row
      BY <1>4 DEF Active
    <2> QED
      BY <1>4, <1>5, <1>8, <1>9, <2>1, Waiting
  <1> QED
    BY <1>2, <1>3, <1>7, <1>9, DealtAnew

LEMMA RewindDeals ==
    ASSUME GameInv, GameInv', DeckInv, NEW i \in 0..MaxTurns, Rewind(i)
    PROVE  DeckInv'
  <1>1. PICK V : turns' \in Seq(Rows(V))
    BY DEF GameInv, Types, TypesOver
  <1>2. deck' \in Replay(AllResults(turns'))
    BY DEF Rewind
  <1>3. AllResults(turns') \in Seq(V)
    <2>1. CASE turns' = <<>>
      <3>1. [k \in DOMAIN <<>> |-> <<>>[k].results] = <<>>
        OBVIOUS
      <3>2. AllResults(turns') = <<>>
        BY <2>1, <3>1 DEF AllResults, FlattenSeq
      <3> QED
        BY <3>2
    <2>2. CASE turns' # <<>>
      <3>1. turns'[Len(turns')] \in Rows(V)
        BY <1>1, <2>2, FrontIs
      <3> QED
        BY <1>1, <3>1, ResultsMore
    <2> QED
      BY <2>1, <2>2
  <1>4. Proper(deck') /\ Accounts(deck', AllResults(turns'))
    BY <1>2, <1>3, ReplayIsProper, Replays
  <1>5. calm' => NoNarratorLive
    BY DEF Rewind
  <1>6. ASSUME calm', NEW k \in jobs' PROVE k.kind \notin Narrators
    <2>1. PICK job \in jobs : Live(job) /\ k = IF job.row THEN CancelledJob(job) ELSE job
      BY DEF Rewind
    <2>2. \E U : job \in Jobs(U)
      BY DEF GameInv, Types, TypesOver
    <2>3. k.kind = job.kind
      BY <2>1, <2>2 DEF CancelledJob, Jobs
    <2> QED
      BY <1>5, <1>6, <2>1, <2>3 DEF NoNarratorLive
  <1> QED
    BY <1>4, <1>6, DealtAnew

LEMMA EditMechanicsDeals ==
    ASSUME GameInv, GameInv', DeckInv, NEW i \in DOMAIN turns, EditMechanics(i)
    PROVE  DeckInv'
  <1> SUFFICES ASSUME calm' PROVE DeckInv'
    BY DealtAnew
  <1>1. PICK results \in EditedResults :
           /\ deck' \in Replay(AllResults(SubSeq(turns, 1, i - 1)) \o results)
           /\ Update(turns[i].id, [turns[i] EXCEPT !.results = results, !.edited = TRUE])
    BY DEF EditMechanics
  <1>2. calm /\ i = Len(turns) /\ NoNarratorLive /\ UNCHANGED jobs
    BY DEF EditMechanics
  <1>3. PICK U, V : TypesOver(U) /\ TypesOver(V)'
    BY DEF GameInv, Types
  <1> DEFINE W == U \cup V
  <1>4. TypesOver(W) /\ Rows(V) \subseteq Rows(W)
    BY <1>3, Grows
  <1> HIDE DEF W
  <1> DEFINE row == [turns[i] EXCEPT !.results = results, !.edited = TRUE]
  <1>5. turns # <<>> /\ LastTurn = turns[i] /\ Numbered /\ LastTurn \in Rows(W) /\ turns \in Seq(Rows(W))
    <2>1. turns # <<>> /\ turns \in Seq(Rows(W))
      BY <1>4 DEF TypesOver
    <2> QED
      BY <1>2, <1>4, <2>1, LastTurnIs DEF GameInv
  <1>6. row.id = LastTurn.id /\ row.results = results
    BY <1>5 DEF Rows
  <1> HIDE DEF row
  <1>7. row \in Rows(W)
    <2>1. turns'[i] = row /\ i \in DOMAIN turns'
      BY <1>1, <1>5 DEF Update, row
    <2>2. turns' \in Seq(Rows(V))
      BY <1>3 DEF TypesOver
    <2>3. row \in Rows(V)
      BY <2>1, <2>2
    <2> QED
      BY <1>4, <2>3
  <1>8. /\ turns' # <<>> /\ LastTurn' = row /\ Before \in Seq(W)
        /\ AllResults(turns)' = Before \o results
    BY <1>1, <1>4, <1>5, <1>6, <1>7, LastRewritten DEF row
  <1>9. SubSeq(turns, 1, i - 1) = Front(turns)
    BY <1>2 DEF Front
  <1>10. results \in Seq(W)
    BY <1>6, <1>7 DEF Rows
  <1>11. Proper(deck') /\ Accounts(deck', AllResults(turns'))
    <2>1. deck' \in Replay(Before \o results) /\ Before \o results \in Seq(W)
      BY <1>1, <1>8, <1>9, <1>10, ConcatProperties DEF Before
    <2> QED
      BY <1>8, <2>1, ReplayIsProper, Replays
  <1>12. \A k \in jobs' : k.kind \in Narrators =>
             ~Live(k) /\ turns' # <<>> /\ k.turn = turns'[Len(turns')].id
    BY <1>2, <1>6, <1>8, Waiting DEF LastTurn
  <1> QED
    BY <1>11, <1>12, DealtAnew

LEMMA DeckInit == Init => DeckInv
  <1> SUFFICES ASSUME Init PROVE DeckInv
    OBVIOUS
  <1>1. turns = <<>> /\ jobs = {} /\ deck \in Shuffled
    BY DEF Init
  <1>2. AllResults(turns) = <<>>
    <2>1. [k \in DOMAIN <<>> |-> <<>>[k].results] = <<>>
      OBVIOUS
    <2> QED
      BY <1>1, <2>1 DEF AllResults, FlattenSeq
  <1> QED
    BY <1>1, <1>2, Unplayed DEF DeckInv

LEMMA DeckStep == GameInv /\ DeckInv /\ [Next]_vars => DeckInv'
  <1> SUFFICES ASSUME GameInv, DeckInv, [Next]_vars PROVE DeckInv'
    OBVIOUS
  <1>0. GameInv'
    BY GameStep
  <1>1. CASE Submit \/ RegenerateTurn \/ RegenerateProse \/ Crash
    BY <1>0, <1>1, SubmitDeals, RegenerateTurnDeals, RegenerateProseKeeps, CrashKeeps
  <1>2. CASE \E job \in jobs : Cancel(job)
    BY <1>0, <1>2, CancelKeeps
  <1>3. CASE \E i \in 0..MaxTurns : Rewind(i)
    BY <1>0, <1>3, RewindDeals
  <1>4. CASE \E i \in DOMAIN turns : EditMechanics(i) \/ RecheckState(i)
    BY <1>0, <1>4, EditMechanicsDeals, RecheckStateKeeps
  <1>5. ASSUME NEW job \in jobs, TurnStep(job) PROVE DeckInv'
    <2>1. CASE Start(job) \/ RollChecks(job) \/ Narrate(job)
      BY <1>0, <2>1, StartDeals, DeclareKeeps, InsertCheckKeeps, NarrateDeals DEF RollChecks
    <2>2. CASE InlinePass(job) \/ ProsePass(job)
      BY <1>0, <2>2, StreamKeeps, CallToolDeals, WriteResultsDeals, WriteDeckDeals, ApplyChangeKeeps,
         WriteAuditKeeps DEF InlinePass, ProsePass
    <2>3. CASE Finish(job) \/ Close(job) \/ Complete(job) \/ Stop(job)
      BY <1>0, <2>3, FinishDeals, CloseKeeps, CompleteKeeps, StopKeeps
    <2> QED
      BY <1>5, <2>1, <2>2, <2>3 DEF TurnStep
  <1>6. ASSUME NEW job \in jobs, RecheckStep(job) \/ SummaryStep(job) PROVE DeckInv'
    BY <1>0, <1>6, OtherStepsKeep
  <1>7. CASE UNCHANGED vars
    BY <1>7 DEF vars, DeckInv, Proper, Live, Hand, Accounts, LastTurn, Before
  <1> QED
    BY <1>1, <1>2, <1>3, <1>4, <1>5, <1>6, <1>7 DEF Next

\* Whenever nothing narrates, the deck and the board are what the recorded results of
\* the turns make of a new deck, the edited ones included: no card is lost or drawn
\* twice by a regenerate, a rewind, a failure or a stop before a tool's results.
THEOREM DecksFollowResults == Spec => []DeckFollowsResults
  <1>1. GameInv /\ DeckInv => DeckFollowsResults
    <2> SUFFICES ASSUME GameInv, DeckInv, calm, NoNarratorLive
                 PROVE  Accounts(deck, AllResults(turns))
      BY DEF DeckFollowsResults
    <2> QED
      BY Waiting
  <1> QED
    BY <1>1, DeckInit, DeckStep, Invariance, PTL DEF Spec
=============================================================================
