---------------------------- MODULE StoryProofs ----------------------------
(* Why a story's state, texts and audits agree whatever its jobs meet.  While no task *)
(* works on a beat that another one holds (calm), a beat has one job at most, and the *)
(* invariant says of each beat what holds while nobody works on it (Free) and what    *)
(* the step of the one job that does makes of it (Held).  A step then has to be       *)
(* looked at for the beat of its own job only: that it leaves the other beats as they *)
(* are is one lemma for all steps.                                                    *)
EXTENDS Story, FiniteSetTheorems, SequenceTheorems, TLAPS

Texts == Seq(Int)
Audits == Seq(Nat \X Nat)
BeatKinds == {"prose", "continue", "align", "recheck", "mechanical"}
Kinds == BeatKinds \cup {"summarize", "beats", "chapters"}
LegacySteps == {"open", "stream", "again", "restore", "wait"}
Unsaved == {"save", "merge"}
Untold == {"prepare", "note"}
Steps == {"queued", "plan", "typed", "invalidate", "asked"} \cup LegacySteps \cup Unsaved \cup Untold
Jobs == [id : Nat, kind : Kinds, chapter : Nat, beat : Nat, row : BOOLEAN, token : BOOLEAN,
         step : Steps, place : Nat, base : Texts, got : Nat, attempt : 1..MaxAttempts,
         audit : Audits]
Beats == [chapter : Nat, plan : BOOLEAN, text : Texts, audit : Audits, kept : Texts,
          asked : BOOLEAN]
Chapters == [id : Nat \ {0}, valid : BOOLEAN]

Types ==
    /\ variablesOn \in BOOLEAN /\ calm \in BOOLEAN /\ issued \in Nat /\ events \in Nat
    /\ chapters \in Seq(Chapters)
    /\ DOMAIN beats \subseteq Nat \ {0} /\ beats \in [DOMAIN beats -> Beats]
    /\ changes \subseteq Nat \X Nat /\ IsFiniteSet(changes)
    /\ jobs \subseteq Jobs
    /\ notes \subseteq (Nat \ {0}) \X {"look", "write"}

\* Which kinds of jobs are at which step, and have a beat; what is written when.
Shape(job) ==
    /\ job.kind \in BeatKinds <=> job.beat # 0
    /\ job.chapter = 0 => job.beat = 0
    /\ job.step \in {"plan", "save", "typed"} => job.kind = "prose"
    /\ job.step \in LegacySteps => job.kind \in Writers
    /\ job.step = "invalidate" /\ job.kind = "prose" => job.got > 0
    /\ job.step = "asked" => job.kind \notin Writers
    /\ job.step = "merge" => job.kind = "recheck"
    /\ job.step \in Untold => job.kind = "prose" /\ ~job.row
    /\ job.step \in {"queued", "plan", "save", "open", "again", "restore", "wait"} \cup Untold =>
          job.got = 0

\* A beat's id, once used, is no id that a proposal has yet to give.
Used(b) ==
    \/ b \in DOMAIN beats
    \/ \E job \in jobs : job.beat = b
    \/ \E c \in changes : c[1] = b
    \/ b \in NotedBeats

Numbered ==
    /\ \A job \in jobs : job.id \in 1..issued
    /\ \A i, j \in jobs : i.id = j.id => i = j
    /\ \A b : Used(b) => b <= 2 + issued /\ \A job \in jobs : b # NewId(job)

\* The chapter of a beat is its job's, and a task without a row has been told, or has
\* no row yet, or has settled it itself, unless its beat is gone.
JobsOfBeats ==
    \A job \in jobs : job.beat \in DOMAIN beats =>
        /\ job.chapter \in ChapterIds
        /\ ~job.row => job.token \/ job.step \in Untold

Alone == \A i, j \in jobs : i.beat = j.beat /\ i.beat # 0 => i = j

ChangesOf(b) == {c \in changes : c[1] = b}

\* The beat that nobody works on.
Free(b) ==
    /\ ChangesOf(b) = ToSet(beats[b].audit)
    /\ IsPrefix(beats[b].kept, beats[b].text)
    /\ beats[b].asked => beats[b].text # Blank \/ b \in NotedBeats
    /\ b \in NotedBeats => beats[b].kept = Blank

\* The beat of a job. A draft has written nothing yet and will.
Drafts(job) == job.kind = "prose" /\ (job.row \/ job.step \in Untold) /\ job.got = 0

Held(b, job) ==
    /\ ChangesOf(b) = IF job.step \in Unsaved THEN ToSet(job.audit) ELSE ToSet(beats[b].audit)
    /\ job.step = "plan" => beats[b].audit = <<>>
    /\ job.step = "asked" /\ job.kind = "recheck" => job.audit = beats[b].audit
    /\ IsPrefix(beats[b].kept, beats[b].text)
    /\ beats[b].asked /\ beats[b].text = Blank => Drafts(job) \/ b \in NotedBeats
    /\ job.kind = "prose" \/ b \in NotedBeats => beats[b].kept = Blank
    /\ job.kind = "continue" =>
        /\ beats[b].text # Blank
        /\ Live(job) => job.base # Blank /\ IsPrefix(beats[b].kept, job.base)
    /\ job.step = "restore" => ~job.token

BeatInv(b) ==
    /\ (\A job \in jobs : job.beat # b) => Free(b)
    /\ \A job \in jobs : job.beat = b => Held(b, job)

StoryInv ==
    /\ Types
    /\ TypeOK
    /\ \A job \in jobs : Shape(job)
    /\ Numbered
    /\ JobsOfBeats
    /\ calm => Alone /\ \A b \in DOMAIN beats : BeatInv(b)

-----------------------------------------------------------------------------
(* Texts, audits and records *)

LEMMA NotesAndPieces ==
    /\ Blank \in Texts /\ Note \in Texts /\ Note # Blank /\ Blank \in Audits
    /\ \A n \in Int : <<n>> \in Texts /\ <<n>> # Blank
    /\ \A n \in Nat : ByUser(n) \in Texts /\ ByUser(n) # Blank
  <1>1. \A n \in Int : <<n>> \in Texts /\ <<n>> # <<>>
    BY DEF Texts
  <1>2. <<>> \in Texts /\ <<>> \in Audits
    BY DEF Texts, Audits
  <1>3. 0 \in Int /\ \A n \in Nat : -1 - n \in Int
    OBVIOUS
  <1> QED
    BY <1>1, <1>2, <1>3 DEF Blank, Note, ByUser

LEMMA PrefixOfItself ==
    ASSUME NEW s \in Texts
    PROVE  IsPrefix(s, s) /\ IsPrefix(Blank, s)
  <1>1. Len(s) \in Nat /\ Len(Blank) = 0
    BY DEF Texts, Blank
  <1>2. SubSeq(s, 1, 0) = <<>> /\ SubSeq(Blank, 1, 0) = <<>>
    <2>1. s \in Seq(Int) /\ Blank \in Seq(Int)
      BY NotesAndPieces DEF Texts
    <2> QED
      BY <2>1, SubSeqEmpty
  <1> QED
    BY <1>1, <1>2 DEF IsPrefix

LEMMA PrefixOfMore ==
    ASSUME NEW k \in Texts, NEW s \in Texts, NEW t \in Texts, IsPrefix(k, s)
    PROVE  IsPrefix(k, s \o t)
  <1>1. /\ k \in Seq(Int) /\ s \in Seq(Int) /\ t \in Seq(Int)
        /\ Len(k) \in Nat /\ Len(s) \in Nat /\ Len(t) \in Nat /\ Len(s \o t) = Len(s) + Len(t)
    BY DEF Texts
  <1>2. Len(k) <= Len(s) /\ SubSeq(k, 1, Len(k)) = SubSeq(s, 1, Len(k))
    BY DEF IsPrefix
  <1>3. SubSeq(s \o t, 1, Len(k)) = SubSeq(s, 1, Len(k))
    <2>1. s \o t \in Seq(Int)
      BY <1>1
    <2>2. \A i \in 1..Len(k) : (s \o t)[i] = s[i]
      BY <1>1, <1>2
    <2> QED
      BY <1>1, <1>2, <2>1, <2>2
  <1> QED
    BY <1>1, <1>2, <1>3 DEF IsPrefix

LEMMA LengthOfBoth ==
    ASSUME NEW s \in Seq(Int), NEW t \in Seq(Int)
    PROVE  Len(s \o t) = Len(s) + Len(t) /\ Len(s) \in Nat
  OBVIOUS

LEMMA WrittenIs ==
    ASSUME NEW job \in Jobs
    PROVE  /\ Written(job) \in Texts
           /\ job.got > 0 \/ job.base # Blank => Written(job) # Blank
           /\ \A k \in Texts : IsPrefix(k, job.base) => IsPrefix(k, Written(job))
  <1> DEFINE pieces == [i \in 1..job.got |-> job.id]
  <1>1. job.got \in Nat /\ job.id \in Int /\ job.base \in Texts
    BY DEF Jobs
  <1>2. pieces \in Seq(Int) /\ Len(pieces) = job.got
    BY <1>1, IsASeq
  <1>3. Written(job) = job.base \o pieces
    BY DEF Written
  <1> HIDE DEF pieces
  <1>4. Written(job) \in Texts
    BY <1>1, <1>2, <1>3 DEF Texts
  <1>5. ASSUME job.got > 0 \/ job.base # Blank PROVE Written(job) # Blank
    <2>1. Len(Written(job)) = Len(job.base) + job.got /\ Len(job.base) \in Nat
      <3>1. job.base \in Seq(Int)
        BY <1>1 DEF Texts
      <3>2. Len(job.base \o pieces) = Len(job.base) + Len(pieces) /\ Len(job.base) \in Nat
        BY <1>2, <3>1, LengthOfBoth
      <3> QED
        BY <1>2, <1>3, <3>2
    <2>2. job.base # Blank => Len(job.base) > 0
      BY <1>1, EmptySeq DEF Texts, Blank
    <2>3. Len(Blank) = 0
      BY DEF Blank
    <2>4. Len(Written(job)) > 0
      BY <1>1, <1>5, <2>1, <2>2
    <2> QED
      BY <2>3, <2>4
  <1>6. \A k \in Texts : IsPrefix(k, job.base) => IsPrefix(k, Written(job))
    BY <1>1, <1>2, <1>3, PrefixOfMore DEF Texts
  <1> QED
    BY <1>4, <1>5, <1>6

LEMMA AuditOf ==
    /\ ToSet(<<>>) = {}
    /\ \A x \in Nat \X Nat : <<x>> \in Audits /\ ToSet(<<x>>) = {x}
    /\ \A a \in Audits, x \in Nat \X Nat :
          Append(a, x) \in Audits /\ ToSet(Append(a, x)) = ToSet(a) \cup {x}
  <1>1. ToSet(<<>>) = {}
    BY DEF ToSet
  <1>2. ASSUME NEW x \in Nat \X Nat PROVE <<x>> \in Audits /\ ToSet(<<x>>) = {x}
    <2>1. <<x>> \in Audits /\ DOMAIN <<x>> = {1} /\ <<x>>[1] = x
      BY DEF Audits
    <2> QED
      BY <2>1 DEF ToSet
  <1>3. ASSUME NEW a \in Audits, NEW x \in Nat \X Nat
        PROVE  Append(a, x) \in Audits /\ ToSet(Append(a, x)) = ToSet(a) \cup {x}
    <2>1. a \in Seq(Nat \X Nat) /\ Len(a) \in Nat /\ DOMAIN a = 1..Len(a)
      BY DEF Audits
    <2>2. /\ Append(a, x) \in Seq(Nat \X Nat) /\ DOMAIN Append(a, x) = 1..Len(a) + 1
          /\ Append(a, x)[Len(a) + 1] = x
          /\ \A i \in 1..Len(a) : Append(a, x)[i] = a[i]
      BY <2>1
    <2>3. \A i \in 1..Len(a) + 1 : i \in 1..Len(a) \/ i = Len(a) + 1
      BY <2>1
    <2>4. \A i \in 1..Len(a) : i \in 1..Len(a) + 1
      BY <2>1
    <2>5. Len(a) + 1 \in 1..Len(a) + 1
      BY <2>1
    <2>6. ToSet(Append(a, x)) \subseteq ToSet(a) \cup {x}
      BY <2>1, <2>2, <2>3 DEF ToSet
    <2>7. ToSet(a) \cup {x} \subseteq ToSet(Append(a, x))
      BY <2>1, <2>2, <2>4, <2>5 DEF ToSet
    <2> QED
      BY <2>2, <2>6, <2>7 DEF Audits
  <1> QED
    BY <1>1, <1>2, <1>3

Same(new, job) ==
    /\ new \in Jobs /\ new.id = job.id /\ new.kind = job.kind
    /\ new.chapter = job.chapter /\ new.beat = job.beat
Moved(new, job) ==
    /\ Same(new, job) /\ new.token = job.token /\ Live(new)
    /\ new.row = job.row \/ (~new.row /\ new.step = "note")

LEMMA StepTo ==
    ASSUME NEW job \in Jobs, NEW s \in Steps \ {"queued"}
    PROVE  LET new == [job EXCEPT !.step = s]
           IN  /\ Moved(new, job) /\ new.step = s /\ new.got = job.got
               /\ new.base = job.base /\ new.audit = job.audit
  BY DEF Jobs, Moved, Same, Live

LEMMA Opened ==
    ASSUME NEW job \in Jobs, NEW p \in Nat, NEW t \in Texts
    PROVE  LET new == [job EXCEPT !.step = "open", !.place = p, !.base = t]
           IN  Moved(new, job) /\ new.step = "open" /\ new.got = job.got /\ new.base = t
  BY DEF Jobs, Moved, Same, Live, Steps, LegacySteps

LEMMA ToldTo ==
    ASSUME NEW job \in Jobs, NEW s \in Unsaved, NEW a \in Audits
    PROVE  LET new == [job EXCEPT !.step = s, !.audit = a]
           IN  Moved(new, job) /\ new.step = s /\ new.got = job.got /\ new.audit = a
  BY DEF Jobs, Moved, Same, Live, Steps, Unsaved

LEMMA AskedOf ==
    ASSUME NEW job \in Jobs, NEW p \in Nat, NEW a \in Audits
    PROVE  LET new == [job EXCEPT !.step = "asked", !.place = p, !.audit = a]
           IN  Moved(new, job) /\ new.step = "asked" /\ new.got = job.got /\ new.audit = a
  BY DEF Jobs, Moved, Same, Live, Steps

LEMMA PieceOf ==
    ASSUME NEW job \in Jobs, Live(job)
    PROVE  LET new == [job EXCEPT !.got = @ + 1]
           IN  /\ Moved(new, job) /\ new.step = job.step /\ new.got = job.got + 1
               /\ new.base = job.base
  BY DEF Jobs, Moved, Same, Live

LEMMA RetryOf ==
    ASSUME NEW job \in Jobs, job.attempt < MaxAttempts
    PROVE  LET new == [job EXCEPT !.step = "again", !.attempt = @ + 1, !.got = 0]
           IN  /\ Moved(new, job) /\ new.step = "again" /\ new.got = 0 /\ new.base = job.base
  <1>1. job.attempt + 1 \in 1..MaxAttempts
    BY BoundsAssumption DEF Jobs
  <1> QED
    BY <1>1 DEF Jobs, Moved, Same, Live, Steps, LegacySteps

LEMMA RowRecords ==
    ASSUME NEW row \in Beats
    PROVE  /\ \A t \in Texts :
                 LET new == [row EXCEPT !.text = t]
                 IN  /\ new \in Beats /\ new.text = t /\ new.chapter = row.chapter
                     /\ new.plan = row.plan
                     /\ new.audit = row.audit /\ new.kept = row.kept /\ new.asked = row.asked
           /\ \A k \in Texts :
                 LET new == [row EXCEPT !.kept = k]
                 IN  /\ new \in Beats /\ new.kept = k /\ new.chapter = row.chapter
                     /\ new.text = row.text /\ new.audit = row.audit /\ new.asked = row.asked
           /\ \A k \in Texts :
                 LET new == [row EXCEPT !.kept = k, !.asked = FALSE]
                 IN  /\ new \in Beats /\ new.kept = k /\ new.chapter = row.chapter
                     /\ new.text = row.text /\ new.audit = row.audit /\ ~new.asked
           /\ LET new == [row EXCEPT !.audit = <<>>, !.kept = Blank, !.asked = TRUE]
              IN  /\ new \in Beats /\ new.kept = Blank /\ new.chapter = row.chapter
                  /\ new.text = row.text /\ new.audit = <<>>
           /\ \A a \in Audits :
                 LET new == [row EXCEPT !.audit = a]
                 IN  /\ new \in Beats /\ new.audit = a /\ new.chapter = row.chapter
                     /\ new.text = row.text /\ new.kept = row.kept /\ new.asked = row.asked
           /\ LET new == [row EXCEPT !.asked = FALSE]
              IN  /\ new \in Beats /\ new.chapter = row.chapter /\ new.text = row.text
                  /\ new.audit = row.audit /\ new.kept = row.kept /\ ~new.asked
           /\ LET new == [row EXCEPT !.plan = TRUE]
              IN  /\ new \in Beats /\ new.chapter = row.chapter /\ new.text = row.text
                  /\ new.audit = row.audit /\ new.kept = row.kept /\ new.asked = row.asked
  BY NotesAndPieces DEF Beats, Blank

LEMMA UpdateOf ==
    ASSUME Types, NEW b, NEW new, b \in DOMAIN beats => new \in Beats, Update(b, new)
    PROVE  /\ DOMAIN beats' = DOMAIN beats /\ beats' \in [DOMAIN beats -> Beats]
           /\ \A c \in DOMAIN beats : beats'[c] = IF c = b THEN new ELSE beats[c]
  BY DEF Update, Types

LEMMA PlaceIs ==
    ASSUME Types, NEW chapter \in ChapterIds
    PROVE  PlaceOf(chapter) \in Nat
  <1>1. \E i \in DOMAIN chapters : chapters[i].id = chapter
    BY DEF ChapterIds
  <1>2. PlaceOf(chapter) \in DOMAIN chapters
    BY <1>1 DEF PlaceOf
  <1> QED
    BY <1>2 DEF Types

\* Summaries become invalid, the chapters stay.
ChaptersStay ==
    chapters' \in Seq(Chapters) /\ Len(chapters') = Len(chapters) /\ ChapterIds' = ChapterIds

LEMMA ChaptersAre ==
    ASSUME Types
    PROVE  /\ \A place : InvalidateFrom(place) => ChaptersStay
           /\ \A job : Summarize(job) => ChaptersStay
           /\ UNCHANGED chapters => ChaptersStay
  <1>0. chapters \in Seq(Chapters) /\ Len(chapters) \in Nat /\ DOMAIN chapters = 1..Len(chapters)
    BY DEF Types
  <1>1. ASSUME NEW f, f = [i \in DOMAIN chapters |-> f[i]],
               \A i \in DOMAIN chapters : f[i] \in Chapters /\ f[i].id = chapters[i].id, chapters' = f
        PROVE  ChaptersStay
    <2>1. f \in Seq(Chapters) /\ Len(f) = Len(chapters) /\ DOMAIN f = DOMAIN chapters
      <3>1. \A i \in 1..Len(chapters) : f[i] \in Chapters
        BY <1>0, <1>1
      <3>2. f \in [1..Len(chapters) -> Chapters]
        BY <1>0, <1>1, <3>1
      <3> QED
        BY <1>0, <3>2
    <2>2. ChapterIds' = ChapterIds
      BY <1>1, <2>1 DEF ChapterIds
    <2> QED
      BY <1>1, <2>1, <2>2 DEF ChaptersStay
  <1>2. \A i \in DOMAIN chapters, v \in BOOLEAN :
           /\ chapters[i] \in Chapters
           /\ [chapters[i] EXCEPT !.valid = v] \in Chapters
           /\ [chapters[i] EXCEPT !.valid = v].id = chapters[i].id
    <2>1. \A i \in DOMAIN chapters : chapters[i] \in Chapters
      BY <1>0
    <2> QED
      BY <2>1 DEF Chapters
  <1>3. ASSUME NEW place, InvalidateFrom(place) PROVE ChaptersStay
    <2> DEFINE f == [i \in DOMAIN chapters |->
                       IF i >= place THEN [chapters[i] EXCEPT !.valid = FALSE] ELSE chapters[i]]
    <2>1. \A i \in DOMAIN chapters : f[i] \in Chapters /\ f[i].id = chapters[i].id
      BY <1>2
    <2>2. chapters' = f /\ f = [i \in DOMAIN chapters |-> f[i]]
      BY <1>3 DEF InvalidateFrom
    <2> HIDE DEF f
    <2> QED
      BY <1>1, <2>1, <2>2
  <1>4. ASSUME NEW job, Summarize(job) PROVE ChaptersStay
    <2> DEFINE f == [i \in DOMAIN chapters |->
                       IF chapters[i].id = job.chapter
                       THEN [chapters[i] EXCEPT !.valid = TRUE] ELSE chapters[i]]
    <2>1. \A i \in DOMAIN chapters : f[i] \in Chapters /\ f[i].id = chapters[i].id
      BY <1>2
    <2>2. chapters' = f /\ f = [i \in DOMAIN chapters |-> f[i]]
      BY <1>4 DEF Summarize
    <2> HIDE DEF f
    <2> QED
      BY <1>1, <2>1, <2>2
  <1>5. ASSUME UNCHANGED chapters PROVE ChaptersStay
    BY <1>0, <1>5 DEF ChaptersStay, ChapterIds
  <1> QED
    BY <1>3, <1>4, <1>5

-----------------------------------------------------------------------------
(* What the step of a job does *)

\* Everything but the jobs: only the beat of the job may change, or add changes.
RowsStay(b) ==
    /\ DOMAIN beats' = DOMAIN beats /\ beats' \in [DOMAIN beats -> Beats]
    /\ \A c \in DOMAIN beats :
        beats'[c].chapter = beats[c].chapter /\ (c # b => beats'[c] = beats[c])

Goes(job) ==
    /\ RowsStay(job.beat)
    /\ ChaptersStay
    /\ changes \subseteq changes' /\ changes' \subseteq Nat \X Nat /\ IsFiniteSet(changes')
    /\ \A c \in changes' \ changes : c[1] = job.beat
    /\ calm' \in BOOLEAN /\ (calm' => calm)
    /\ UNCHANGED <<variablesOn, notes, issued, events>>

\* How the job holds its beat before the step.
Known(job) == calm' /\ job.beat \in DOMAIN beats /\ Held(job.beat, job)

Ending(job) == jobs' = jobs \ {job} /\ (Known(job) => Free(job.beat)')
Moving(job) ==
    \E new : /\ Moved(new, job) /\ Shape(new)
             /\ jobs' = (jobs \ {job}) \cup {new}
             /\ Known(job) => Held(job.beat, new)'

\* A job as the invariant has it.
Fit(job) ==
    /\ Types
    /\ job \in Jobs
    /\ Shape(job)
    /\ job.row => (job.beat # 0 => job.beat \in DOMAIN beats) /\ (job.chapter # 0 => job.chapter \in ChapterIds)
    /\ job.step = "queued" => job.row
    /\ job.token => ~job.row
    /\ job.beat \in DOMAIN beats => job.chapter \in ChapterIds
    /\ ~job.row /\ job.beat \in DOMAIN beats => job.token \/ job.step \in Untold

\* Of the row of b only the text is new; a generation may no longer be asked for.
TextIs(b, text) ==
    /\ beats'[b].text = text /\ beats'[b].kept = beats[b].kept
    /\ beats'[b].audit = beats[b].audit
    /\ beats'[b].asked => beats[b].asked

LEMMA NothingWritten ==
    ASSUME Types, UNCHANGED beats, NEW b
    PROVE  RowsStay(b) /\ (b \in DOMAIN beats => TextIs(b, beats[b].text))
  BY DEF Types, RowsStay, TextIs

LEMMA WriteOf ==
    ASSUME Types, NEW b, NEW text, b \in DOMAIN beats => text \in Texts, Write(b, text)
    PROVE  RowsStay(b) /\ (b \in DOMAIN beats => TextIs(b, text))
  <1>1. b \in DOMAIN beats =>
           LET new == WithText(b, text)
           IN  /\ new \in Beats /\ new.text = text /\ new.chapter = beats[b].chapter
               /\ new.audit = beats[b].audit /\ new.kept = beats[b].kept
               /\ new.asked = beats[b].asked
    <2>1. b \in DOMAIN beats => beats[b] \in Beats
      BY DEF Types
    <2> QED
      BY <2>1, RowRecords DEF WithText
  <1> DEFINE new == WithText(b, text)
  <1> HIDE DEF new
  <1>2. Update(b, new)
    BY DEF Write, new
  <1>3. /\ DOMAIN beats' = DOMAIN beats /\ beats' \in [DOMAIN beats -> Beats]
        /\ \A c \in DOMAIN beats : beats'[c] = IF c = b THEN new ELSE beats[c]
    BY <1>1, <1>2, UpdateOf DEF new
  <1> QED
    BY <1>1, <1>3 DEF RowsStay, TextIs, new

\* A beat keeps its audit and gets the text that its next state asks for.
LEMMA TextEnds ==
    ASSUME NEW job, NEW text, TextIs(job.beat, text), UNCHANGED <<changes, notes>>,
           Held(job.beat, job), job.step \notin Unsaved,
           IsPrefix(beats[job.beat].kept, text),
           beats'[job.beat].asked => text # Blank \/ job.beat \in NotedBeats
    PROVE  Free(job.beat)'
  BY DEF TextIs, Held, Free, ChangesOf, NotedBeats

LEMMA TextMoves ==
    ASSUME NEW job, NEW new, NEW text, TextIs(job.beat, text), UNCHANGED <<changes, notes>>,
           Held(job.beat, job), Moved(new, job), job.step \notin Unsaved, new.step \notin Unsaved,
           new.step = "plan" => beats[job.beat].audit = <<>>,
           new.step = "asked" /\ new.kind = "recheck" => new.audit = beats[job.beat].audit,
           IsPrefix(beats[job.beat].kept, text),
           beats[job.beat].asked /\ text = Blank => Drafts(new) \/ job.beat \in NotedBeats,
           job.kind = "continue" =>
              text # Blank /\ new.base # Blank /\ IsPrefix(beats[job.beat].kept, new.base),
           new.step = "restore" => ~new.token
    PROVE  Held(job.beat, new)'
  BY DEF TextIs, Held, ChangesOf, Moved, Same, NotedBeats

\* Of what a job can rely on.
LEMMA OfHeld ==
    ASSUME NEW job, Fit(job), job.beat \in DOMAIN beats, Held(job.beat, job)
    PROVE  /\ beats[job.beat] \in Beats /\ beats[job.beat].text \in Texts
           /\ beats[job.beat].kept \in Texts /\ beats[job.beat].audit \in Audits
           /\ job.base \in Texts /\ job.got \in Nat /\ job.beat \in Nat \ {0}
           /\ job.kind = "prose" => \A t \in Texts : IsPrefix(beats[job.beat].kept, t)
           /\ IsPrefix(beats[job.beat].kept, beats[job.beat].text)
           /\ job.kind \in Writers /\ Live(job) /\ job.base \in Texts =>
                 IsPrefix(beats[job.beat].kept, Written(job))
  <1>1. /\ beats[job.beat] \in Beats /\ job \in Jobs /\ job.beat \in Nat \ {0}
    BY DEF Fit, Types
  <1>2. /\ beats[job.beat].text \in Texts /\ beats[job.beat].kept \in Texts
        /\ beats[job.beat].audit \in Audits /\ job.base \in Texts /\ job.got \in Nat
    BY <1>1 DEF Beats, Jobs
  <1>3. IsPrefix(beats[job.beat].kept, beats[job.beat].text)
    BY DEF Held, NotedBeats
  <1>4. job.kind = "prose" => \A t \in Texts : IsPrefix(beats[job.beat].kept, t)
    BY PrefixOfItself DEF Held, NotedBeats
  <1>5. job.kind \in Writers /\ Live(job) => IsPrefix(beats[job.beat].kept, Written(job))
    BY <1>1, <1>2, <1>4, WrittenIs DEF Held, Writers, NotedBeats
  <1> QED
    BY <1>1, <1>2, <1>3, <1>4, <1>5

-----------------------------------------------------------------------------
(* The jobs that write prose *)

Elsewhere == <<variablesOn, changes, notes, issued, events>>

LEMMA EndsWith ==
    ASSUME NEW job, Fit(job), NEW text, RowsStay(job.beat),
           job.beat \in DOMAIN beats => TextIs(job.beat, text),
           Ends(job), ChaptersStay, UNCHANGED Elsewhere, UNCHANGED calm, job.step \notin Unsaved,
           Known(job) => /\ IsPrefix(beats[job.beat].kept, text)
                         /\ beats'[job.beat].asked => text # Blank \/ job.beat \in NotedBeats
    PROVE  Goes(job) /\ Ending(job)
  <1>1. Goes(job)
    BY DEF Goes, Elsewhere, Fit, Types
  <1>2. Known(job) => Free(job.beat)'
    BY TextEnds DEF Elsewhere, Known
  <1> QED
    BY <1>1, <1>2 DEF Ending, Ends

LEMMA MovesWith ==
    ASSUME NEW job, Fit(job), NEW text, NEW new, RowsStay(job.beat),
           job.beat \in DOMAIN beats => TextIs(job.beat, text),
           jobs' = (jobs \ {job}) \cup {new}, Moved(new, job), Shape(new), ChaptersStay,
           UNCHANGED Elsewhere, calm' \in BOOLEAN, calm' => calm,
           job.step \notin Unsaved, new.step \notin Unsaved,
           Known(job) =>
             /\ new.step = "plan" => beats[job.beat].audit = <<>>
             /\ new.step = "asked" /\ new.kind = "recheck" => new.audit = beats[job.beat].audit
             /\ IsPrefix(beats[job.beat].kept, text)
             /\ beats[job.beat].asked /\ text = Blank => Drafts(new) \/ job.beat \in NotedBeats
             /\ job.kind = "continue" =>
                  text # Blank /\ new.base # Blank /\ IsPrefix(beats[job.beat].kept, new.base)
             /\ new.step = "restore" => ~new.token
    PROVE  Goes(job) /\ Moving(job)
  <1>1. Goes(job)
    BY DEF Goes, Elsewhere, Fit, Types
  <1>2. Known(job) => Held(job.beat, new)'
    BY TextMoves DEF Elsewhere, Known
  <1> QED
    BY <1>1, <1>2 DEF Moving

\* What the writer of a beat knows of it while it asks for a stream or reads one.
LEMMA WriterKnows ==
    ASSUME NEW job, Fit(job), Known(job), job.kind \in Writers, job.step # "queued"
    PROVE  LET row == beats[job.beat]
           IN  /\ job.base \in Texts /\ row.text \in Texts
               /\ IsPrefix(row.kept, row.text) /\ IsPrefix(row.kept, job.base)
               /\ job.kind = "prose" => IsPrefix(row.kept, Note)
               /\ IsPrefix(row.kept, Written(job))
               /\ row.asked /\ row.text = Blank => Drafts(job) \/ job.beat \in NotedBeats
               /\ job.kind = "continue" => row.text # Blank /\ job.base # Blank
               /\ job.step = "restore" => ~job.token /\ job.row
  <1>1. Held(job.beat, job) /\ job.beat \in DOMAIN beats /\ Live(job) /\ Note \in Texts
    BY NotesAndPieces DEF Known, Live
  <1>2. /\ beats[job.beat].text \in Texts /\ job.base \in Texts
        /\ job.kind = "prose" => \A t \in Texts : IsPrefix(beats[job.beat].kept, t)
        /\ IsPrefix(beats[job.beat].kept, beats[job.beat].text)
        /\ IsPrefix(beats[job.beat].kept, Written(job))
    BY <1>1, OfHeld
  <1> QED
    BY <1>1, <1>2 DEF Held, Writers, Fit, NotedBeats, Untold

LEMMA MovesOn ==
    ASSUME NEW job, Fit(job), job.kind \in Writers, Open(job) \/ Again(job) \/ Waited(job)
    PROVE  Goes(job) /\ Moving(job)
  <1>1. PICK s \in {"stream", "restore", "open"} :
           /\ jobs' = (jobs \ {job}) \cup {[job EXCEPT !.step = s]}
           /\ s = "restore" => ~job.token
           /\ s # "stream" => job.step \in {"again", "wait"}
    BY DEF Open, Again, Waited, Become
  <1> DEFINE new == [job EXCEPT !.step = s]
  <1>2. /\ Moved(new, job) /\ new.step = s /\ new.got = job.got /\ new.base = job.base
    <2>1. job \in Jobs /\ s \in Steps \ {"queued"}
      BY DEF Fit, Steps, LegacySteps
    <2> QED
      BY <2>1, StepTo
  <1> HIDE DEF new
  <1>3. Shape(new)
    BY <1>1, <1>2 DEF Shape, Fit, Moved, Same, LegacySteps, Writers, Untold
  <1>4. /\ UNCHANGED <<variablesOn, chapters, beats, changes, notes, issued, events, calm>>
        /\ job.step \notin Unsaved \cup Untold /\ job.step # "queued"
    BY DEF Open, Again, Waited, Unsaved, Untold
  <1>5. /\ RowsStay(job.beat) /\ ChaptersStay /\ calm' \in BOOLEAN
        /\ job.beat \in DOMAIN beats => TextIs(job.beat, beats[job.beat].text)
    BY <1>4, NothingWritten, ChaptersAre DEF Fit, Types
  <1>6. Known(job) =>
           /\ IsPrefix(beats[job.beat].kept, beats[job.beat].text)
           /\ beats[job.beat].asked /\ beats[job.beat].text = Blank =>
                Drafts(new) \/ job.beat \in NotedBeats
           /\ job.kind = "continue" =>
                /\ beats[job.beat].text # Blank /\ new.base # Blank
                /\ IsPrefix(beats[job.beat].kept, new.base)
           /\ new.step = "restore" => ~new.token
    <2> SUFFICES ASSUME Known(job) PROVE
           /\ IsPrefix(beats[job.beat].kept, beats[job.beat].text)
           /\ beats[job.beat].asked /\ beats[job.beat].text = Blank =>
                Drafts(new) \/ job.beat \in NotedBeats
           /\ job.kind = "continue" =>
                /\ beats[job.beat].text # Blank /\ new.base # Blank
                /\ IsPrefix(beats[job.beat].kept, new.base)
           /\ new.step = "restore" => ~new.token
      OBVIOUS
    <2>1. LET row == beats[job.beat]
          IN  /\ IsPrefix(row.kept, row.text) /\ IsPrefix(row.kept, job.base)
              /\ row.asked /\ row.text = Blank => Drafts(job) \/ job.beat \in NotedBeats
              /\ job.kind = "continue" => row.text # Blank /\ job.base # Blank
      BY <1>4, WriterKnows
    <2> QED
      BY <1>1, <1>2, <1>4, <2>1 DEF Drafts, Moved, Same, Untold
  <1> QED
    <2>1. jobs' = (jobs \ {job}) \cup {new} /\ new.step \notin Unsaved \cup {"plan", "asked"}
      BY <1>1, <1>2 DEF new, Unsaved
    <2> QED
      BY <1>2, <1>3, <1>4, <1>5, <1>6, <2>1, MovesWith DEF Elsewhere

LEMMA Restores ==
    ASSUME NEW job, Fit(job), job.kind \in Writers, Restore(job)
    PROVE  Goes(job) /\ Moving(job)
  <1> DEFINE new == [job EXCEPT !.step = "wait"]
  <1>1. /\ Moved(new, job) /\ new.step = "wait" /\ new.got = job.got /\ new.base = job.base
    <2>1. job \in Jobs /\ "wait" \in Steps \ {"queued"}
      BY DEF Fit, Steps, LegacySteps
    <2> QED
      BY <2>1, StepTo
  <1>2. jobs' = (jobs \ {job}) \cup {new} /\ Write(job.beat, job.base) /\ job.step = "restore"
    BY DEF Restore, BaseOf, Become
  <1> HIDE DEF new
  <1>3. job.got = 0 /\ job.base \in Texts
    BY <1>2 DEF Fit, Shape, Jobs
  <1>4. Shape(new)
    BY <1>1, <1>3 DEF Shape, Fit, Moved, Same, LegacySteps, Untold
  <1>5. RowsStay(job.beat) /\ (job.beat \in DOMAIN beats => TextIs(job.beat, job.base))
    BY <1>2, <1>3, WriteOf DEF Fit
  <1>6. UNCHANGED <<variablesOn, chapters, changes, notes, issued, events, calm>>
    BY DEF Restore
  <1>7. ChaptersStay /\ calm' \in BOOLEAN
    BY <1>6, ChaptersAre DEF Fit, Types
  <1>8. Known(job) =>
           /\ IsPrefix(beats[job.beat].kept, job.base)
           /\ job.base = Blank => Drafts(new)
           /\ job.kind = "continue" => job.base # Blank
    <2>1. Known(job) =>
             /\ IsPrefix(beats[job.beat].kept, job.base) /\ job.row
             /\ job.kind = "continue" => job.base # Blank
      BY <1>2, WriterKnows
    <2> QED
      BY <1>1, <1>3, <2>1 DEF Drafts, Moved, Same, Untold, Writers
  <1> QED
    <2>1. job.step \notin Unsaved /\ new.step \notin Unsaved
      BY <1>1, <1>2 DEF Unsaved
    <2> QED
      BY <1>1, <1>2, <1>4, <1>5, <1>6, <1>7, <1>8, <2>1, MovesWith DEF Elsewhere

LEMMA WritesPiece ==
    ASSUME NEW job, Fit(job), job.kind \in Writers, Piece(job)
    PROVE  Goes(job) /\ Moving(job)
  <1> DEFINE new == [job EXCEPT !.got = @ + 1]
  <1>1. job \in Jobs /\ job.got \in Nat /\ job.step \in {"typed", "stream"}
    BY DEF Fit, Jobs, Piece
  <1>2. /\ Moved(new, job) /\ new.step = job.step /\ new.got = job.got + 1 /\ new.base = job.base
    BY <1>1, PieceOf DEF Live
  <1>3. /\ jobs' = (jobs \ {job}) \cup {new}
        /\ Write(job.beat, Written(new)) \/ (job.got > 0 /\ UNCHANGED beats)
    BY DEF Piece, Become
  <1> HIDE DEF new
  <1>4. Shape(new)
    BY <1>1, <1>2 DEF Shape, Fit, Moved, Same, LegacySteps, Untold
  <1>5. UNCHANGED <<variablesOn, chapters, changes, notes, issued, events, calm>>
    BY DEF Piece
  <1>6. ChaptersStay /\ calm' \in BOOLEAN
    BY <1>5, ChaptersAre DEF Fit, Types
  <1>7. job.step \notin Unsaved /\ new.step \notin Unsaved \cup {"plan", "asked", "restore"}
    BY <1>1, <1>2 DEF Unsaved
  <1>8. Known(job) =>
          /\ IsPrefix(beats[job.beat].kept, job.base) /\ beats[job.beat].kept \in Texts
          /\ IsPrefix(beats[job.beat].kept, beats[job.beat].text)
          /\ beats[job.beat].asked /\ beats[job.beat].text = Blank =>
                job.got = 0 \/ job.beat \in NotedBeats
          /\ job.kind = "continue" => beats[job.beat].text # Blank /\ job.base # Blank
    <2>1. Known(job) => beats[job.beat].kept \in Texts
      BY OfHeld DEF Known
    <2> QED
      BY <1>1, <2>1, WriterKnows DEF Drafts
  <1>9. CASE Write(job.beat, Written(new))
    <2>1. /\ Written(new) \in Texts /\ Written(new) # Blank
          /\ \A k \in Texts : IsPrefix(k, new.base) => IsPrefix(k, Written(new))
      <3>1. new \in Jobs /\ new.got > 0
        BY <1>1, <1>2 DEF Moved, Same
      <3> QED
        BY <3>1, WrittenIs
    <2>2. RowsStay(job.beat) /\ (job.beat \in DOMAIN beats => TextIs(job.beat, Written(new)))
      BY <1>9, <2>1, WriteOf DEF Fit
    <2> QED
      BY <1>2, <1>3, <1>4, <1>5, <1>6, <1>7, <1>8, <2>1, <2>2, MovesWith DEF Elsewhere
  <1>10. CASE job.got > 0 /\ UNCHANGED beats
    <2>1. RowsStay(job.beat) /\ (job.beat \in DOMAIN beats => TextIs(job.beat, beats[job.beat].text))
      BY <1>10, NothingWritten DEF Fit
    <2>2. job.got # 0
      BY <1>1, <1>10
    <2> QED
      BY <1>2, <1>3, <1>4, <1>5, <1>6, <1>7, <1>8, <2>1, <2>2, MovesWith DEF Elsewhere
  <1> QED
    BY <1>3, <1>9, <1>10

\* A job of a beat that ends without a word leaves what is there, if it is no draft.
LEMMA EndsSilently ==
    ASSUME NEW job, Fit(job), Ends(job), UNCHANGED <<Elsewhere, beats, calm>>, ChaptersStay,
           job.step \notin Unsaved, ~Drafts(job)
    PROVE  Goes(job) /\ Ending(job)
  <1>1. RowsStay(job.beat) /\ (job.beat \in DOMAIN beats => TextIs(job.beat, beats[job.beat].text))
    BY NothingWritten DEF Fit
  <1>2. Known(job) => /\ IsPrefix(beats[job.beat].kept, beats[job.beat].text)
                      /\ beats'[job.beat].asked =>
                           beats[job.beat].text # Blank \/ job.beat \in NotedBeats
    BY DEF Known, Held, NotedBeats
  <1> QED
    BY <1>1, <1>2, EndsWith

\* A draft that ends writes, a continuation that fails takes back what it wrote.
LEMMA EndsWriting ==
    ASSUME NEW job, Fit(job), NEW text, Write(job.beat, text), Ends(job),
           UNCHANGED <<Elsewhere, chapters, calm>>,
           job.step \notin Unsaved, job.step # "queued", job.kind \in Writers,
           \/ text = Note /\ job.kind = "prose"
           \/ text = job.base /\ job.kind = "continue"
           \/ text = beats[job.beat].text /\ ~Drafts(job)
           \/ text = Written(job) /\ job.got > 0
    PROVE  Goes(job) /\ Ending(job)
  <1>1. /\ Note \in Texts /\ Note # Blank /\ Written(job) \in Texts /\ job.base \in Texts
        /\ job.got > 0 => Written(job) # Blank
    <2>1. job \in Jobs
      BY DEF Fit
    <2> QED
      BY <2>1, NotesAndPieces, WrittenIs DEF Jobs
  <1>2. job.beat \in DOMAIN beats => beats[job.beat].text \in Texts
    BY DEF Fit, Types, Beats
  <1>3. RowsStay(job.beat) /\ (job.beat \in DOMAIN beats => TextIs(job.beat, text))
    BY <1>1, <1>2, WriteOf DEF Fit
  <1>4. ChaptersStay
    BY ChaptersAre DEF Fit
  <1>5. ASSUME Known(job)
        PROVE  /\ IsPrefix(beats[job.beat].kept, text)
               /\ beats[job.beat].asked => text # Blank \/ job.beat \in NotedBeats
    <2>1. LET row == beats[job.beat]
          IN  /\ IsPrefix(row.kept, row.text) /\ IsPrefix(row.kept, job.base)
              /\ IsPrefix(row.kept, Written(job)) /\ (job.kind = "prose" => IsPrefix(row.kept, Note))
              /\ row.asked /\ row.text = Blank => Drafts(job) \/ job.beat \in NotedBeats
              /\ job.kind = "continue" => row.text # Blank /\ job.base # Blank
      BY <1>5, WriterKnows
    <2> QED
      BY <1>1, <2>1
  <1> QED
    BY <1>3, <1>4, <1>5, EndsWith DEF Known, TextIs

\* A draft that fails has settled its row and has yet to write its note.
LEMMA DraftFails ==
    ASSUME NEW job, Fit(job), job.kind = "prose", job.got = 0, Fail(job),
           UNCHANGED beats \/ Write(job.beat, beats[job.beat].text),
           UNCHANGED <<Elsewhere, chapters, calm>>, job.step \notin Unsaved, job.step # "queued"
    PROVE  Goes(job) /\ Moving(job)
  <1> DEFINE new == [job EXCEPT !.row = FALSE, !.step = "note"]
  <1>1. job \in Jobs
    BY DEF Fit
  <1>2. /\ Moved(new, job) /\ new.step = "note" /\ new.got = job.got /\ new.kind = job.kind
        /\ ~new.row
    BY <1>1 DEF Jobs, Moved, Same, Live, Steps, Untold
  <1>3. jobs' = (jobs \ {job}) \cup {new}
    BY DEF Fail
  <1> HIDE DEF new
  <1>4. Shape(new) /\ Drafts(new)
    BY <1>2 DEF Shape, Fit, Moved, Same, LegacySteps, Untold, Drafts
  <1>5. job.beat \in DOMAIN beats => beats[job.beat].text \in Texts
    BY DEF Fit, Types, Beats
  <1>6. /\ RowsStay(job.beat) /\ ChaptersStay /\ calm' \in BOOLEAN
        /\ job.beat \in DOMAIN beats => TextIs(job.beat, beats[job.beat].text)
    BY <1>5, NothingWritten, WriteOf, ChaptersAre DEF Fit, Types
  <1>7. Known(job) => IsPrefix(beats[job.beat].kept, beats[job.beat].text)
    BY DEF Known, Held, NotedBeats
  <1>8. new.step \notin Unsaved \cup {"plan", "asked", "restore"}
    BY <1>2 DEF Unsaved
  <1> QED
    BY <1>2, <1>3, <1>4, <1>6, <1>7, <1>8, MovesWith

LEMMA NotesFailure ==
    ASSUME NEW job, Fit(job), job.kind \in Writers, NoteFailure(job)
    PROVE  Goes(job) /\ Ending(job)
  <1>1. /\ UNCHANGED <<Elsewhere, chapters, calm>> /\ job.step = "note" /\ job.kind = "prose"
        /\ Write(job.beat, Note) /\ Ends(job)
    BY DEF NoteFailure, Elsewhere, Fit, Shape, Untold
  <1>2. job.step \notin Unsaved
    BY <1>1 DEF Unsaved
  <1> QED
    BY <1>1, <1>2, EndsWriting

LEMMA Fails ==
    ASSUME NEW job, Fit(job), job.kind \in Writers, AttemptFails(job) \/ StreamFails(job)
    PROVE  Goes(job) /\ (Ending(job) \/ Moving(job))
  <1>1. /\ UNCHANGED <<variablesOn, chapters, changes, notes, issued, events, calm>>
        /\ job.step \in {"open", "stream"} /\ job.step \notin Unsaved /\ job.step # "queued"
        /\ job \in Jobs
    BY DEF AttemptFails, StreamFails, Unsaved, Fit
  <1>2. job.kind = "prose" \/ job.kind = "continue"
    BY DEF Writers
  <1>3. CASE AttemptFails(job) /\ job.attempt < MaxAttempts
    <2> DEFINE new == [job EXCEPT !.step = "again", !.attempt = @ + 1, !.got = 0]
    <2>1. /\ Moved(new, job) /\ new.step = "again" /\ new.got = 0 /\ new.base = job.base
      BY <1>1, <1>3, RetryOf
    <2>2. jobs' = (jobs \ {job}) \cup {new} /\ UNCHANGED beats
      BY <1>3 DEF AttemptFails, Retry, Become
    <2> HIDE DEF new
    <2>3. Shape(new)
      BY <2>1 DEF Shape, Fit, Moved, Same, LegacySteps, Untold
    <2>4. /\ RowsStay(job.beat) /\ ChaptersStay /\ calm' \in BOOLEAN
          /\ job.beat \in DOMAIN beats => TextIs(job.beat, beats[job.beat].text)
      BY <1>1, <2>2, NothingWritten, ChaptersAre DEF Fit, Types
    <2>5. Known(job) =>
            /\ IsPrefix(beats[job.beat].kept, beats[job.beat].text)
            /\ beats[job.beat].asked /\ beats[job.beat].text = Blank =>
                Drafts(new) \/ job.beat \in NotedBeats
            /\ job.kind = "continue" =>
                 /\ beats[job.beat].text # Blank /\ new.base # Blank
                 /\ IsPrefix(beats[job.beat].kept, new.base)
      <3>1. Known(job) =>
              LET row == beats[job.beat]
              IN  /\ IsPrefix(row.kept, row.text) /\ IsPrefix(row.kept, job.base)
                  /\ row.asked /\ row.text = Blank => Drafts(job) \/ job.beat \in NotedBeats
                  /\ job.kind = "continue" => row.text # Blank /\ job.base # Blank
        BY <1>1, WriterKnows
      <3>2. Drafts(job) => Drafts(new)
        BY <1>1, <2>1 DEF Drafts, Moved, Same, Untold
      <3> QED
        BY <2>1, <3>1, <3>2
    <2>6. new.step \notin Unsaved
      BY <2>1 DEF Unsaved
    <2> QED
      BY <1>1, <2>1, <2>2, <2>3, <2>4, <2>5, <2>6, MovesWith DEF Elsewhere
  <1>4. CASE AttemptFails(job) /\ ~(job.attempt < MaxAttempts)
    <2> DEFINE text == IF job.kind = "continue" THEN job.base ELSE beats[job.beat].text
    <2>1. Write(job.beat, text) /\ Fail(job) /\ job.got = 0
      BY <1>4 DEF AttemptFails, Retry, Fit, Shape
    <2>2. \/ text = job.base /\ job.kind = "continue" /\ Ends(job)
          \/ text = beats[job.beat].text /\ job.kind = "prose"
      BY <1>2, <2>1 DEF Fail
    <2> HIDE DEF text
    <2> QED
      BY <1>1, <2>1, <2>2, EndsWriting, DraftFails DEF Elsewhere
  <1>5. CASE StreamFails(job)
    <2> DEFINE text == IF job.kind = "continue" THEN job.base ELSE beats[job.beat].text
    <2>1. Write(job.beat, text) /\ Ends(job) /\ job.got > 0
      BY <1>5 DEF StreamFails
    <2>2. ~Drafts(job)
      BY <2>1 DEF Drafts
    <2>3. (text = job.base /\ job.kind = "continue") \/ (text = beats[job.beat].text /\ ~Drafts(job))
      BY <2>2
    <2> HIDE DEF text
    <2> QED
      BY <1>1, <2>1, <2>3, EndsWriting DEF Elsewhere
  <1> QED
    BY <1>3, <1>4, <1>5

LEMMA EndsStream ==
    ASSUME NEW job, Fit(job), job.kind \in Writers, EndLegacy(job)
    PROVE  Goes(job) /\ Moving(job)
  <1> DEFINE new == [job EXCEPT !.step = "invalidate"]
  <1>1. /\ Moved(new, job) /\ new.step = "invalidate" /\ new.got = job.got /\ new.base = job.base
    <2>1. job \in Jobs /\ "invalidate" \in Steps \ {"queued"}
      BY DEF Fit, Steps
    <2> QED
      BY <2>1, StepTo
  <1>2. /\ jobs' = (jobs \ {job}) \cup {new} /\ Write(job.beat, Written(job))
        /\ job.got > 0 /\ job.step = "stream"
    BY DEF EndLegacy, Become
  <1> HIDE DEF new
  <1>3. Shape(new)
    BY <1>1, <1>2 DEF Shape, Fit, Moved, Same, LegacySteps, Untold
  <1>4. UNCHANGED <<variablesOn, chapters, changes, notes, issued, events, calm>>
    BY DEF EndLegacy
  <1>5. Written(job) \in Texts /\ Written(job) # Blank
    <2>1. job \in Jobs
      BY DEF Fit
    <2> QED
      BY <1>2, <2>1, WrittenIs
  <1>6. /\ RowsStay(job.beat) /\ ChaptersStay /\ calm' \in BOOLEAN
        /\ job.beat \in DOMAIN beats => TextIs(job.beat, Written(job))
    BY <1>2, <1>4, <1>5, WriteOf, ChaptersAre DEF Fit, Types
  <1>7. Known(job) => /\ IsPrefix(beats[job.beat].kept, Written(job))
                      /\ IsPrefix(beats[job.beat].kept, new.base)
                      /\ job.kind = "continue" => new.base # Blank
    BY <1>1, <1>2, WriterKnows
  <1> QED
    <2>1. job.step \notin Unsaved /\ new.step \notin Unsaved \cup {"plan", "asked", "restore"}
      BY <1>1, <1>2 DEF Unsaved
    <2> QED
      BY <1>1, <1>2, <1>3, <1>4, <1>5, <1>6, <1>7, <2>1, MovesWith DEF Elsewhere

LEMMA EndsTyped ==
    ASSUME NEW job, Fit(job), job.kind \in Writers, EndTyped(job) \/ TypedFails(job)
    PROVE  Goes(job) /\ (Ending(job) \/ Moving(job))
  <1>1. /\ UNCHANGED <<variablesOn, chapters, changes, notes, issued, events, calm>>
        /\ job.step \in {"plan", "typed"} /\ job.step \notin Unsaved \cup Untold /\ job.step # "queued"
    BY DEF EndTyped, TypedFails, Unsaved, Untold
  <1>2. job.kind = "prose" /\ job.got \in Nat
    BY <1>1 DEF Fit, Shape, Jobs
  <1>3. CASE Fail(job) /\ UNCHANGED beats /\ job.got = 0
    BY <1>1, <1>2, <1>3, DraftFails DEF Elsewhere
  <1>4. CASE job.got # 0 /\ Write(job.beat, Written(job)) /\ Ends(job)
    BY <1>1, <1>2, <1>4, EndsWriting DEF Elsewhere
  <1>5. CASE ~job.row /\ UNCHANGED beats /\ Ends(job)
    BY <1>1, <1>5, EndsSilently, ChaptersAre DEF Drafts, Elsewhere, Fit
  <1>6. CASE Update(job.beat, [beats[job.beat] EXCEPT !.asked = FALSE]) /\ Ends(job)
    <2> DEFINE new == [beats[job.beat] EXCEPT !.asked = FALSE]
    <2>1. job.beat \in DOMAIN beats => beats[job.beat] \in Beats
      BY DEF Fit, Types
    <2>2. job.beat \in DOMAIN beats =>
            /\ new \in Beats /\ new.chapter = beats[job.beat].chapter
            /\ new.text = beats[job.beat].text /\ new.audit = beats[job.beat].audit
            /\ new.kept = beats[job.beat].kept /\ ~new.asked
      BY <2>1, RowRecords
    <2>3. Update(job.beat, new)
      BY <1>6
    <2> HIDE DEF new
    <2>4. /\ DOMAIN beats' = DOMAIN beats /\ beats' \in [DOMAIN beats -> Beats]
          /\ \A c \in DOMAIN beats : beats'[c] = IF c = job.beat THEN new ELSE beats[c]
      BY <2>2, <2>3, UpdateOf DEF Fit
    <2>5. /\ RowsStay(job.beat)
          /\ job.beat \in DOMAIN beats =>
               TextIs(job.beat, beats[job.beat].text) /\ ~beats'[job.beat].asked
      BY <2>2, <2>4 DEF RowsStay, TextIs
    <2>6. Known(job) => job.beat \in DOMAIN beats /\ IsPrefix(beats[job.beat].kept, beats[job.beat].text)
      BY DEF Known, Held, NotedBeats
    <2> QED
      BY <1>1, <1>6, <2>5, <2>6, EndsWith, ChaptersAre DEF Elsewhere, Fit
  <1>7. job.step = "plan" => job.got = 0
    BY DEF Fit, Shape
  <1> QED
    BY <1>3, <1>4, <1>5, <1>6, <1>7 DEF EndTyped, TypedFails, NotAsked

LEMMA EndsInvalidating ==
    ASSUME NEW job, Fit(job), Invalidate(job) \/ TokenSeen(job)
    PROVE  Goes(job) /\ Ending(job)
  <1>1. /\ Ends(job) /\ UNCHANGED <<Elsewhere, beats, calm>> /\ job.step \notin Unsaved
        /\ job.token \/ job.step = "invalidate"
    BY DEF Invalidate, TokenSeen, Elsewhere, Unsaved
  <1>2. ChaptersStay
    BY ChaptersAre DEF Invalidate, TokenSeen, Fit
  <1>3. ~Drafts(job)
    BY DEF Drafts, Fit, Shape, Invalidate, TokenSeen, Untold
  <1> QED
    BY <1>1, <1>2, <1>3, EndsSilently

LEMMA Starts ==
    ASSUME NEW job, Fit(job), Start(job)
    PROVE  Goes(job) /\ Moving(job)
  <1>1. /\ job.step = "queued" /\ job.kind \in Writers /\ job \in Jobs /\ job.got = 0 /\ job.row
        /\ job.beat \in DOMAIN beats /\ job.chapter \in ChapterIds /\ calm \in BOOLEAN
        /\ UNCHANGED <<variablesOn, chapters, beats, changes, notes, issued, events>>
    BY DEF Start, Fit, Shape, Writers, BeatKinds, Types
  <1>2. /\ beats[job.beat].text \in Texts /\ Blank \in Texts /\ PlaceOf(job.chapter) \in Nat
    <2>1. beats[job.beat] \in Beats
      BY <1>1 DEF Fit, Types
    <2> QED
      BY <1>1, <2>1, PlaceIs, NotesAndPieces DEF Beats, Fit
  <1>3. RowsStay(job.beat) /\ ChaptersStay /\ TextIs(job.beat, beats[job.beat].text)
    BY <1>1, NothingWritten, ChaptersAre DEF Fit
  <1>4. Known(job) =>
           /\ IsPrefix(beats[job.beat].kept, beats[job.beat].text)
           /\ beats[job.beat].asked /\ beats[job.beat].text = Blank =>
                Drafts(job) \/ job.beat \in NotedBeats
           /\ job.kind = "continue" => beats[job.beat].text # Blank
    BY DEF Known, Held, NotedBeats
  <1>5. CASE job.kind = "prose" /\ variablesOn
    <2> DEFINE new == [job EXCEPT !.step = "plan"]
    <2>1. Moved(new, job) /\ new.step = "plan" /\ new.got = job.got
      BY <1>1, StepTo DEF Steps
    <2>2. jobs' = (jobs \ {job}) \cup {new} /\ calm' = (calm /\ ~Leftovers(job))
      BY <1>5 DEF Start, Become
    <2> HIDE DEF new
    <2>3. Shape(new)
      BY <1>1, <1>5, <2>1 DEF Shape, Fit, Moved, Same, LegacySteps, Untold
    <2>4. Known(job) => beats[job.beat].audit = <<>>
      BY <2>2 DEF Known, Leftovers
    <2>5. Drafts(job) => Drafts(new)
      BY <1>1, <2>1 DEF Drafts, Moved, Same, Untold
    <2>6. /\ job.step \notin Unsaved /\ new.step \notin Unsaved \cup {"asked", "restore"}
          /\ calm' \in BOOLEAN /\ (calm' => calm)
      BY <1>1, <2>1, <2>2 DEF Unsaved
    <2> QED
      BY <1>1, <1>3, <1>4, <1>5, <2>1, <2>2, <2>3, <2>4, <2>5, <2>6, MovesWith DEF Elsewhere
  <1>6. CASE ~(job.kind = "prose" /\ variablesOn)
    <2> DEFINE base == IF job.kind = "continue" THEN beats[job.beat].text ELSE Blank
               new == [job EXCEPT !.step = "open", !.place = PlaceOf(job.chapter), !.base = base]
    <2>0. base \in Texts
      BY <1>2
    <2>1. Moved(new, job) /\ new.step = "open" /\ new.got = job.got /\ new.base = base
      <3> HIDE DEF base
      <3> QED
        BY <1>1, <1>2, <2>0, Opened
    <2>2. jobs' = (jobs \ {job}) \cup {new} /\ UNCHANGED calm
      BY <1>6 DEF Start, Become
    <2>3. job.kind = "continue" => base = beats[job.beat].text
      OBVIOUS
    <2> HIDE DEF new, base
    <2>4. Shape(new)
      BY <1>1, <2>1 DEF Shape, Fit, Moved, Same, LegacySteps, Untold
    <2>5. Drafts(job) => Drafts(new)
      BY <1>1, <2>1 DEF Drafts, Moved, Same, Untold
    <2>6. /\ job.step \notin Unsaved /\ new.step \notin Unsaved \cup {"plan", "asked", "restore"}
      BY <1>1, <2>1 DEF Unsaved
    <2> QED
      BY <1>1, <1>3, <1>4, <2>1, <2>2, <2>3, <2>4, <2>5, <2>6, MovesWith DEF Elsewhere
  <1> QED
    BY <1>5, <1>6

LEMMA ChangeOf ==
    ASSUME Types, NEW b \in Nat
    PROVE  NewChange(b) \in Nat \X Nat /\ NewChange(b)[1] = b
  <1>1. {c \in changes : c[1] = b} \subseteq changes /\ IsFiniteSet(changes)
    BY DEF Types
  <1>2. Cardinality({c \in changes : c[1] = b}) \in Nat
    BY <1>1, FS_Subset, FS_CardinalityType
  <1> QED
    BY <1>2 DEF NewChange

\* A job that applies changes tells them apart from what its beat tells.
LEMMA Applies ==
    ASSUME NEW job, Fit(job), NEW new, NEW applied \in SUBSET (Nat \X Nat), IsFiniteSet(applied),
           \A c \in applied : c[1] = job.beat, changes' = changes \cup applied,
           jobs' = (jobs \ {job}) \cup {new}, Moved(new, job), Shape(new),
           UNCHANGED <<variablesOn, chapters, beats, notes, issued, events, calm>>,
           job.step \notin Unsaved, new.step \in Unsaved, job.kind # "continue", ~Drafts(job) \/ Drafts(new),
           job.beat \in DOMAIN beats /\ Held(job.beat, job) =>
              ToSet(new.audit) = ToSet(beats[job.beat].audit) \cup applied
    PROVE  Goes(job) /\ Moving(job)
  <1>1. Goes(job)
    <2>1. RowsStay(job.beat) /\ ChaptersStay
      BY NothingWritten, ChaptersAre DEF Fit
    <2>2. IsFiniteSet(changes')
      BY FS_Union DEF Fit, Types
    <2> QED
      BY <2>1, <2>2 DEF Goes, Fit, Types
  <1>2. ASSUME Known(job) PROVE Held(job.beat, new)'
    <2>1. ChangesOf(job.beat)' = ChangesOf(job.beat) \cup applied
      BY DEF ChangesOf
    <2>2. ChangesOf(job.beat)' = ToSet(new.audit)
      BY <1>2, <2>1 DEF Known, Held, NotedBeats
    <2>3. /\ IsPrefix(beats[job.beat].kept, beats[job.beat].text)
          /\ beats[job.beat].asked /\ beats[job.beat].text = Blank =>
                Drafts(new) \/ job.beat \in NotedBeats
          /\ job.kind = "prose" \/ job.beat \in NotedBeats => beats[job.beat].kept = Blank
      BY <1>2 DEF Known, Held, NotedBeats
    <2> QED
      BY <2>2, <2>3 DEF Held, Moved, Same, Unsaved, NotedBeats
  <1> QED
    BY <1>1, <1>2 DEF Moving

LEMMA PlansChanges ==
    ASSUME NEW job, Fit(job), Plan(job)
    PROVE  Goes(job) /\ Moving(job)
  <1>1. PICK told \in {<<>>, <<NewChange(job.beat)>>} :
           /\ changes' = changes \cup ToSet(told)
           /\ Become(job, [job EXCEPT !.step = "save", !.audit = told])
    BY DEF Plan
  <1>2. /\ job.step = "plan" /\ job \in Jobs /\ job.kind = "prose" /\ job.beat \in Nat
    BY DEF Plan, Fit, Shape, Jobs
  <1>3. /\ told \in Audits /\ ToSet(told) \in SUBSET (Nat \X Nat) /\ IsFiniteSet(ToSet(told))
        /\ \A c \in ToSet(told) : c[1] = job.beat
    <2>1. NewChange(job.beat) \in Nat \X Nat /\ NewChange(job.beat)[1] = job.beat
      BY <1>2, ChangeOf DEF Fit
    <2>2. told \in Audits
      BY <2>1, AuditOf, NotesAndPieces DEF Blank
    <2>3. ToSet(told) = {} \/ ToSet(told) = {NewChange(job.beat)}
      BY <2>1, AuditOf
    <2>4. IsFiniteSet({}) /\ IsFiniteSet({NewChange(job.beat)})
      BY FS_EmptySet, FS_Singleton
    <2> QED
      BY <2>1, <2>2, <2>3, <2>4
  <1> DEFINE new == [job EXCEPT !.step = "save", !.audit = told]
  <1>4. /\ Moved(new, job) /\ new.step = "save" /\ new.got = job.got /\ new.audit = told
    BY <1>2, <1>3, ToldTo DEF Unsaved
  <1>5. jobs' = (jobs \ {job}) \cup {new}
    BY <1>1 DEF Become
  <1> HIDE DEF new
  <1>6. Shape(new)
    BY <1>2, <1>4 DEF Shape, Fit, Moved, Same, LegacySteps, Untold
  <1>7. /\ job.step \notin Unsaved /\ new.step \in Unsaved /\ job.kind # "continue"
        /\ ~Drafts(job) \/ Drafts(new)
    BY <1>2, <1>4 DEF Unsaved, Untold, Drafts, Moved, Same
  <1>8. Held(job.beat, job) => ToSet(new.audit) = ToSet(beats[job.beat].audit) \cup ToSet(told)
    BY <1>2, <1>4, AuditOf DEF Held, NotedBeats
  <1>9. UNCHANGED <<variablesOn, chapters, beats, notes, issued, events, calm>>
    BY DEF Plan
  <1> QED
    BY <1>1, <1>3, <1>4, <1>5, <1>6, <1>7, <1>8, <1>9, Applies

\* The audit of a job is saved: what it tells is what there is.
LEMMA Saves ==
    ASSUME NEW job, Fit(job), Update(job.beat, [beats[job.beat] EXCEPT !.audit = job.audit])
    PROVE  /\ RowsStay(job.beat)
           /\ job.beat \in DOMAIN beats =>
                /\ beats'[job.beat].audit = job.audit
                /\ beats'[job.beat].text = beats[job.beat].text
                /\ beats'[job.beat].kept = beats[job.beat].kept
                /\ beats'[job.beat].asked = beats[job.beat].asked
  <1> DEFINE new == [beats[job.beat] EXCEPT !.audit = job.audit]
  <1>1. job.beat \in DOMAIN beats => beats[job.beat] \in Beats /\ job.audit \in Audits
    BY DEF Fit, Types, Jobs
  <1>2. job.beat \in DOMAIN beats =>
          /\ new \in Beats /\ new.chapter = beats[job.beat].chapter /\ new.audit = job.audit
          /\ new.text = beats[job.beat].text /\ new.kept = beats[job.beat].kept
          /\ new.asked = beats[job.beat].asked
    BY <1>1, RowRecords
  <1>3. Update(job.beat, new)
    OBVIOUS
  <1> HIDE DEF new
  <1>4. /\ DOMAIN beats' = DOMAIN beats /\ beats' \in [DOMAIN beats -> Beats]
        /\ \A c \in DOMAIN beats : beats'[c] = IF c = job.beat THEN new ELSE beats[c]
    BY <1>2, <1>3, UpdateOf DEF Fit
  <1> QED
    BY <1>2, <1>4 DEF RowsStay

LEMMA SavesPlan ==
    ASSUME NEW job, Fit(job), SavePlan(job)
    PROVE  Goes(job) /\ Moving(job)
  <1>1. /\ job.step = "save" /\ job \in Jobs /\ job.kind = "prose"
        /\ UNCHANGED <<variablesOn, chapters, changes, notes, issued, events, calm>>
    BY DEF SavePlan, Fit, Shape
  <1> DEFINE new == [job EXCEPT !.step = "typed"]
  <1>2. /\ Moved(new, job) /\ new.step = "typed" /\ new.got = job.got
    BY <1>1, StepTo DEF Steps
  <1>3. /\ jobs' = (jobs \ {job}) \cup {new}
        /\ Update(job.beat, [beats[job.beat] EXCEPT !.audit = job.audit])
    BY DEF SavePlan, Become
  <1> HIDE DEF new
  <1>4. Shape(new)
    BY <1>1, <1>2 DEF Shape, Fit, Moved, Same, LegacySteps, Untold
  <1>5. /\ RowsStay(job.beat) /\ ChaptersStay
        /\ job.beat \in DOMAIN beats =>
             /\ beats'[job.beat].audit = job.audit
             /\ beats'[job.beat].text = beats[job.beat].text
             /\ beats'[job.beat].kept = beats[job.beat].kept
             /\ beats'[job.beat].asked = beats[job.beat].asked
    BY <1>1, <1>3, Saves, ChaptersAre DEF Fit
  <1>6. Known(job) => Held(job.beat, new)'
    BY <1>1, <1>2, <1>5 DEF Known, Held, ChangesOf, Moved, Same, Unsaved, Untold, Drafts, NotedBeats
  <1> QED
    BY <1>1, <1>2, <1>3, <1>4, <1>5, <1>6 DEF Goes, Moving, Fit, Types

-----------------------------------------------------------------------------
(* The other jobs *)

LEMMA Asks ==
    ASSUME NEW job, Fit(job), Ask(job)
    PROVE  Goes(job) /\ (Ending(job) \/ Moving(job))
  <1>1. /\ job.step = "queued" /\ job.kind \notin Writers /\ job \in Jobs /\ job.row
        /\ job.got = 0 /\ ~Drafts(job) /\ job.step \notin Unsaved
        /\ UNCHANGED <<variablesOn, chapters, beats, changes, notes, issued, events, calm>>
    BY DEF Ask, Fit, Shape, Drafts, Writers, Unsaved
  <1>2. ChaptersStay
    BY <1>1, ChaptersAre DEF Fit
  <1>3. CASE Refused(job)
    BY <1>1, <1>2, <1>3, EndsSilently DEF Ask, Elsewhere
  <1>4. CASE ~Refused(job)
    <2> DEFINE place == IF job.chapter = 0 THEN 0 ELSE PlaceOf(job.chapter)
               audit == IF job.kind = "recheck" THEN beats[job.beat].audit ELSE <<>>
               new == [job EXCEPT !.step = "asked", !.place = place, !.audit = audit]
    <2>1. place \in Nat
      BY <1>1, PlaceIs DEF Fit
    <2>2. audit \in Audits
      <3>1. job.kind = "recheck" => beats[job.beat] \in Beats
        BY <1>1 DEF Fit, Shape, BeatKinds, Types
      <3> QED
        BY <3>1, NotesAndPieces DEF Beats, Blank
    <2>3. jobs' = (jobs \ {job}) \cup {new}
      BY <1>4 DEF Ask, Become
    <2>4. job.kind = "recheck" => audit = beats[job.beat].audit
      OBVIOUS
    <2>5. Moved(new, job) /\ new.step = "asked" /\ new.got = job.got /\ new.audit = audit
      <3> HIDE DEF place, audit
      <3> QED
        BY <1>1, <2>1, <2>2, AskedOf
    <2> HIDE DEF new, audit, place
    <2>6. Shape(new)
      BY <1>1, <2>5 DEF Shape, Fit, Moved, Same, LegacySteps, Untold
    <2>7. RowsStay(job.beat) /\ (job.beat \in DOMAIN beats => TextIs(job.beat, beats[job.beat].text))
      BY <1>1, NothingWritten DEF Fit
    <2>8. Known(job) => /\ IsPrefix(beats[job.beat].kept, beats[job.beat].text)
                        /\ beats[job.beat].asked /\ beats[job.beat].text = Blank => job.beat \in NotedBeats
      BY <1>1 DEF Known, Held, NotedBeats
    <2>9. /\ new.step \notin Unsaved \cup {"plan", "restore"} /\ job.kind # "continue"
          /\ calm' \in BOOLEAN /\ (calm' => calm)
          /\ new.kind = "recheck" => new.audit = beats[job.beat].audit
      BY <1>1, <2>4, <2>5 DEF Unsaved, Writers, Moved, Same, Fit, Types
    <2> QED
      BY <1>1, <1>2, <2>3, <2>5, <2>6, <2>7, <2>8, <2>9, MovesWith DEF Elsewhere
  <1> QED
    BY <1>3, <1>4

LEMMA EndsUnanswered ==
    ASSUME NEW job, Fit(job), NoAnswer(job) \/ Summarize(job)
    PROVE  Goes(job) /\ Ending(job)
  <1>1. Ends(job) /\ UNCHANGED <<Elsewhere, beats, calm>> /\ job.step = "asked"
    BY DEF NoAnswer, Summarize, Elsewhere
  <1>2. ChaptersStay
    BY ChaptersAre DEF NoAnswer, Fit
  <1>3. job.step \notin Unsaved /\ ~Drafts(job)
    BY <1>1 DEF Drafts, Fit, Shape, Writers, Unsaved
  <1> QED
    BY <1>1, <1>2, <1>3, EndsSilently

LEMMA PlansBeat ==
    ASSUME NEW job, Fit(job), PlanBeat(job)
    PROVE  Goes(job) /\ Ending(job)
  <1> DEFINE new == [beats[job.beat] EXCEPT !.plan = TRUE]
  <1>1. job.beat \in DOMAIN beats => beats[job.beat] \in Beats
    BY DEF Fit, Types
  <1>2. job.beat \in DOMAIN beats =>
          /\ new \in Beats /\ new.chapter = beats[job.beat].chapter
          /\ new.text = beats[job.beat].text /\ new.audit = beats[job.beat].audit
          /\ new.kept = beats[job.beat].kept /\ new.asked = beats[job.beat].asked
    BY <1>1, RowRecords
  <1>3. /\ Update(job.beat, new) /\ Ends(job) /\ job.step = "asked"
        /\ UNCHANGED <<variablesOn, chapters, changes, notes, issued, events, calm>>
    BY DEF PlanBeat
  <1> HIDE DEF new
  <1>4. /\ DOMAIN beats' = DOMAIN beats /\ beats' \in [DOMAIN beats -> Beats]
        /\ \A c \in DOMAIN beats : beats'[c] = IF c = job.beat THEN new ELSE beats[c]
    BY <1>2, <1>3, UpdateOf DEF Fit
  <1>5. /\ RowsStay(job.beat)
        /\ job.beat \in DOMAIN beats => TextIs(job.beat, beats[job.beat].text)
    BY <1>2, <1>4 DEF RowsStay, TextIs
  <1>6. job.step \notin Unsaved /\ ~Drafts(job)
    BY <1>3 DEF Drafts, Fit, Shape, Writers, Unsaved
  <1>7. Known(job) => /\ IsPrefix(beats[job.beat].kept, beats[job.beat].text)
                      /\ beats'[job.beat].asked =>
                           beats[job.beat].text # Blank \/ job.beat \in NotedBeats
    BY <1>5, <1>6 DEF Known, Held, TextIs, NotedBeats
  <1> QED
    BY <1>3, <1>5, <1>6, <1>7, EndsWith, ChaptersAre DEF Elsewhere, Fit

LEMMA AlignsBeat ==
    ASSUME NEW job, Fit(job), Align(job)
    PROVE  Goes(job) /\ Moving(job)
  <1> DEFINE row == [WithText(job.beat, <<job.id>>) EXCEPT !.kept = Blank]
             new == [job EXCEPT !.step = "invalidate"]
  <1>1. /\ job \in Jobs /\ job.step = "asked" /\ job.kind = "align"
        /\ <<job.id>> \in Texts /\ <<job.id>> # Blank /\ Blank \in Texts
        /\ UNCHANGED <<variablesOn, chapters, changes, notes, issued, events, calm>>
    <2>1. job \in Jobs
      BY DEF Fit
    <2>2. job.id \in Int
      BY <2>1 DEF Jobs
    <2> QED
      BY <2>1, <2>2, NotesAndPieces DEF Align
  <1>2. job.beat \in DOMAIN beats =>
          /\ row \in Beats /\ row.chapter = beats[job.beat].chapter /\ row.text = <<job.id>>
          /\ row.audit = beats[job.beat].audit /\ row.kept = Blank
    <2> DEFINE mid == WithText(job.beat, <<job.id>>)
    <2>1. job.beat \in DOMAIN beats => beats[job.beat] \in Beats
      BY DEF Fit, Types
    <2>2. job.beat \in DOMAIN beats =>
            /\ mid \in Beats /\ mid.text = <<job.id>> /\ mid.chapter = beats[job.beat].chapter
            /\ mid.audit = beats[job.beat].audit
      BY <1>1, <2>1, RowRecords DEF WithText
    <2>3. mid \in Beats =>
            LET last == [mid EXCEPT !.kept = Blank]
            IN  /\ last \in Beats /\ last.kept = Blank /\ last.chapter = mid.chapter
                /\ last.text = mid.text /\ last.audit = mid.audit
      <3> HIDE DEF mid
      <3> QED
        BY <1>1, RowRecords
    <2>4. row = [mid EXCEPT !.kept = Blank]
      OBVIOUS
    <2> HIDE DEF mid, row
    <2> QED
      BY <2>2, <2>3, <2>4
  <1>3. Moved(new, job) /\ new.step = "invalidate" /\ new.got = job.got
    BY <1>1, StepTo DEF Steps
  <1>4. Update(job.beat, row) /\ jobs' = (jobs \ {job}) \cup {new}
    BY DEF Align, Become
  <1> HIDE DEF row, new
  <1>5. /\ DOMAIN beats' = DOMAIN beats /\ beats' \in [DOMAIN beats -> Beats]
        /\ \A c \in DOMAIN beats : beats'[c] = IF c = job.beat THEN row ELSE beats[c]
    BY <1>2, <1>4, UpdateOf DEF Fit
  <1>6. RowsStay(job.beat) /\ ChaptersStay
    BY <1>1, <1>2, <1>5, ChaptersAre DEF RowsStay, Fit
  <1>7. Shape(new)
    BY <1>1, <1>3 DEF Shape, Fit, Moved, Same, LegacySteps, Untold
  <1>8. IsPrefix(Blank, <<job.id>>)
    BY <1>1, PrefixOfItself
  <1>9. ASSUME Known(job) PROVE Held(job.beat, new)'
    <2>1. beats'[job.beat] = row
      BY <1>5, <1>9 DEF Known
    <2>2. ChangesOf(job.beat)' = ToSet(beats[job.beat].audit)
      BY <1>1, <1>9 DEF Known, Held, ChangesOf, Unsaved, NotedBeats
    <2>3. job.beat \in DOMAIN beats
      BY <1>9 DEF Known
    <2> QED
      BY <1>1, <1>2, <1>3, <1>8, <2>1, <2>2, <2>3 DEF Held, Moved, Same, Unsaved, NotedBeats
  <1> QED
    BY <1>1, <1>3, <1>4, <1>6, <1>7, <1>9 DEF Goes, Moving, Fit, Types

LEMMA RechecksState ==
    ASSUME NEW job, Fit(job), ApplyRecheck(job)
    PROVE  Goes(job) /\ Moving(job)
  <1> DEFINE change == NewChange(job.beat)
             audit == Append(job.audit, change)
             new == [job EXCEPT !.step = "merge", !.audit = audit]
  <1>1. /\ job \in Jobs /\ job.step = "asked" /\ job.kind = "recheck"
        /\ job.audit \in Audits /\ job.beat \in Nat
        /\ changes' = changes \cup {change} /\ jobs' = (jobs \ {job}) \cup {new}
        /\ UNCHANGED <<variablesOn, chapters, beats, notes, issued, events, calm>>
    BY DEF Fit, Jobs, ApplyRecheck, Become
  <1>2. change \in Nat \X Nat /\ change[1] = job.beat
    BY <1>1, ChangeOf DEF Fit
  <1> HIDE DEF change
  <1>3. audit \in Audits /\ ToSet(audit) = ToSet(job.audit) \cup {change}
    BY <1>1, <1>2, AuditOf
  <1> HIDE DEF audit
  <1>4. Moved(new, job) /\ new.step = "merge" /\ new.got = job.got /\ new.audit = audit
    BY <1>1, <1>3, ToldTo DEF Unsaved
  <1> HIDE DEF new
  <1>5. Shape(new)
    BY <1>1, <1>4 DEF Shape, Fit, Moved, Same, LegacySteps, Untold
  <1>6. job.step \notin Unsaved /\ new.step \in Unsaved /\ job.kind # "continue" /\ ~Drafts(job)
    BY <1>1, <1>4 DEF Unsaved, Drafts
  <1>7. Held(job.beat, job) => ToSet(new.audit) = ToSet(beats[job.beat].audit) \cup {change}
    BY <1>1, <1>3, <1>4 DEF Held, NotedBeats
  <1>8. {change} \in SUBSET (Nat \X Nat) /\ IsFiniteSet({change}) /\ \A c \in {change} : c[1] = job.beat
    BY <1>2, FS_Singleton
  <1> QED
    BY <1>1, <1>4, <1>5, <1>6, <1>7, <1>8, Applies

LEMMA MergesAudit ==
    ASSUME NEW job, Fit(job), MergeAudit(job)
    PROVE  Goes(job) /\ Ending(job)
  <1>1. /\ job.step = "merge" /\ job.kind = "recheck" /\ jobs' = jobs \ {job}
        /\ UNCHANGED <<variablesOn, chapters, changes, notes, issued, events, calm>>
    BY DEF MergeAudit, Fit, Shape, Ends
  <1>2. /\ RowsStay(job.beat) /\ ChaptersStay
        /\ job.beat \in DOMAIN beats =>
             /\ beats'[job.beat].audit = job.audit
             /\ beats'[job.beat].text = beats[job.beat].text
             /\ beats'[job.beat].kept = beats[job.beat].kept
             /\ beats'[job.beat].asked = beats[job.beat].asked
    BY <1>1, Saves, ChaptersAre DEF Fit, MergeAudit
  <1>3. Known(job) => Free(job.beat)'
    BY <1>1, <1>2 DEF Known, Held, Free, ChangesOf, Unsaved, Drafts, NotedBeats
  <1> QED
    BY <1>1, <1>2, <1>3 DEF Goes, Ending, Fit, Types

\* Every step of a job but the two that replace rows.
LEMMA StepsOfJobs ==
    ASSUME NEW job, Fit(job), JobStep(job)
    PROVE  \/ Goes(job) /\ (Ending(job) \/ (Moving(job) /\ job.step \notin Untold))
           \/ job.kind = "beats" /\ ReplaceBeats(job)
           \/ job.kind = "chapters" /\ ReplaceChapters(job)
  <1>0. CASE job.step \in Untold
    <2>1. job.kind = "prose" /\ job.kind \in Writers /\ job.step \in {"prepare", "note"}
      BY <1>0 DEF Fit, Shape, Writers, Untold
    <2>2. ~LegacyProse(job) /\ ~Attempt(job) /\ ~TokenSeen(job)
      BY <2>1 DEF LegacyProse, Attempt, TokenSeen, Start, Again, Restore, Waited, Open, Piece,
                  AttemptFails, StreamFails, EndLegacy, Invalidate
    <2>3. ~Plan(job) /\ ~SavePlan(job) /\ ~EndTyped(job) /\ ~TypedFails(job)
      BY <2>1 DEF Plan, SavePlan, EndTyped, TypedFails
    <2>4. NoteFailure(job)
      BY <2>1, <2>2, <2>3 DEF JobStep, TypedProse, Summarizes, Plans, Aligns, Rechecks,
                              ProposesBeats, ProposesChapters
    <2> QED
      BY <2>1, <2>4, NotesFailure
  <1>1. CASE job.kind \in Writers /\ job.step \notin Untold
    BY <1>1, MovesOn, Restores, WritesPiece, Fails, EndsStream, EndsTyped, NotesFailure,
       EndsInvalidating,
       Starts, PlansChanges, SavesPlan
    DEF JobStep, LegacyProse, TypedProse, Attempt, Summarizes, Plans, Aligns, Rechecks,
        ProposesBeats, ProposesChapters, Writers
  <1>2. CASE job.kind \notin Writers /\ job.step \notin Untold
    BY <1>2, Asks, EndsUnanswered, PlansBeat, AlignsBeat, EndsInvalidating, RechecksState, MergesAudit
    DEF JobStep, Summarizes, Plans, Aligns, Rechecks, ProposesBeats, ProposesChapters
  <1> QED
    BY <1>0, <1>1, <1>2

-----------------------------------------------------------------------------
(* What a step leaves of the invariant *)

LEMMA FitJobs ==
    ASSUME StoryInv, NEW job \in jobs
    PROVE  Fit(job)
  BY DEF StoryInv, Fit, Types, TypeOK, JobsOfBeats

\* Rows and jobs when a job takes a step, ends or loses its row.
LEMMA JobsStayInPlace ==
    ASSUME StoryInv, NEW job \in jobs, NEW new, Same(new, job), Shape(new),
           jobs' \subseteq (jobs \ {job}) \cup {new},
           new.row => job.row \/ new.beat \in DOMAIN beats,
           new.step = "queued" => new.row, new.token => ~new.row,
           ~new.row /\ new.beat \in DOMAIN beats => new.token \/ new.step \in Untold,
           notes' \subseteq (Nat \ {0}) \X {"look", "write"},
           NotedBeats' \subseteq NotedBeats \cup {job.beat},
           RowsStay(job.beat), ChaptersStay,
           changes' \subseteq Nat \X Nat, IsFiniteSet(changes'),
           \A c \in changes' \ changes : c[1] = job.beat,
           calm' \in BOOLEAN, calm' => calm, UNCHANGED <<variablesOn, issued>>, events' \in Nat
    PROVE  /\ Types' /\ TypeOK' /\ (\A j \in jobs' : Shape(j)) /\ Numbered' /\ JobsOfBeats'
           /\ calm' => Alone'
  <1>1. /\ \A j \in jobs' : j = new \/ (j \in jobs /\ j # job)
        /\ job \in Jobs /\ new \in Jobs /\ jobs \subseteq Jobs /\ jobs' \subseteq Jobs
    BY DEF StoryInv, Types, Same
  <1>2. /\ DOMAIN beats' = DOMAIN beats
        /\ \A c \in DOMAIN beats : beats'[c].chapter = beats[c].chapter
    BY DEF RowsStay
  <1>3. Types'
    BY <1>1, <1>2 DEF StoryInv, Types, RowsStay, ChaptersStay
  <1>4. TypeOK'
    <2>1. \A j \in jobs' :
            /\ j.attempt \in 1..MaxAttempts
            /\ j.step = "queued" => j.row
            /\ j.token => ~j.row
            /\ j.row /\ j.beat # 0 => j.beat \in DOMAIN beats
            /\ j.row /\ j.chapter # 0 => j.chapter \in ChapterIds
      <3>1. new.attempt \in 1..MaxAttempts
        BY <1>1 DEF Jobs
      <3>2. job.beat \in DOMAIN beats => job.chapter \in ChapterIds
        BY DEF StoryInv, JobsOfBeats
      <3> QED
        BY <1>1, <3>1, <3>2 DEF StoryInv, TypeOK, Same
    <2> QED
      BY <1>2, <2>1 DEF StoryInv, TypeOK, ChaptersStay
  <1>5. \A j \in jobs' : Shape(j)
    BY <1>1 DEF StoryInv
  <1>6. Numbered'
    <2>0. \A b : b \in NotedBeats' => b \in NotedBeats \/ b = job.beat
      OBVIOUS
    <2>1. \A b : Used(b)' => Used(b)
      BY <1>1, <1>2, <2>0 DEF Used, Same
    <2>2. \A j \in jobs' : NewId(j) = NewId(job) \/ j \in jobs
      BY <1>1 DEF NewId, Same
    <2>3. \A b : Used(b)' => b <= 2 + issued' /\ \A j \in jobs' : b # NewId(j)
      BY <2>1, <2>2 DEF StoryInv, Numbered
    <2>4. \A j \in jobs' : j.id \in 1..issued'
      BY <1>1 DEF StoryInv, Numbered, Same
    <2>5. \A i, j \in jobs' : i.id = j.id => i = j
      BY <1>1 DEF StoryInv, Numbered, Same
    <2>6. \A j : NewId(j)' = NewId(j)
      BY DEF NewId
    <2> QED
      BY <2>3, <2>4, <2>5, <2>6 DEF Numbered
  <1>7. JobsOfBeats'
    BY <1>1, <1>2 DEF StoryInv, JobsOfBeats, Same, ChaptersStay
  <1>8. calm' => Alone'
    BY <1>1 DEF StoryInv, Alone, Same
  <1> QED
    BY <1>3, <1>4, <1>5, <1>6, <1>7, <1>8

LEMMA BeatStays ==
    ASSUME NEW b, BeatInv(b), beats'[b] = beats[b], ChangesOf(b)' = ChangesOf(b),
           b \in NotedBeats' <=> b \in NotedBeats,
           \A k : k.beat = b => (k \in jobs' <=> k \in jobs)
    PROVE  BeatInv(b)'
  <1>1. Free(b) => Free(b)'
    BY DEF Free, NotedBeats
  <1>2. \A k : Held(b, k) => Held(b, k)'
    BY DEF Held, Live, Drafts, NotedBeats
  <1> QED
    BY <1>1, <1>2 DEF BeatInv

\* A job's step leaves the other beats as they are.
LEMMA JobsGoOn ==
    ASSUME StoryInv, NEW job \in jobs, Goes(job),
           Ending(job) \/ (Moving(job) /\ job.step \notin Untold)
    PROVE  StoryInv'
  <1>1. Fit(job)
    BY FitJobs
  <1>2. events' \in Nat /\ issued' = issued /\ variablesOn' = variablesOn
    BY DEF StoryInv, Types, Goes
  <1>3. ASSUME NEW b \in DOMAIN beats, calm', b # job.beat,
               \A k : k.beat = b => (k \in jobs' <=> k \in jobs)
        PROVE  BeatInv(b)'
    <2>1. BeatInv(b) /\ beats'[b] = beats[b] /\ notes' = notes
      BY <1>3 DEF StoryInv, Goes, RowsStay
    <2>2. ChangesOf(b)' = ChangesOf(b)
      BY <1>3 DEF ChangesOf, Goes
    <2> QED
      BY <1>3, <2>1, <2>2, BeatStays DEF NotedBeats
  <1>4. ASSUME calm', job.beat \in DOMAIN beats PROVE Known(job)
    BY <1>4 DEF StoryInv, BeatInv, Known, Goes
  <1>5. ASSUME calm', NEW k \in jobs, k.beat = job.beat, job.beat # 0 PROVE k = job
    BY <1>5 DEF StoryInv, Alone, Goes
  <1>6. DOMAIN beats' = DOMAIN beats /\ 0 \notin DOMAIN beats
    BY DEF Goes, RowsStay, StoryInv, Types
  <1>7. CASE Ending(job)
    <2>1. jobs' = jobs \ {job} /\ Same(job, job)
      BY <1>1, <1>7 DEF Ending, Same, Fit
    <2>2. /\ Types' /\ TypeOK' /\ (\A j \in jobs' : Shape(j)) /\ Numbered' /\ JobsOfBeats'
          /\ calm' => Alone'
      BY <1>1, <1>2, <2>1, JobsStayInPlace DEF Goes, Fit, NotedBeats, Types, StoryInv
    <2>3. ASSUME NEW b \in DOMAIN beats', calm' PROVE BeatInv(b)'
      <3>1. CASE b # job.beat
        BY <1>3, <1>6, <2>1, <2>3, <3>1
      <3>2. CASE b = job.beat
        <4>1. Free(b)'
          BY <1>4, <1>6, <1>7, <2>3, <3>2 DEF Ending
        <4>2. \A k \in jobs' : k.beat # b
          BY <1>5, <1>6, <2>1, <2>3, <3>2
        <4> QED
          BY <4>1, <4>2 DEF BeatInv
      <3> QED
        BY <3>1, <3>2
    <2>4. (\A j \in jobs' : Shape(j)) <=> (\A j \in jobs : Shape(j))'
      BY DEF Shape
    <2> QED
      BY <2>2, <2>3, <2>4 DEF StoryInv
  <1>8. CASE Moving(job) /\ job.step \notin Untold
    <2>1. PICK new : /\ Moved(new, job) /\ Shape(new)
                     /\ jobs' = (jobs \ {job}) \cup {new}
                     /\ Known(job) => Held(job.beat, new)'
      BY <1>8 DEF Moving
    <2>2. /\ Same(new, job) /\ new.token = job.token /\ new.step # "queued"
          /\ new.row => job.row
          /\ ~new.row => ~job.row \/ new.step \in Untold
          /\ new.beat = job.beat
      BY <2>1 DEF Moved, Live, Same, Untold
    <2>3. /\ Types' /\ TypeOK' /\ (\A j \in jobs' : Shape(j)) /\ Numbered' /\ JobsOfBeats'
          /\ calm' => Alone'
      <3>1. /\ new.token => ~new.row
            /\ ~new.row /\ new.beat \in DOMAIN beats => new.token \/ new.step \in Untold
        BY <1>1, <1>8, <2>2 DEF Fit
      <3>2. /\ notes' \subseteq (Nat \ {0}) \X {"look", "write"}
            /\ NotedBeats' \subseteq NotedBeats \cup {job.beat}
        BY DEF Goes, StoryInv, Types, NotedBeats
      <3>3. jobs' \subseteq (jobs \ {job}) \cup {new}
        BY <2>1
      <3> QED
        BY <1>2, <2>1, <2>2, <3>1, <3>2, <3>3, JobsStayInPlace DEF Goes
    <2>4. ASSUME NEW b \in DOMAIN beats', calm' PROVE BeatInv(b)'
      <3>1. CASE b # job.beat
        BY <1>3, <1>6, <2>1, <2>2, <2>4, <3>1
      <3>2. CASE b = job.beat
        <4>1. Held(b, new)'
          BY <1>4, <1>6, <2>1, <2>4, <3>2
        <4>2. \A k \in jobs' : k.beat = b => k = new
          BY <1>5, <1>6, <2>1, <2>4, <3>2
        <4>3. new \in jobs'
          BY <2>1
        <4> QED
          BY <2>2, <3>2, <4>1, <4>2, <4>3 DEF BeatInv
      <3> QED
        BY <3>1, <3>2
    <2>5. (\A j \in jobs' : Shape(j)) <=> (\A j \in jobs : Shape(j))'
      BY DEF Shape
    <2> QED
      BY <2>3, <2>4, <2>5 DEF StoryInv
  <1> QED
    BY <1>7, <1>8

-----------------------------------------------------------------------------
(* Requests *)

LEMMA NewJobIs ==
    ASSUME NEW id \in Nat, NEW kind \in Kinds, NEW chapter \in Nat, NEW beat \in Nat,
           kind \in BeatKinds <=> beat # 0, chapter = 0 => beat = 0
    PROVE  LET new == NewJob(id, kind, chapter, beat)
           IN  /\ new \in Jobs /\ Shape(new) /\ new.id = id /\ new.kind = kind
               /\ new.chapter = chapter /\ new.beat = beat /\ new.row /\ ~new.token
               /\ new.step = "queued" /\ new.got = 0
  <1> DEFINE new == NewJob(id, kind, chapter, beat)
  <1>1. new = [id |-> id, kind |-> kind, chapter |-> chapter, beat |-> beat, row |-> TRUE,
               token |-> FALSE, step |-> "queued", place |-> 0, base |-> Blank, got |-> 0,
               attempt |-> 1, audit |-> <<>>]
    BY DEF NewJob
  <1>2. 1 \in 1..MaxAttempts /\ Blank \in Texts /\ <<>> \in Audits
    BY BoundsAssumption, NotesAndPieces DEF Blank
  <1>3. /\ new.id = id /\ new.kind = kind /\ new.chapter = chapter /\ new.beat = beat
        /\ new.row /\ ~new.token /\ new.step = "queued" /\ new.got = 0
    BY <1>1
  <1>4. new \in Jobs
    BY <1>1, <1>2 DEF Jobs, Steps
  <1> HIDE DEF new
  <1>5. Shape(new)
    BY <1>3 DEF Shape, LegacySteps, Untold
  <1> QED
    BY <1>3, <1>4, <1>5 DEF new

\* A request that writes the row of one beat, which has no job or a queued one.
LEMMA RowChanges ==
    ASSUME StoryInv, NEW b, RowsStay(b), ChaptersStay,
           changes' \subseteq changes, calm' => \A c \in changes \ changes' : c[1] = b,
           variablesOn' \in BOOLEAN, UNCHANGED <<jobs, issued>>, calm' \in BOOLEAN, calm' => calm,
           notes' \subseteq (Nat \ {0}) \X {"look", "write"},
           \A c : c \in NotedBeats' => c \in NotedBeats,
           \A c : c \in NotedBeats /\ c # b => c \in NotedBeats',
           events' \in Nat, calm' /\ b \in DOMAIN beats => BeatInv(b)'
    PROVE  StoryInv'
  <1>1. IsFiniteSet(changes')
    BY FS_Subset DEF StoryInv, Types
  <1>2. Types'
    BY <1>1 DEF StoryInv, Types, RowsStay, ChaptersStay
  <1>3. TypeOK'
    BY DEF StoryInv, TypeOK, RowsStay, ChaptersStay
  <1>4. Numbered' /\ JobsOfBeats' /\ (\A job \in jobs : Shape(job))'
    <2>1. \A c : Used(c)' => Used(c)
      BY DEF Used, RowsStay
    <2>2. \A j : NewId(j)' = NewId(j)
      BY DEF NewId
    <2>3. Numbered'
      BY <2>1, <2>2 DEF StoryInv, Numbered
    <2> QED
      BY <2>3 DEF StoryInv, JobsOfBeats, RowsStay, ChaptersStay, Shape
  <1>5. ASSUME calm', NEW c \in DOMAIN beats' PROVE BeatInv(c)'
    <2>1. CASE c # b
      <3>1. BeatInv(c) /\ beats'[c] = beats[c]
        BY <1>5, <2>1 DEF StoryInv, RowsStay
      <3>2. ChangesOf(c)' = ChangesOf(c)
        BY <1>5, <2>1 DEF ChangesOf
      <3> QED
        BY <2>1, <3>1, <3>2, BeatStays
    <2> QED
      BY <1>5, <2>1 DEF RowsStay
  <1>6. calm' => Alone'
    BY DEF StoryInv, Alone
  <1> QED
    BY <1>2, <1>3, <1>4, <1>5, <1>6 DEF StoryInv

\* A request that enqueues a job, or is about to, on a beat without one.
LEMMA JobJoins ==
    ASSUME StoryInv, NEW chapter \in ChapterIds \cup {0}, NEW beat \in DOMAIN beats \cup {0},
           NEW new \in Jobs, Shape(new), new.id = issued + 1, new.chapter = chapter,
           new.beat = beat, ~new.token, new.row \/ new.step \in Untold,
           new.step = "queued" => new.row, chapter = 0 => beat = 0,
           jobs' = jobs \cup {new}, issued' = issued + 1, UNCHANGED <<chapters, notes, events>>,
           calm' = (calm /\ (beat = 0 \/ NoneLiveOn(beat))), beat # 0 => ~ActiveOn(beat),
           RowsStay(beat), UNCHANGED variablesOn,
           changes' \subseteq changes, calm' => \A c \in changes \ changes' : c[1] = beat,
           calm' /\ beat # 0 /\ beat \notin NotedBeats /\ Free(beat) => Held(beat, new)'
    PROVE  StoryInv'
  <1>1. /\ issued \in Nat /\ 0 \notin DOMAIN beats /\ chapter \in Nat /\ beat \in Nat
        /\ DOMAIN beats' = DOMAIN beats /\ IsFiniteSet(changes') /\ jobs \subseteq Jobs
    <2>1. IsFiniteSet(changes')
      BY FS_Subset DEF StoryInv, Types
    <2>2. \A i \in DOMAIN chapters : chapters[i].id \in Nat
      <3>1. \A i \in DOMAIN chapters : chapters[i] \in Chapters
        BY DEF StoryInv, Types
      <3> QED
        BY <3>1 DEF Chapters
    <2> QED
      BY <2>1, <2>2 DEF StoryInv, Types, RowsStay, ChapterIds
  <1>2. /\ new \in Jobs /\ Shape(new) /\ new.id = issued + 1
        /\ new.chapter = chapter /\ new.beat = beat /\ ~new.token
        /\ new.row \/ new.step \in Untold
    OBVIOUS
  <1>3. /\ jobs' = jobs \cup {new} /\ issued' = issued + 1 /\ UNCHANGED <<chapters, notes, events>>
        /\ calm' = (calm /\ (beat = 0 \/ NoneLiveOn(beat)))
    OBVIOUS
  <1>6. Types'
    BY <1>1, <1>2, <1>3 DEF StoryInv, Types, RowsStay
  <1>7. TypeOK'
    <2>1. new.attempt \in 1..MaxAttempts
      BY <1>2 DEF Jobs
    <2> QED
      BY <1>1, <1>2, <1>3, <2>1 DEF StoryInv, TypeOK, RowsStay, ChapterIds
  <1>8. (\A job \in jobs : Shape(job))'
    BY <1>2, <1>3 DEF StoryInv, Shape
  <1>9. Numbered'
    <2>1. \A b : Used(b)' => Used(b) \/ b = beat
      BY <1>1, <1>2, <1>3 DEF Used, NotedBeats
    <2>2. \A b : Used(b)' => b <= 2 + issued /\ \A job \in jobs : b # NewId(job)
      <3>1. beat # 0 => Used(beat)
        BY DEF Used, NotedBeats
      <3>2. \A job \in jobs : NewId(job) # 0 /\ job.id \in 1..issued
        BY <1>1 DEF StoryInv, Numbered, NewId
      <3> QED
        BY <1>1, <2>1, <3>1, <3>2 DEF StoryInv, Numbered
    <2>3. \A b : Used(b)' => b <= 2 + issued' /\ \A job \in jobs' : b # NewId(job)
      <3>1. NewId(new) = 3 + issued
        BY <1>1, <1>2 DEF NewId
      <3>2. \A b : Used(b)' => b \in Nat
        BY <1>1, <2>1 DEF StoryInv, Types, Used, Jobs, NotedBeats
      <3> QED
        BY <1>1, <1>3, <2>2, <3>1, <3>2
    <2>4. \A job \in jobs' : job.id \in 1..issued'
      BY <1>1, <1>2, <1>3 DEF StoryInv, Numbered
    <2>5. \A i, j \in jobs' : i.id = j.id => i = j
      <3>1. \A i \in jobs : i.id # new.id
        BY <1>1, <1>2 DEF StoryInv, Numbered
      <3> QED
        BY <1>3, <3>1 DEF StoryInv, Numbered
    <2>6. \A j : NewId(j)' = NewId(j)
      BY DEF NewId
    <2> QED
      BY <2>3, <2>4, <2>5, <2>6 DEF Numbered
  <1>10. JobsOfBeats'
    <2>1. ChapterIds' = ChapterIds /\ (beat # 0 => chapter \in ChapterIds)
      BY <1>3 DEF ChapterIds
    <2> QED
      BY <1>1, <1>2, <1>3, <2>1 DEF StoryInv, JobsOfBeats
  <1>11. ASSUME calm', beat # 0
         PROVE  (\A job \in jobs : job.beat # beat) /\ beat \notin NotedBeats
    BY <1>3, <1>11 DEF StoryInv, TypeOK, ActiveOn, NoneLiveOn, Live
  <1>12. ASSUME calm' PROVE Alone'
    <2> SUFFICES ASSUME NEW i \in jobs', NEW j \in jobs', i.beat = j.beat, i.beat # 0
                 PROVE  i = j
      BY DEF Alone
    <2>1. (i \in jobs \/ i = new) /\ (j \in jobs \/ j = new) /\ calm
      BY <1>3, <1>12
    <2>2. i \in jobs /\ j \in jobs => i = j
      BY <2>1 DEF StoryInv, Alone
    <2>3. (i = new \/ j = new) => \A job \in jobs : job.beat # i.beat
      BY <1>2, <1>11, <1>12
    <2> QED
      BY <2>1, <2>2, <2>3
  <1>13. ASSUME calm', NEW b \in DOMAIN beats PROVE BeatInv(b)'
    <2>1. CASE b # beat
      <3>1. BeatInv(b) /\ beats'[b] = beats[b]
        BY <1>3, <1>13, <2>1 DEF StoryInv, RowsStay
      <3>2. ChangesOf(b)' = ChangesOf(b)
        BY <1>13, <2>1 DEF ChangesOf
      <3>3. \A k : k.beat = b => (k \in jobs' <=> k \in jobs)
        BY <1>2, <1>3, <2>1
      <3> QED
        BY <1>3, <3>1, <3>2, <3>3, BeatStays DEF NotedBeats
    <2>2. CASE b = beat
      <3>1. beat # 0
        BY <1>1, <2>2
      <3>2. Free(beat)
        BY <1>3, <1>11, <1>13, <2>2, <3>1 DEF StoryInv, BeatInv
      <3>3. Held(beat, new)'
        BY <1>11, <1>13, <3>1, <3>2
      <3>4. \A k \in jobs' : k.beat = beat => k = new
        BY <1>3, <1>11, <1>13, <3>1
      <3>5. new \in jobs' /\ new.beat = beat
        BY <1>2, <1>3
      <3> QED
        BY <2>2, <3>3, <3>4, <3>5 DEF BeatInv
    <2> QED
      BY <2>1, <2>2
  <1> QED
    BY <1>1, <1>6, <1>7, <1>8, <1>9, <1>10, <1>12, <1>13 DEF StoryInv

LEMMA JobComes ==
    ASSUME StoryInv, NEW kind \in Kinds, NEW chapter \in ChapterIds \cup {0},
           NEW beat \in DOMAIN beats \cup {0},
           NEW new, new = NewJob(issued + 1, kind, chapter, beat),
           kind \in BeatKinds <=> beat # 0, chapter = 0 => beat = 0,
           Enqueue(kind, chapter, beat), beat # 0 => ~ActiveOn(beat),
           RowsStay(beat), UNCHANGED variablesOn,
           changes' \subseteq changes, calm' => \A c \in changes \ changes' : c[1] = beat,
           calm' /\ beat # 0 /\ beat \notin NotedBeats /\ Free(beat) => Held(beat, new)'
    PROVE  StoryInv'
  <1>1. issued + 1 \in Nat /\ chapter \in Nat /\ beat \in Nat
    <2>1. \A i \in DOMAIN chapters : chapters[i].id \in Nat
      <3>1. \A i \in DOMAIN chapters : chapters[i] \in Chapters
        BY DEF StoryInv, Types
      <3> QED
        BY <3>1 DEF Chapters
    <2> QED
      BY <2>1 DEF StoryInv, Types, ChapterIds
  <1>2. /\ new \in Jobs /\ Shape(new) /\ new.id = issued + 1
        /\ new.chapter = chapter /\ new.beat = beat /\ new.row /\ ~new.token
    BY <1>1, NewJobIs
  <1>3. /\ jobs' = jobs \cup {new} /\ issued' = issued + 1 /\ UNCHANGED <<chapters, notes, events>>
        /\ calm' = (calm /\ (beat = 0 \/ NoneLiveOn(beat)))
    BY DEF Enqueue
  <1> QED
    BY <1>2, <1>3, JobJoins

LEMMA BeatOf ==
    ASSUME StoryInv, NEW b \in DOMAIN beats
    PROVE  /\ beats[b] \in Beats /\ beats[b].text \in Texts /\ beats[b].kept \in Texts
           /\ beats[b].chapter \in ChapterIds /\ beats[b].chapter # 0 /\ b \in Nat \ {0}
  <1>1. beats[b] \in Beats /\ b \in Nat \ {0} /\ beats[b].chapter \in ChapterIds
    BY DEF StoryInv, Types, TypeOK
  <1>2. \A i \in DOMAIN chapters : chapters[i] \in Chapters
    BY DEF StoryInv, Types
  <1>3. \A chapter \in ChapterIds : chapter # 0
    BY <1>2 DEF ChapterIds, Chapters
  <1> QED
    BY <1>1, <1>3 DEF Beats

LEMMA RowsWhenUnchanged ==
    ASSUME StoryInv, UNCHANGED beats
    PROVE  \A b : RowsStay(b)
  BY DEF StoryInv, Types, RowsStay

\* A job comes to a beat and changes nothing of it, or makes a continuation start.
LEMMA FreeIsHeld ==
    ASSUME NEW b, NEW new, Free(b), b \notin NotedBeats, new.step = "queued",
           UNCHANGED <<changes, notes>>,
           beats'[b].text = beats[b].text, beats'[b].audit = beats[b].audit,
           beats'[b].asked = beats[b].asked,
           beats'[b].kept = beats[b].kept \/ IsPrefix(beats'[b].kept, beats[b].text),
           new.kind = "continue" => beats[b].text # Blank, new.kind # "prose"
    PROVE  Held(b, new)'
  BY DEF Free, Held, ChangesOf, Live, Unsaved, NotedBeats

LEMMA OtherJobsCome ==
    ASSUME StoryInv,
           \/ ProposeChapters
           \/ \E chapter \in ChapterIds : SummarizeChapter(chapter) \/ ProposeBeats(chapter)
           \/ \E b \in DOMAIN beats : AlignProse(b) \/ RecheckState(b) \/ GenerateMechanical(b)
    PROVE  StoryInv'
  <1>1. CASE ProposeChapters
    <2>1. Enqueue("chapters", 0, 0) /\ UNCHANGED <<variablesOn, beats, changes>>
      BY <1>1 DEF ProposeChapters
    <2> QED
      BY <2>1, JobComes, RowsWhenUnchanged DEF Kinds, BeatKinds
  <1>2. ASSUME NEW chapter \in ChapterIds, SummarizeChapter(chapter) \/ ProposeBeats(chapter)
        PROVE  StoryInv'
    <2>1. PICK kind \in {"summarize", "beats"} :
             Enqueue(kind, chapter, 0) /\ UNCHANGED <<variablesOn, beats, changes>>
      BY <1>2 DEF SummarizeChapter, ProposeBeats
    <2>2. kind \in Kinds /\ kind \notin BeatKinds
      BY DEF Kinds, BeatKinds
    <2> QED
      BY <2>1, <2>2, JobComes, RowsWhenUnchanged
  <1>3. ASSUME NEW b \in DOMAIN beats, AlignProse(b) \/ RecheckState(b) \/ GenerateMechanical(b)
        PROVE  StoryInv'
    <2>1. PICK kind \in {"align", "recheck", "mechanical"} :
             Enqueue(kind, beats[b].chapter, b) /\ UNCHANGED <<variablesOn, beats, changes>>
      BY <1>3 DEF AlignProse, RecheckState, GenerateMechanical
    <2>2. kind \in Kinds /\ kind \in BeatKinds /\ kind # "prose" /\ kind # "continue"
      BY DEF Kinds, BeatKinds
    <2>3. ~ActiveOn(b) /\ b # 0 /\ beats[b].chapter \in ChapterIds /\ beats[b].chapter # 0
      BY <1>3, BeatOf DEF AlignProse, RecheckState, GenerateMechanical
    <2> DEFINE new == NewJob(issued + 1, kind, beats[b].chapter, b)
    <2>4. new.step = "queued" /\ new.kind = kind
      BY DEF NewJob
    <2>5. \A n : n = new /\ b \notin NotedBeats /\ Free(b) => Held(b, n)'
      BY <2>1, <2>2, <2>4, FreeIsHeld DEF Enqueue
    <2> HIDE DEF new
    <2> QED
      BY <2>1, <2>2, <2>3, <2>5, JobComes, RowsWhenUnchanged DEF new
  <1> QED
    BY <1>1, <1>2, <1>3

LEMMA ContinuationComes ==
    ASSUME StoryInv, NEW b \in DOMAIN beats, ContinueProse(b)
    PROVE  StoryInv'
  <1> DEFINE row == [beats[b] EXCEPT !.kept = beats[b].text]
             new == NewJob(issued + 1, "continue", beats[b].chapter, b)
  <1>1. /\ Enqueue("continue", beats[b].chapter, b) /\ UNCHANGED <<variablesOn, changes>>
        /\ Update(b, row) /\ ~ActiveOn(b) /\ beats[b].text # Blank
    BY DEF ContinueProse
  <1>2. /\ beats[b] \in Beats /\ beats[b].text \in Texts /\ b # 0
        /\ beats[b].chapter \in ChapterIds /\ beats[b].chapter # 0
    BY BeatOf
  <1>3. /\ row \in Beats /\ row.kept = beats[b].text /\ row.chapter = beats[b].chapter
        /\ row.text = beats[b].text /\ row.audit = beats[b].audit /\ row.asked = beats[b].asked
    BY <1>2, RowRecords
  <1> HIDE DEF row
  <1>4. /\ DOMAIN beats' = DOMAIN beats /\ beats' \in [DOMAIN beats -> Beats]
        /\ \A c \in DOMAIN beats : beats'[c] = IF c = b THEN row ELSE beats[c]
    BY <1>1, <1>3, UpdateOf DEF StoryInv
  <1>5. RowsStay(b) /\ beats'[b] = row
    BY <1>3, <1>4 DEF RowsStay
  <1>6. IsPrefix(beats[b].text, beats[b].text)
    BY <1>2, PrefixOfItself
  <1>7. new.step = "queued" /\ new.kind = "continue"
    BY DEF NewJob
  <1>8. \A n : n = new /\ b \notin NotedBeats /\ Free(b) => Held(b, n)'
    BY <1>1, <1>3, <1>5, <1>6, <1>7, FreeIsHeld DEF Enqueue
  <1>9. "continue" \in Kinds /\ "continue" \in BeatKinds
    BY DEF Kinds, BeatKinds
  <1> HIDE DEF new
  <1> QED
    BY <1>1, <1>2, <1>5, <1>8, <1>9, JobComes DEF new

LEMMA DraftComes ==
    ASSUME StoryInv, NEW b \in DOMAIN beats, GenerateProse(b)
    PROVE  StoryInv'
  <1> DEFINE mid == WithText(b, Blank)
             row == [mid EXCEPT !.audit = <<>>, !.kept = Blank, !.asked = TRUE]
             old == NewJob(issued + 1, "prose", beats[b].chapter, b)
             made == [old EXCEPT !.row = FALSE, !.step = "prepare"]
  <1>0. PICK new : new = made
    OBVIOUS
  <1>1. /\ jobs' = jobs \cup {new} /\ issued' = issued + 1
        /\ UNCHANGED <<variablesOn, chapters, notes, events>> /\ calm' = (calm /\ NoneLiveOn(b))
        /\ Update(b, row) /\ ~ActiveOn(b) /\ changes' = changes \ ToSet(beats[b].audit)
    BY <1>0 DEF GenerateProse, RevertedChanges
  <1>2. /\ beats[b] \in Beats /\ b # 0 /\ Blank \in Texts /\ <<>> \in Audits
        /\ beats[b].chapter \in ChapterIds /\ beats[b].chapter # 0 /\ b \in Nat
        /\ beats[b].chapter \in Nat /\ issued + 1 \in Nat
    <2>1. /\ beats[b] \in Beats /\ b # 0 /\ b \in Nat
          /\ beats[b].chapter \in ChapterIds /\ beats[b].chapter # 0
      BY BeatOf
    <2> QED
      BY <2>1, NotesAndPieces DEF Blank, Beats, StoryInv, Types
  <1>3. mid \in Beats /\ mid.text = Blank /\ mid.chapter = beats[b].chapter
    BY <1>2, RowRecords DEF WithText
  <1> HIDE DEF mid
  <1>4. /\ row \in Beats /\ row.kept = Blank /\ row.chapter = mid.chapter
        /\ row.text = mid.text /\ row.audit = <<>>
    BY <1>2, <1>3, RowRecords
  <1> HIDE DEF row
  <1>5. /\ DOMAIN beats' = DOMAIN beats /\ beats' \in [DOMAIN beats -> Beats]
        /\ \A c \in DOMAIN beats : beats'[c] = IF c = b THEN row ELSE beats[c]
    BY <1>1, <1>4, UpdateOf DEF StoryInv
  <1>6. RowsStay(b) /\ beats'[b] = row
    BY <1>3, <1>4, <1>5 DEF RowsStay
  <1>11. "prose" \in Kinds /\ "prose" \in BeatKinds
    BY DEF Kinds, BeatKinds
  <1>12. /\ old \in Jobs /\ Shape(old) /\ old.id = issued + 1 /\ old.kind = "prose"
         /\ old.chapter = beats[b].chapter /\ old.beat = b /\ ~old.token /\ old.got = 0
    BY <1>2, <1>11, NewJobIs
  <1> HIDE DEF old
  <1>7. /\ new \in Jobs /\ new.id = issued + 1 /\ new.kind = "prose" /\ ~new.row
        /\ new.chapter = beats[b].chapter /\ new.beat = b /\ ~new.token /\ new.got = 0
        /\ new.step = "prepare"
    BY <1>0, <1>12 DEF Jobs, Steps, Untold
  <1> HIDE DEF made
  <1>13. Shape(new) /\ new.step \in Untold
    BY <1>2, <1>7, <1>11 DEF Shape, LegacySteps, Untold
  <1>8. ASSUME Free(b) PROVE \A c \in changes \ changes' : c[1] = b
    BY <1>1, <1>8 DEF Free, ChangesOf, NotedBeats
  <1>9. ASSUME Free(b), b \notin NotedBeats PROVE Held(b, new)'
    <2>1. ChangesOf(b)' = {} /\ ToSet(<<>>) = {}
      BY <1>1, <1>9, AuditOf DEF Free, ChangesOf, NotedBeats
    <2>2. IsPrefix(Blank, Blank)
      BY <1>2, PrefixOfItself
    <2> QED
      BY <1>3, <1>4, <1>6, <1>7, <1>13, <2>1, <2>2 DEF Held, Drafts, Unsaved
  <1>10. calm' => Free(b)
    <2>1. calm' => calm /\ NoneLiveOn(b)
      BY <1>1
    <2>2. calm' => \A job \in jobs : job.beat # b
      BY <1>1, <2>1 DEF NoneLiveOn, ActiveOn, StoryInv, TypeOK, Live
    <2> QED
      BY <2>1, <2>2 DEF StoryInv, BeatInv
  <1> QED
    BY <1>1, <1>2, <1>6, <1>7, <1>8, <1>9, <1>10, <1>13, JobJoins

\* The request goes on: the job is queued, if the beat is still there.
LEMMA DraftQueued ==
    ASSUME StoryInv, NEW job \in jobs, EnqueueProse(job)
    PROVE  StoryInv'
  <1> DEFINE new == NewJob(job.id, "prose", job.chapter, job.beat)
  <1>1. /\ Fit(job) /\ job \in Jobs /\ job.step = "prepare" /\ job.kind = "prose" /\ job.got = 0
        /\ job.beat # 0 /\ job.chapter # 0 /\ job.chapter \in Nat /\ job.beat \in Nat /\ job.id \in Nat
    <2>1. Fit(job)
      BY FitJobs
    <2> QED
      BY <2>1 DEF EnqueueProse, Fit, Shape, Untold, BeatKinds, Jobs
  <1>2. /\ new \in Jobs /\ Shape(new) /\ Same(new, job) /\ new.row /\ ~new.token
        /\ new.step = "queued" /\ new.got = 0 /\ new.kind = "prose" /\ new.beat = job.beat
    <2>1. "prose" \in Kinds /\ "prose" \in BeatKinds
      BY DEF Kinds, BeatKinds
    <2>2. /\ new \in Jobs /\ Shape(new) /\ new.id = job.id /\ new.kind = "prose"
          /\ new.chapter = job.chapter /\ new.beat = job.beat /\ new.row /\ ~new.token
          /\ new.step = "queued" /\ new.got = 0
      BY <1>1, <2>1, NewJobIs
    <2> HIDE DEF new
    <2> QED
      BY <1>1, <2>2 DEF Same
  <1>3. /\ jobs' = (jobs \ {job}) \cup (IF job.beat \in DOMAIN beats THEN {new} ELSE {})
        /\ UNCHANGED <<variablesOn, chapters, beats, changes, notes, issued, events, calm>>
    BY DEF EnqueueProse
  <1> HIDE DEF new
  <1>4. /\ RowsStay(job.beat) /\ ChaptersStay /\ changes' \subseteq Nat \X Nat
        /\ IsFiniteSet(changes') /\ changes' \ changes = {} /\ calm' \in BOOLEAN /\ events' \in Nat
        /\ notes' \subseteq (Nat \ {0}) \X {"look", "write"} /\ NotedBeats' = NotedBeats
    <2>1. RowsStay(job.beat) /\ ChaptersStay
      BY <1>3, NothingWritten, ChaptersAre DEF StoryInv
    <2> QED
      BY <1>3, <2>1 DEF StoryInv, Types, NotedBeats
  <1>5. /\ Types' /\ TypeOK' /\ (\A j \in jobs' : Shape(j)) /\ Numbered' /\ JobsOfBeats'
        /\ calm' => Alone'
    <2>1. CASE job.beat \in DOMAIN beats
      BY <1>2, <1>3, <1>4, <2>1, JobsStayInPlace
    <2>2. CASE job.beat \notin DOMAIN beats
      <3>1. jobs' \subseteq (jobs \ {job}) \cup {job} /\ Same(job, job)
        BY <1>1, <1>3, <2>2 DEF Same
      <3> QED
        BY <1>1, <1>3, <1>4, <3>1, JobsStayInPlace DEF Fit
    <2> QED
      BY <2>1, <2>2
  <1>6. ASSUME calm', NEW b \in DOMAIN beats' PROVE BeatInv(b)'
    <2>0. /\ b \in DOMAIN beats /\ BeatInv(b) /\ Alone /\ ChangesOf(b)' = ChangesOf(b)
          /\ beats'[b] = beats[b] /\ (b \in NotedBeats' <=> b \in NotedBeats)
      BY <1>3, <1>4, <1>6 DEF StoryInv, ChangesOf
    <2>1. CASE b # job.beat
      <3>1. \A k : k.beat = b => (k \in jobs' <=> k \in jobs)
        BY <1>2, <1>3, <2>1
      <3> QED
        BY <2>0, <3>1, BeatStays
    <2>2. CASE b = job.beat
      <3>1. Held(b, job) /\ \A k \in jobs : k.beat = b => k = job
        BY <1>1, <2>0, <2>2 DEF BeatInv, Alone
      <3>2. /\ \A k \in jobs' : k.beat = b => k = new
            /\ new \in jobs'
        BY <1>3, <2>0, <2>2, <3>1
      <3>3. Held(b, new)'
        BY <1>1, <1>2, <2>0, <3>1 DEF Held, Drafts, Unsaved, Live
      <3> QED
        BY <1>2, <2>2, <3>2, <3>3 DEF BeatInv
    <2> QED
      BY <2>1, <2>2
  <1>7. (\A j \in jobs' : Shape(j)) <=> (\A j \in jobs : Shape(j))'
    BY DEF Shape
  <1> QED
    BY <1>5, <1>6, <1>7 DEF StoryInv

\* A cancel looks at the beat, and writes its note into a blank one.
LEMMA CancelGoesOn ==
    ASSUME StoryInv, NEW b \in NotedBeats, CancelLooks(b) \/ CancelNotes(b)
    PROVE  StoryInv'
  <1>0. /\ notes \subseteq (Nat \ {0}) \X {"look", "write"} /\ b \in Nat \ {0}
        /\ calm \in BOOLEAN /\ events \in Nat /\ variablesOn \in BOOLEAN
        /\ Note \in Texts /\ Note # Blank
    BY NotesAndPieces DEF StoryInv, Types, NotedBeats
  <1>1. CASE CancelLooks(b)
    <2> DEFINE blank == b \in DOMAIN beats /\ beats[b].text = Blank
    <2>1. /\ UNCHANGED <<variablesOn, chapters, beats, changes, jobs, issued, events, calm>>
          /\ notes' = (notes \ {<<b, "look">>}) \cup (IF blank THEN {<<b, "write">>} ELSE {})
      BY <1>1 DEF CancelLooks
    <2>2. /\ \A c : c \in NotedBeats' => c \in NotedBeats
          /\ \A c : c \in NotedBeats /\ c # b => c \in NotedBeats'
          /\ blank => b \in NotedBeats'
          /\ notes' \subseteq (Nat \ {0}) \X {"look", "write"}
      <3>1. blank \/ ~blank
        OBVIOUS
      <3>2. notes' = (notes \ {<<b, "look">>}) \cup (IF blank THEN {<<b, "write">>} ELSE {})
        BY <2>1
      <3> HIDE DEF blank
      <3>3. notes' \subseteq (Nat \ {0}) \X {"look", "write"}
        BY <1>0, <3>2
      <3>4. \A due \in notes' : due \in notes \/ due = <<b, "write">>
        BY <3>2
      <3>5. \A c : c \in NotedBeats' => c \in NotedBeats
        BY <3>4 DEF NotedBeats
      <3>6. \A due \in notes : due[1] # b => due \in notes'
        BY <3>2
      <3>7. \A c : c \in NotedBeats /\ c # b => c \in NotedBeats'
        BY <3>6 DEF NotedBeats
      <3>8. blank => <<b, "write">> \in notes'
        BY <3>2
      <3>9. blank => b \in NotedBeats'
        BY <3>8 DEF NotedBeats
      <3> QED
        BY <3>3, <3>5, <3>7, <3>9
    <2>3. RowsStay(b) /\ ChaptersStay
      BY <2>1, NothingWritten, ChaptersAre DEF StoryInv
    <2>4. ASSUME calm', b \in DOMAIN beats PROVE BeatInv(b)'
      <3>1. BeatInv(b) /\ ChangesOf(b)' = ChangesOf(b)
        BY <2>1, <2>4 DEF StoryInv, ChangesOf
      <3>2. Free(b) => Free(b)'
        BY <2>1, <2>2, <2>4 DEF Free, ChangesOf
      <3>3. \A k : Held(b, k) => Held(b, k)'
        BY <2>1, <2>2, <2>4 DEF Held, ChangesOf
      <3> QED
        BY <2>1, <3>1, <3>2, <3>3 DEF BeatInv
    <2> QED
      BY <1>0, <2>1, <2>2, <2>3, <2>4, RowChanges
  <1>2. CASE CancelNotes(b)
    <2>1. /\ UNCHANGED <<variablesOn, chapters, changes, jobs, issued, events, calm>>
          /\ notes' = notes \ {<<b, "write">>} /\ Write(b, Note)
      BY <1>2 DEF CancelNotes, CancelledText
    <2>2. /\ \A c : c \in NotedBeats' => c \in NotedBeats
          /\ \A c : c \in NotedBeats /\ c # b => c \in NotedBeats'
          /\ notes' \subseteq (Nat \ {0}) \X {"look", "write"}
      BY <1>0, <2>1 DEF NotedBeats
    <2>3. RowsStay(b) /\ ChaptersStay /\ (b \in DOMAIN beats => TextIs(b, Note))
      BY <1>0, <2>1, WriteOf, ChaptersAre DEF StoryInv
    <2>4. ASSUME calm', b \in DOMAIN beats PROVE BeatInv(b)'
      <3>1. BeatInv(b) /\ ChangesOf(b)' = ChangesOf(b) /\ IsPrefix(Blank, Note)
        BY <1>0, <2>1, <2>4, PrefixOfItself DEF StoryInv, ChangesOf
      <3>2. Free(b) => Free(b)'
        BY <1>0, <2>3, <2>4, <3>1 DEF Free, TextIs
      <3>3. \A k : Held(b, k) => Held(b, k)'
        BY <1>0, <2>3, <2>4, <3>1 DEF Held, TextIs
      <3> QED
        BY <2>1, <3>1, <3>2, <3>3 DEF BeatInv
    <2> QED
      BY <1>0, <2>1, <2>2, <2>3, <2>4, RowChanges
  <1> QED
    BY <1>1, <1>2

\* Of the row of b only that its generation is asked for is forgotten.
LEMMA Forgets ==
    ASSUME StoryInv, NEW b, Update(b, NotAsked(b)), UNCHANGED chapters
    PROVE  /\ RowsStay(b) /\ ChaptersStay
           /\ b \in DOMAIN beats => TextIs(b, beats[b].text) /\ ~beats'[b].asked
  <1> DEFINE new == NotAsked(b)
  <1>1. b \in DOMAIN beats =>
           /\ new \in Beats /\ new.chapter = beats[b].chapter /\ new.text = beats[b].text
           /\ new.audit = beats[b].audit /\ new.kept = beats[b].kept /\ ~new.asked
    <2>1. b \in DOMAIN beats => beats[b] \in Beats
      BY DEF StoryInv, Types
    <2> QED
      BY <2>1, RowRecords DEF NotAsked
  <1> HIDE DEF new
  <1>2. /\ DOMAIN beats' = DOMAIN beats /\ beats' \in [DOMAIN beats -> Beats]
        /\ \A c \in DOMAIN beats : beats'[c] = IF c = b THEN new ELSE beats[c]
    BY <1>1, UpdateOf DEF StoryInv, new
  <1>3. ChaptersStay
    BY ChaptersAre DEF StoryInv
  <1> QED
    BY <1>1, <1>2, <1>3 DEF RowsStay, TextIs

\* A cancel that is not finished: the beat stays as it is.
LEMMA CancelDropped ==
    ASSUME StoryInv, NEW due \in notes, DropCancel(due)
    PROVE  StoryInv'
  <1> DEFINE b == due[1]
  <1>1. /\ UNCHANGED <<variablesOn, chapters, changes, jobs, issued, calm>>
        /\ notes' = notes \ {due} /\ Update(b, NotAsked(b)) /\ events' \in Nat
    BY DEF DropCancel, Served, StoryInv, Types
  <1>2. /\ \A c : c \in NotedBeats' => c \in NotedBeats
        /\ \A c : c \in NotedBeats /\ c # b => c \in NotedBeats'
        /\ notes' \subseteq (Nat \ {0}) \X {"look", "write"}
    <2>1. notes' \subseteq notes /\ \A other \in notes : other[1] # b => other \in notes'
      BY <1>1
    <2> QED
      BY <2>1 DEF StoryInv, Types, NotedBeats
  <1> HIDE DEF b
  <1>3. /\ RowsStay(b) /\ ChaptersStay
        /\ b \in DOMAIN beats => TextIs(b, beats[b].text) /\ ~beats'[b].asked
    BY <1>1, Forgets
  <1>4. ASSUME calm', b \in DOMAIN beats PROVE BeatInv(b)'
    <2>1. BeatInv(b) /\ ChangesOf(b)' = ChangesOf(b)
      BY <1>1, <1>4 DEF StoryInv, ChangesOf
    <2>2. Free(b) => Free(b)'
      BY <1>2, <1>3, <1>4, <2>1 DEF Free, TextIs
    <2>3. \A k : Held(b, k) => Held(b, k)'
      BY <1>2, <1>3, <1>4, <2>1 DEF Held, TextIs, Live
    <2> QED
      BY <1>1, <2>1, <2>2, <2>3 DEF BeatInv
  <1> QED
    BY <1>1, <1>2, <1>3, <1>4, RowChanges DEF StoryInv, Types

\* A draft that is not queued: its beat is free again.
LEMMA DraftDropped ==
    ASSUME StoryInv, NEW job \in jobs, DropProse(job)
    PROVE  StoryInv'
  <1>1. Fit(job) /\ job \in Jobs /\ job.step = "prepare"
    BY FitJobs DEF DropProse, Fit
  <1>2. /\ jobs' = jobs \ {job} /\ Update(job.beat, NotAsked(job.beat)) /\ events' \in Nat
        /\ UNCHANGED <<variablesOn, chapters, changes, notes, issued, calm>>
    BY DEF DropProse, Ends, Served, StoryInv, Types
  <1>3. /\ RowsStay(job.beat) /\ ChaptersStay
        /\ job.beat \in DOMAIN beats => TextIs(job.beat, beats[job.beat].text) /\ ~beats'[job.beat].asked
    BY <1>2, Forgets
  <1>4. /\ changes' \subseteq Nat \X Nat /\ IsFiniteSet(changes') /\ changes' \ changes = {}
        /\ calm' \in BOOLEAN /\ notes' \subseteq (Nat \ {0}) \X {"look", "write"}
        /\ NotedBeats' = NotedBeats
    BY <1>2 DEF StoryInv, Types, NotedBeats
  <1>5. /\ Types' /\ TypeOK' /\ (\A j \in jobs' : Shape(j)) /\ Numbered' /\ JobsOfBeats'
        /\ calm' => Alone'
    <2>1. jobs' \subseteq (jobs \ {job}) \cup {job} /\ Same(job, job)
      BY <1>1, <1>2 DEF Same, Fit
    <2> QED
      BY <1>1, <1>2, <1>3, <1>4, <2>1, JobsStayInPlace DEF Fit
  <1>6. ASSUME calm', NEW b \in DOMAIN beats' PROVE BeatInv(b)'
    <2>0. /\ b \in DOMAIN beats /\ BeatInv(b) /\ Alone /\ ChangesOf(b)' = ChangesOf(b)
          /\ (b \in NotedBeats' <=> b \in NotedBeats) /\ 0 \notin DOMAIN beats
      BY <1>2, <1>3, <1>4, <1>6 DEF StoryInv, Types, ChangesOf, RowsStay
    <2>1. CASE b # job.beat
      <3>1. beats'[b] = beats[b] /\ \A k : k.beat = b => (k \in jobs' <=> k \in jobs)
        BY <1>2, <1>3, <2>0, <2>1 DEF RowsStay
      <3> QED
        BY <2>0, <3>1, BeatStays
    <2>2. CASE b = job.beat
      <3>1. Held(b, job) /\ \A k \in jobs : k.beat = b => k = job
        BY <2>0, <2>2 DEF BeatInv, Alone
      <3>2. \A k \in jobs' : k.beat # b
        BY <1>2, <3>1
      <3>3. Free(b)'
        BY <1>1, <1>3, <2>0, <2>2, <3>1 DEF Held, Free, Unsaved, TextIs
      <3> QED
        BY <3>2, <3>3 DEF BeatInv
    <2> QED
      BY <2>1, <2>2
  <1>7. (\A j \in jobs' : Shape(j)) <=> (\A j \in jobs : Shape(j))'
    BY DEF Shape
  <1> QED
    BY <1>5, <1>6, <1>7 DEF StoryInv

LEMMA RowsEdited ==
    ASSUME StoryInv, ToggleVariables \/ \E b \in DOMAIN beats : EditBeat(b) \/ GenerateProseRefused(b)
    PROVE  StoryInv'
  <1>0. Served => events' \in Nat
    BY DEF Served, StoryInv, Types
  <1>1. CASE ToggleVariables
    <2>1. /\ UNCHANGED <<chapters, beats, changes, jobs, notes, issued, calm>>
          /\ variablesOn' \in BOOLEAN /\ events' \in Nat
      BY <1>0, <1>1 DEF ToggleVariables, StoryInv, Types
    <2>2. Types' /\ TypeOK' /\ (\A job \in jobs : Shape(job))' /\ JobsOfBeats' /\ (calm' => Alone')
      BY <2>1 DEF StoryInv, Types, TypeOK, ChapterIds, Shape, JobsOfBeats, Alone
    <2>3. Numbered'
      BY <2>1 DEF StoryInv, Numbered, Used, NewId, NotedBeats
    <2>4. ASSUME calm', NEW b \in DOMAIN beats' PROVE BeatInv(b)'
      BY <2>1, <2>4, BeatStays DEF StoryInv, ChangesOf, NotedBeats
    <2> QED
      BY <2>2, <2>3, <2>4 DEF StoryInv
  <1>2. ASSUME NEW b \in DOMAIN beats, EditBeat(b) PROVE StoryInv'
    <2> DEFINE text == ByUser(events + 1)
               mid == WithText(b, text)
               kept == IF ToBeReplaced(b) THEN Blank ELSE text
               row == [mid EXCEPT !.kept = kept, !.asked = FALSE]
    <2>1. /\ Update(b, row) /\ UNCHANGED <<variablesOn, changes, jobs, notes, issued>>
          /\ calm' = (calm /\ NoneLiveOn(b)) /\ Served /\ InvalidateFrom(PlaceOf(beats[b].chapter))
      BY <1>2 DEF EditBeat
    <2>2. text \in Texts /\ text # Blank /\ Blank \in Texts
      BY NotesAndPieces DEF StoryInv, Types
    <2>3. beats[b] \in Beats
      BY BeatOf
    <2> HIDE DEF text
    <2>4. /\ mid \in Beats /\ mid.text = text /\ mid.chapter = beats[b].chapter
          /\ mid.audit = beats[b].audit
      <3>1. mid = [beats[b] EXCEPT !.text = text]
        BY DEF WithText
      <3> HIDE DEF mid
      <3> QED
        BY <2>2, <2>3, <3>1, RowRecords
    <2>5. kept \in Texts /\ IsPrefix(kept, text) /\ (ToBeReplaced(b) => kept = Blank)
      BY <2>2, PrefixOfItself
    <2> HIDE DEF mid, kept
    <2>6. /\ row \in Beats /\ row.kept = kept /\ row.chapter = beats[b].chapter
          /\ row.text = text /\ row.audit = beats[b].audit /\ ~row.asked
      BY <2>4, <2>5, RowRecords
    <2> HIDE DEF row
    <2>7. /\ DOMAIN beats' = DOMAIN beats /\ beats' \in [DOMAIN beats -> Beats]
          /\ \A c \in DOMAIN beats : beats'[c] = IF c = b THEN row ELSE beats[c]
      BY <2>1, <2>6, UpdateOf DEF StoryInv
    <2>8. RowsStay(b) /\ beats'[b] = row
      BY <2>6, <2>7 DEF RowsStay
    <2>9. ASSUME calm' PROVE BeatInv(b)'
      <3>1. /\ BeatInv(b) /\ ChangesOf(b)' = ChangesOf(b)
            /\ \A job \in jobs : job.beat = b => job.step = "queued"
            /\ b \notin NotedBeats /\ notes' = notes
        BY <2>1, <2>9 DEF StoryInv, ChangesOf, NoneLiveOn, Live
      <3>2. (\A job \in jobs : job.beat # b) => Free(b)'
        BY <2>5, <2>6, <2>8, <3>1 DEF BeatInv, Free, NotedBeats
      <3>3. ASSUME NEW job \in jobs, job.beat = b PROVE Held(b, job)'
        <4>1. Held(b, job) /\ job.step = "queued"
          BY <3>1, <3>3 DEF BeatInv
        <4>2. job.kind = "prose" => kept = Blank
          BY <2>5, <3>3 DEF ToBeReplaced
        <4> QED
          BY <2>2, <2>5, <2>6, <2>8, <3>1, <4>1, <4>2 DEF Held, Live, Unsaved, NotedBeats
      <3> QED
        BY <2>1, <3>2, <3>3 DEF BeatInv
    <2> QED
      BY <1>0, <2>1, <2>8, <2>9, RowChanges, ChaptersAre DEF StoryInv, Types, NotedBeats
  <1>3. ASSUME NEW b \in DOMAIN beats, GenerateProseRefused(b) PROVE StoryInv'
    <2> DEFINE row == [beats[b] EXCEPT !.audit = <<>>]
    <2>1. /\ Update(b, row) /\ UNCHANGED <<variablesOn, chapters, jobs, notes, issued>>
          /\ calm' = (calm /\ NoneLiveOn(b)) /\ Served /\ ~ActiveOn(b)
          /\ changes' = changes \ ToSet(beats[b].audit)
      BY <1>3 DEF GenerateProseRefused, RevertedChanges
    <2>2. beats[b] \in Beats /\ <<>> \in Audits
      BY BeatOf, NotesAndPieces DEF Blank
    <2>3. /\ row \in Beats /\ row.audit = <<>> /\ row.chapter = beats[b].chapter
          /\ row.text = beats[b].text /\ row.kept = beats[b].kept /\ row.asked = beats[b].asked
      BY <2>2, RowRecords
    <2> HIDE DEF row
    <2>4. /\ DOMAIN beats' = DOMAIN beats /\ beats' \in [DOMAIN beats -> Beats]
          /\ \A c \in DOMAIN beats : beats'[c] = IF c = b THEN row ELSE beats[c]
      BY <2>1, <2>3, UpdateOf DEF StoryInv
    <2>5. RowsStay(b) /\ beats'[b] = row
      BY <2>3, <2>4 DEF RowsStay
    <2>6. calm' => \A job \in jobs : job.beat # b
      BY <2>1 DEF NoneLiveOn, ActiveOn, StoryInv, TypeOK, Live
    <2>7. calm' => Free(b)
      BY <2>1, <2>6 DEF StoryInv, BeatInv
    <2>8. ASSUME calm' PROVE BeatInv(b)'
      <3>1. ChangesOf(b)' = {} /\ ToSet(<<>>) = {}
        BY <2>1, <2>7, <2>8, AuditOf DEF Free, ChangesOf, NotedBeats
      <3>2. Free(b)'
        BY <2>1, <2>3, <2>5, <2>7, <2>8, <3>1 DEF Free, NotedBeats
      <3> QED
        BY <2>1, <2>6, <2>8, <3>2 DEF BeatInv
    <2>9. calm' => \A c \in changes \ changes' : c[1] = b
      BY <2>1, <2>7 DEF Free, ChangesOf, NotedBeats
    <2> QED
      BY <1>0, <2>1, <2>5, <2>8, <2>9, RowChanges, ChaptersAre DEF StoryInv, Types, NotedBeats
  <1> QED
    BY <1>1, <1>2, <1>3

-----------------------------------------------------------------------------
(* Rows that go, and the server that stops *)

RowlessOf(job) == [job EXCEPT !.row = FALSE]

LEMMA RowlessIs ==
    ASSUME NEW job \in Jobs, Shape(job), Live(job)
    PROVE  /\ Same(RowlessOf(job), job) /\ Shape(RowlessOf(job)) /\ Live(RowlessOf(job))
           /\ ~RowlessOf(job).row /\ RowlessOf(job).step = job.step
  <1>1. /\ Same(RowlessOf(job), job) /\ Live(RowlessOf(job)) /\ ~RowlessOf(job).row
        /\ RowlessOf(job).step = job.step /\ RowlessOf(job).got = job.got
    BY DEF Jobs, RowlessOf, Same, Live
  <1> HIDE DEF RowlessOf
  <1>2. Shape(RowlessOf(job))
    BY <1>1 DEF Same, Shape
  <1> QED
    BY <1>1, <1>2

\* Beats and chapters are deleted with the rows of their jobs, and a job of a proposal
\* may put a blank beat of its own in their place.
LEMMA RowsGo ==
    ASSUME StoryInv, NEW ended \in SUBSET jobs, NEW dead \in SUBSET jobs, Cascade(ended, dead),
           ended \cap dead = {}, \A job \in ended : job.beat = 0,
           DOMAIN beats' \subseteq Nat \ {0}, beats' \in [DOMAIN beats' -> Beats],
           \A b \in DOMAIN beats' : \/ b \in DOMAIN beats /\ beats'[b] = beats[b]
                                    \/ /\ \E job \in ended : b = NewId(job)
                                       /\ beats'[b].text = Blank /\ beats'[b].kept = Blank
                                       /\ beats'[b].audit = <<>> /\ ~beats'[b].asked,
           chapters' \in Seq(Chapters), Cardinality(ChapterIds') = Len(chapters'),
           \A b \in DOMAIN beats' : beats'[b].chapter \in ChapterIds',
           \A job \in dead : job.beat \notin DOMAIN beats',
           \A job \in jobs \ (ended \cup dead) :
              /\ job.row /\ job.beat # 0 => job.beat \in DOMAIN beats'
              /\ job.row /\ job.chapter # 0 => job.chapter \in ChapterIds'
              /\ job.beat \in DOMAIN beats' => job.chapter \in ChapterIds',
           UNCHANGED <<variablesOn, changes, notes, issued, calm>>, events' \in Nat
    PROVE  StoryInv'
  <1>1. jobs' = (jobs \ (ended \cup dead)) \cup {RowlessOf(job) : job \in {j \in dead : Live(j)}}
    BY DEF Cascade, RowlessOf
  <1>2. \A job \in jobs : job \in Jobs /\ Shape(job)
    BY DEF StoryInv, Types
  <1>3. ASSUME NEW new \in jobs'
        PROVE  \E job \in jobs \ ended :
                 /\ Same(new, job) /\ Shape(new)
                 /\ \/ new = job /\ job \notin dead
                    \/ job \in dead /\ ~new.row /\ Live(new)
    <2>1. CASE new \in jobs \ (ended \cup dead)
      BY <1>2, <2>1 DEF Same
    <2>2. CASE new \notin jobs \ (ended \cup dead)
      <3>1. PICK job \in dead : Live(job) /\ new = RowlessOf(job)
        BY <1>1, <2>2
      <3>2. Same(new, job) /\ Shape(new) /\ Live(new) /\ ~new.row
        BY <1>2, <3>1, RowlessIs
      <3>3. job \in jobs \ ended
        OBVIOUS
      <3> QED
        BY <3>2, <3>3
    <2> QED
      BY <2>1, <2>2
  <1>4. /\ IsFiniteSet(changes) /\ issued' = issued /\ calm' = calm /\ changes' = changes
        /\ 0 \notin DOMAIN beats /\ 0 \notin DOMAIN beats'
    BY DEF StoryInv, Types
  <1>5. Types'
    BY <1>3, <1>4 DEF StoryInv, Types, Same
  <1>6. (\A job \in jobs : Shape(job))'
    BY <1>3 DEF Shape
  <1>7. TypeOK'
    <2>1. ASSUME NEW new \in jobs'
          PROVE  /\ new.attempt \in 1..MaxAttempts
                 /\ new.step = "queued" => new.row
                 /\ new.token => ~new.row
                 /\ new.row /\ new.beat # 0 => new.beat \in DOMAIN beats'
                 /\ new.row /\ new.chapter # 0 => new.chapter \in ChapterIds'
      <3>1. PICK job \in jobs \ ended :
               /\ Same(new, job) /\ Shape(new)
               /\ \/ new = job /\ job \notin dead
                  \/ job \in dead /\ ~new.row /\ Live(new)
        BY <1>3, <2>1
      <3>2. CASE new = job /\ job \notin dead
        BY <3>2 DEF StoryInv, TypeOK
      <3>3. CASE ~new.row /\ Live(new)
        BY <3>1, <3>3 DEF Same, Jobs, Live
      <3> QED
        BY <3>1, <3>2, <3>3
    <2> QED
      BY <2>1 DEF TypeOK
  <1>8. \A job \in ended : /\ NewId(job) <= 2 + issued
                           /\ \A other \in jobs \ ended : NewId(other) # NewId(job)
    <2>1. \A job \in jobs : job.id \in Nat /\ job.id \in 1..issued
      BY <1>2 DEF Jobs, StoryInv, Numbered
    <2>2. ASSUME NEW job \in ended, NEW other \in jobs \ ended PROVE other.id # job.id
      BY DEF StoryInv, Numbered
    <2>3. ASSUME NEW job \in ended, NEW other \in jobs \ ended PROVE NewId(other) # NewId(job)
      <3>1. other.id \in Nat /\ job.id \in Nat
        BY <2>1
      <3> QED
        BY <2>2, <3>1 DEF NewId
    <2>4. ASSUME NEW job \in ended PROVE NewId(job) <= 2 + issued
      <3>1. job.id \in 1..issued /\ issued \in Nat
        BY <2>1 DEF StoryInv, Types
      <3> QED
        BY <3>1 DEF NewId
    <2> QED
      BY <2>3, <2>4
  <1>9. Numbered'
    <2>1. \A b : Used(b)' => Used(b) \/ \E job \in ended : b = NewId(job)
      BY <1>3, <1>4 DEF Used, Same, NotedBeats
    <2>2. ASSUME NEW b, Used(b)' PROVE b <= 2 + issued /\ \A job \in jobs \ ended : b # NewId(job)
      BY <1>8, <2>1, <2>2 DEF StoryInv, Numbered
    <2>3. \A new \in jobs' : \E job \in jobs \ ended : new.id = job.id /\ NewId(new) = NewId(job)
      BY <1>3 DEF Same, NewId
    <2>4. \A new \in jobs' : new.id \in 1..issued
      BY <2>3 DEF StoryInv, Numbered
    <2>5. \A b : Used(b)' => b <= 2 + issued /\ \A new \in jobs' : b # NewId(new)
      BY <2>2, <2>3
    <2>6. ASSUME NEW i \in jobs', NEW j \in jobs', i.id = j.id PROVE i = j
      <3>1. /\ i \in jobs \ (ended \cup dead) \/ \E job \in dead : i = RowlessOf(job) /\ i.id = job.id
            /\ j \in jobs \ (ended \cup dead) \/ \E job \in dead : j = RowlessOf(job) /\ j.id = job.id
        BY <1>1, <1>2, RowlessIs DEF Same
      <3> QED
        BY <2>6, <3>1 DEF StoryInv, Numbered
    <2>7. \A j : NewId(j)' = NewId(j)
      BY DEF NewId
    <2> QED
      BY <1>4, <2>4, <2>5, <2>6, <2>7 DEF Numbered
  <1>10. JobsOfBeats'
    <2>1. ASSUME NEW new \in jobs', new.beat \in DOMAIN beats'
          PROVE  new.chapter \in ChapterIds' /\ (~new.row => new.token \/ new.step \in Untold)
      <3>1. PICK job \in jobs \ ended :
               /\ Same(new, job)
               /\ (new = job /\ job \notin dead) \/ job \in dead
        BY <1>3, <2>1
      <3>2. new = job /\ job \notin dead
        BY <2>1, <3>1 DEF Same
      <3>3. Used(new.beat)
        BY <3>2 DEF Used, NotedBeats
      <3>4. new.beat \in DOMAIN beats
        BY <2>1, <3>3 DEF StoryInv, Numbered
      <3> QED
        BY <2>1, <3>2, <3>4 DEF StoryInv, JobsOfBeats
    <2> QED
      BY <2>1 DEF JobsOfBeats
  <1>11. ASSUME NEW new \in jobs', new.beat \in DOMAIN beats' PROVE new \in jobs \ (ended \cup dead)
    BY <1>3, <1>11 DEF Same
  <1>12. ASSUME calm' PROVE Alone'
    <2>1. ASSUME NEW i \in jobs', NEW j \in jobs', i.beat = j.beat, i.beat # 0 PROVE i = j
      <3>1. /\ i \in jobs \ (ended \cup dead) \/ \E job \in dead : i = RowlessOf(job) /\ i.beat = job.beat
            /\ j \in jobs \ (ended \cup dead) \/ \E job \in dead : j = RowlessOf(job) /\ j.beat = job.beat
        BY <1>1, <1>2, RowlessIs DEF Same
      <3> QED
        BY <1>4, <1>12, <2>1, <3>1 DEF StoryInv, Alone
    <2> QED
      BY <2>1 DEF Alone
  <1>13. ASSUME calm', NEW b \in DOMAIN beats' PROVE BeatInv(b)'
    <2>1. \A k : k.beat = b => (k \in jobs' <=> k \in jobs)
      <3>1. \A k \in jobs : k.beat = b => k \notin ended /\ k \notin dead
        BY <1>4, <1>13
      <3> QED
        BY <1>1, <1>11, <1>13, <3>1
    <2>2. CASE b \in DOMAIN beats /\ beats'[b] = beats[b]
      <3>1. BeatInv(b) /\ ChangesOf(b)' = ChangesOf(b)
        BY <1>4, <1>13, <2>2 DEF StoryInv, ChangesOf
      <3> QED
        BY <2>1, <2>2, <3>1, BeatStays DEF NotedBeats
    <2>3. CASE /\ \E job \in ended : b = NewId(job)
               /\ beats'[b].text = Blank /\ beats'[b].kept = Blank
               /\ beats'[b].audit = <<>> /\ ~beats'[b].asked
      <3>1. ~Used(b)
        BY <2>3 DEF StoryInv, Numbered
      <3>2. ChangesOf(b)' = {} /\ \A k \in jobs' : k.beat # b
        BY <1>4, <2>1, <3>1 DEF Used, ChangesOf, NotedBeats
      <3>3. IsPrefix(Blank, Blank) /\ ToSet(<<>>) = {}
        BY PrefixOfItself, NotesAndPieces, AuditOf
      <3>4. Free(b)'
        BY <2>3, <3>2, <3>3 DEF Free, NotedBeats
      <3> QED
        BY <3>2, <3>4 DEF BeatInv
    <2> QED
      BY <1>13, <2>2, <2>3
  <1> QED
    BY <1>5, <1>6, <1>7, <1>9, <1>10, <1>12, <1>13 DEF StoryInv

LEMMA BeatDeleted ==
    ASSUME StoryInv, NEW b \in DOMAIN beats, DeleteBeat(b)
    PROVE  StoryInv'
  <1> DEFINE dead == {job \in jobs : job.beat = b}
  <1>1. /\ beats' = [c \in DOMAIN beats \ {b} |-> beats[c]] /\ Cascade({}, dead)
        /\ UNCHANGED <<variablesOn, chapters, changes, notes, issued, calm>> /\ events' \in Nat
    BY DEF DeleteBeat, Served, StoryInv, Types
  <1>2. DOMAIN beats' = DOMAIN beats \ {b} /\ \A c \in DOMAIN beats' : beats'[c] = beats[c]
    BY <1>1
  <1>3. beats' \in [DOMAIN beats' -> Beats] /\ DOMAIN beats' \subseteq Nat \ {0}
    BY <1>1, <1>2 DEF StoryInv, Types
  <1>4. /\ chapters' \in Seq(Chapters) /\ Cardinality(ChapterIds') = Len(chapters')
        /\ \A c \in DOMAIN beats' : beats'[c].chapter \in ChapterIds'
    BY <1>1, <1>2 DEF StoryInv, Types, TypeOK, ChapterIds
  <1>5. \A job \in jobs \ ({} \cup dead) :
           /\ job.row /\ job.beat # 0 => job.beat \in DOMAIN beats'
           /\ job.row /\ job.chapter # 0 => job.chapter \in ChapterIds'
           /\ job.beat \in DOMAIN beats' => job.chapter \in ChapterIds'
    BY <1>1, <1>2 DEF StoryInv, TypeOK, JobsOfBeats, ChapterIds
  <1>6. dead \in SUBSET jobs /\ \A job \in dead : job.beat \notin DOMAIN beats'
    BY <1>2
  <1> HIDE DEF dead
  <1> QED
    BY <1>1, <1>2, <1>3, <1>4, <1>5, <1>6, RowsGo

LEMMA BeatsReplaced ==
    ASSUME StoryInv, NEW job \in jobs, job.kind = "beats", ReplaceBeats(job)
    PROVE  StoryInv'
  <1> DEFINE gone == BeatsOf(job.chapter)
             dead == {j \in jobs \ {job} : j.beat \in gone}
             made == NewBeat(job.chapter)
  <1>1. /\ beats' = [b \in (DOMAIN beats \ gone) \cup {NewId(job)} |->
                       IF b = NewId(job) THEN made ELSE beats[b]]
        /\ Cascade({job}, dead) /\ job.chapter \in ChapterIds
        /\ UNCHANGED <<variablesOn, chapters, changes, notes, issued, events, calm>>
    BY DEF ReplaceBeats
  <1>2. /\ job \in Jobs /\ job.beat = 0 /\ events' \in Nat /\ NewId(job) \in Nat \ {0}
        /\ NewId(job) \notin DOMAIN beats /\ gone \subseteq DOMAIN beats
    <2>1. job \in Jobs /\ Shape(job)
      BY DEF StoryInv, Types
    <2>2. NewId(job) \in Nat \ {0}
      BY <2>1 DEF Jobs, NewId
    <2>3. NewId(job) \notin DOMAIN beats
      BY DEF StoryInv, Numbered, Used, NotedBeats
    <2> QED
      BY <1>1, <2>1, <2>2, <2>3 DEF Shape, BeatKinds, StoryInv, Types, BeatsOf
  <1>3. /\ made \in Beats /\ made.text = Blank /\ made.kept = Blank /\ made.audit = <<>>
        /\ ~made.asked /\ made.chapter = job.chapter
    BY <1>2, NotesAndPieces DEF NewBeat, Beats, Jobs, Blank
  <1> HIDE DEF made, gone
  <1>4. DOMAIN beats' = (DOMAIN beats \ gone) \cup {NewId(job)}
    BY <1>1
  <1>5. \A b \in DOMAIN beats' : \/ b \in DOMAIN beats \ gone /\ beats'[b] = beats[b]
                                 \/ b = NewId(job) /\ beats'[b] = made
    BY <1>1, <1>2
  <1>6. beats' \in [DOMAIN beats' -> Beats] /\ DOMAIN beats' \subseteq Nat \ {0}
    <2>1. \A b \in DOMAIN beats' : beats'[b] \in Beats
      BY <1>3, <1>5 DEF StoryInv, Types
    <2>2. beats' = [b \in DOMAIN beats' |-> beats'[b]]
      BY <1>1
    <2> QED
      BY <1>2, <1>4, <2>1, <2>2 DEF StoryInv, Types
  <1>7. /\ chapters' \in Seq(Chapters) /\ Cardinality(ChapterIds') = Len(chapters')
        /\ ChapterIds' = ChapterIds
        /\ \A b \in DOMAIN beats' : beats'[b].chapter \in ChapterIds'
    <2>1. ChapterIds' = ChapterIds /\ chapters' = chapters
      BY <1>1 DEF ChapterIds
    <2>2. \A b \in DOMAIN beats' : beats'[b].chapter \in ChapterIds
      BY <1>1, <1>3, <1>5 DEF StoryInv, TypeOK
    <2> QED
      BY <2>1, <2>2 DEF StoryInv, Types, TypeOK
  <1>8. ASSUME NEW j \in dead PROVE j.beat \notin DOMAIN beats'
    BY <1>2, <1>4
  <1>9. \A j \in jobs \ ({job} \cup dead) :
           /\ j.row /\ j.beat # 0 => j.beat \in DOMAIN beats'
           /\ j.row /\ j.chapter # 0 => j.chapter \in ChapterIds'
           /\ j.beat \in DOMAIN beats' => j.chapter \in ChapterIds'
    <2>1. \A j \in jobs : j.beat # NewId(job)
      BY DEF StoryInv, Numbered, Used
    <2> QED
      BY <1>4, <1>7, <2>1 DEF StoryInv, TypeOK, JobsOfBeats
  <1>10. {job} \in SUBSET jobs /\ dead \in SUBSET jobs /\ {job} \cap dead = {}
    OBVIOUS
  <1> HIDE DEF dead
  <1> QED
    BY <1>1, <1>2, <1>3, <1>5, <1>6, <1>7, <1>8, <1>9, <1>10, RowsGo

LEMMA ChaptersReplaced ==
    ASSUME StoryInv, NEW job \in jobs, job.kind = "chapters", ReplaceChapters(job)
    PROVE  StoryInv'
  <1> DEFINE dead == {j \in jobs \ {job} : j.chapter # 0}
             made == NewChapter(NewId(job))
  <1>1. /\ chapters' = <<made>> /\ DOMAIN beats' = {} /\ Cascade({job}, dead)
        /\ beats' = [b \in {} |-> beats[b]]
        /\ UNCHANGED <<variablesOn, changes, notes, issued, events, calm>>
    BY DEF ReplaceChapters
  <1>2. job \in Jobs /\ job.beat = 0 /\ events' \in Nat
    <2>1. job \in Jobs /\ Shape(job)
      BY DEF StoryInv, Types
    <2> QED
      BY <1>1, <2>1 DEF Shape, BeatKinds, StoryInv, Types
  <1>3. made \in Chapters
    BY <1>2 DEF NewChapter, Chapters, Jobs, NewId
  <1> HIDE DEF made
  <1>4. chapters' \in Seq(Chapters) /\ Cardinality(ChapterIds') = Len(chapters')
    <2>1. <<made>> \in Seq(Chapters) /\ DOMAIN <<made>> = {1} /\ <<made>>[1] = made /\ Len(<<made>>) = 1
      BY <1>3
    <2>2. ChapterIds' = {made.id}
      BY <1>1, <2>1 DEF ChapterIds
    <2>3. Cardinality({made.id}) = 1
      BY FS_Singleton
    <2> QED
      BY <1>1, <2>1, <2>2, <2>3
  <1>5. beats' \in [DOMAIN beats' -> Beats] /\ DOMAIN beats' \subseteq Nat \ {0}
    BY <1>1
  <1>6. \A j \in jobs \ ({job} \cup dead) : j.chapter = 0 /\ j.beat = 0
    BY DEF StoryInv, Shape
  <1>7. {job} \in SUBSET jobs /\ dead \in SUBSET jobs /\ {job} \cap dead = {}
    OBVIOUS
  <1> HIDE DEF dead
  <1> QED
    BY <1>1, <1>2, <1>4, <1>5, <1>6, <1>7, RowsGo

\* A cancelled job leaves a text in its beat, and its task, if it runs, is told.
LEMMA JobCancelled ==
    ASSUME StoryInv, NEW job \in jobs, Cancel(job)
    PROVE  StoryInv'
  <1> DEFINE new == [job EXCEPT !.row = FALSE, !.token = TRUE]
  <1>1. Fit(job) /\ job \in Jobs /\ job.row /\ 0 \notin DOMAIN beats /\ job.step \notin Untold
    BY FitJobs DEF Fit, Cancel, StoryInv, Types, Shape
  <1>2. /\ jobs' = (jobs \ {job}) \cup (IF Live(job) THEN {new} ELSE {})
        /\ calm' = (calm /\ job.step # "restore")
        /\ notes' = IF job.kind = "prose" THEN notes \cup {<<job.beat, "look">>} ELSE notes
        /\ UNCHANGED <<variablesOn, chapters, beats, changes, issued>> /\ Served
    BY DEF Cancel
  <1>3. /\ Same(new, job) /\ ~new.row /\ new.token /\ new.step = job.step /\ new.got = job.got
        /\ new.base = job.base /\ new.audit = job.audit
    BY <1>1 DEF Jobs, Same
  <1> HIDE DEF new
  <1>4. Shape(new)
    BY <1>1, <1>3 DEF Shape, Fit, Same
  <1>5. /\ notes' \subseteq (Nat \ {0}) \X {"look", "write"}
        /\ \A b : b \in NotedBeats' => b \in NotedBeats \/ (b = job.beat /\ job.kind = "prose")
        /\ \A b : b \in NotedBeats => b \in NotedBeats'
        /\ job.kind = "prose" => job.beat \in NotedBeats'
    <2>1. job.kind = "prose" => job.beat \in Nat \ {0}
      BY <1>1 DEF Fit, Shape, Jobs, BeatKinds
    <2>2. /\ \A due \in notes' : due \in notes \/ (due = <<job.beat, "look">> /\ job.kind = "prose")
          /\ \A due \in notes : due \in notes'
          /\ job.kind = "prose" => <<job.beat, "look">> \in notes'
      BY <1>2
    <2>3. notes' \subseteq (Nat \ {0}) \X {"look", "write"}
      BY <2>1, <2>2 DEF StoryInv, Types
    <2>4. \A b : b \in NotedBeats' => b \in NotedBeats \/ (b = job.beat /\ job.kind = "prose")
      BY <2>2 DEF NotedBeats
    <2>5. \A b : b \in NotedBeats => b \in NotedBeats'
      BY <2>2 DEF NotedBeats
    <2>6. job.kind = "prose" => job.beat \in NotedBeats'
      BY <2>2 DEF NotedBeats
    <2> QED
      BY <2>3, <2>4, <2>5, <2>6
  <1>6. RowsStay(job.beat)
    BY <1>2, RowsWhenUnchanged
  <1>7. ChaptersStay /\ calm' \in BOOLEAN /\ (calm' => calm) /\ events' \in Nat
    BY <1>1, <1>2, ChaptersAre DEF StoryInv, Types, Served
  <1>8. /\ Types' /\ TypeOK' /\ (\A j \in jobs' : Shape(j)) /\ Numbered' /\ JobsOfBeats'
        /\ calm' => Alone'
    <2>1. /\ jobs' \subseteq (jobs \ {job}) \cup {new}
          /\ changes' \subseteq Nat \X Nat /\ IsFiniteSet(changes') /\ changes' \ changes = {}
          /\ NotedBeats' \subseteq NotedBeats \cup {job.beat}
      BY <1>2, <1>5 DEF StoryInv, Types
    <2>2. CASE Live(job)
      BY <1>1, <1>2, <1>3, <1>4, <1>5, <1>6, <1>7, <2>1, <2>2, JobsStayInPlace DEF Live
    <2>3. CASE ~Live(job)
      <3>1. jobs' \subseteq (jobs \ {job}) \cup {job} /\ Same(job, job)
        BY <1>1, <1>2, <2>3 DEF Same
      <3> QED
        BY <1>1, <1>2, <1>5, <1>6, <1>7, <2>1, <3>1, JobsStayInPlace DEF Fit
    <2> QED
      BY <2>2, <2>3
  <1>9. ASSUME calm', NEW b \in DOMAIN beats' PROVE BeatInv(b)'
    <2>0. /\ b \in DOMAIN beats /\ b # 0 /\ BeatInv(b) /\ Alone /\ calm
          /\ ChangesOf(b)' = ChangesOf(b) /\ beats'[b] = beats[b]
      BY <1>1, <1>2, <1>7, <1>9 DEF StoryInv, ChangesOf
    <2>1. CASE b # job.beat
      <3>1. \A k : k.beat = b => (k \in jobs' <=> k \in jobs)
        BY <1>2, <1>3, <2>1 DEF Same
      <3>2. b \in NotedBeats' <=> b \in NotedBeats
        BY <1>5, <2>1
      <3> QED
        BY <2>0, <3>1, <3>2, BeatStays
    <2>2. CASE b = job.beat
      <3>1. Held(b, job) /\ \A k \in jobs : k.beat = b => k = job
        BY <2>0, <2>2 DEF BeatInv, Alone
      <3>2. /\ beats[b].asked /\ beats[b].text = Blank => b \in NotedBeats'
            /\ b \in NotedBeats' => beats[b].kept = Blank
        BY <1>5, <2>2, <3>1 DEF Held, Drafts
      <3>3. CASE ~Live(job)
        <4>1. \A k \in jobs' : k.beat # b
          BY <1>2, <3>1, <3>3
        <4>2. Free(b)'
          BY <2>0, <3>1, <3>2, <3>3 DEF Held, Free, Live, Unsaved
        <4> QED
          BY <4>1, <4>2 DEF BeatInv
      <3>4. CASE Live(job)
        <4>1. \A k \in jobs' : k.beat = b => k = new
          BY <1>2, <3>1, <3>4
        <4>2. job.step # "restore"
          BY <1>2, <1>9
        <4>3. Held(b, new)'
          BY <1>3, <2>0, <3>1, <3>2, <3>4, <4>2 DEF Held, Same, Live
        <4>4. new \in jobs' /\ new.beat = b
          BY <1>2, <1>3, <2>2, <3>4 DEF Same
        <4> QED
          BY <4>1, <4>3, <4>4 DEF BeatInv
      <3> QED
        BY <3>3, <3>4
    <2> QED
      BY <2>1, <2>2
  <1>10. (\A j \in jobs' : Shape(j)) <=> (\A j \in jobs : Shape(j))'
    BY DEF Shape
  <1> QED
    BY <1>8, <1>9, <1>10 DEF StoryInv

\* The jobs that the server finds when it starts again are queued, and no others are.
LEMMA ServerStops ==
    ASSUME StoryInv, Crash
    PROVE  StoryInv'
  <1> DEFINE again(job) == NewJob(job.id, job.kind, job.chapter, job.beat)
  <1>1. /\ jobs' = {again(job) : job \in {j \in jobs : j.row}}
        /\ calm' = (calm /\ \A job \in jobs : job.step \notin Unsaved)
        /\ UNCHANGED <<variablesOn, chapters, changes, issued>> /\ events' \in Nat
        /\ notes' = {}
        /\ beats' = [b \in DOMAIN beats |->
                        IF Interrupted(b) THEN [beats[b] EXCEPT !.asked = FALSE] ELSE beats[b]]
    BY DEF Crash, Served, StoryInv, Types, Unsaved, NotAsked
  <1>0. NotedBeats' = {}
    BY <1>1 DEF NotedBeats
  <1>a. /\ DOMAIN beats' = DOMAIN beats
        /\ \A b \in DOMAIN beats : /\ beats'[b] \in Beats
                                   /\ beats'[b].chapter = beats[b].chapter
                                   /\ beats'[b].text = beats[b].text
                                   /\ beats'[b].audit = beats[b].audit
                                   /\ beats'[b].kept = beats[b].kept
                                   /\ beats'[b].asked => beats[b].asked /\ ~Interrupted(b)
    <2>1. DOMAIN beats' = DOMAIN beats
      BY <1>1
    <2>2. ASSUME NEW b \in DOMAIN beats
          PROVE  /\ beats'[b] \in Beats
                 /\ beats'[b].chapter = beats[b].chapter
                 /\ beats'[b].text = beats[b].text
                 /\ beats'[b].audit = beats[b].audit
                 /\ beats'[b].kept = beats[b].kept
                 /\ beats'[b].asked => beats[b].asked /\ ~Interrupted(b)
      <3>1. beats[b] \in Beats
        BY DEF StoryInv, Types
      <3> DEFINE no == FALSE
                 unasked == [beats[b] EXCEPT !.asked = no]
      <3>2. beats'[b] = IF Interrupted(b) THEN unasked ELSE beats[b]
        BY <1>1
      <3>3. no \in BOOLEAN /\ ~no
        OBVIOUS
      <3> HIDE DEF no
      <3>4. /\ unasked \in Beats /\ unasked.chapter = beats[b].chapter
            /\ unasked.text = beats[b].text /\ unasked.audit = beats[b].audit
            /\ unasked.kept = beats[b].kept /\ unasked.asked = no
        BY <3>1, <3>3 DEF Beats
      <3> HIDE DEF unasked
      <3>5. CASE Interrupted(b)
        BY <3>2, <3>3, <3>4, <3>5
      <3>6. CASE ~Interrupted(b)
        BY <3>1, <3>2, <3>6
      <3> QED
        BY <3>5, <3>6
    <2> QED
      BY <2>1, <2>2
  <1>2. ASSUME NEW job \in jobs
        PROVE  /\ Same(again(job), job) /\ Shape(again(job)) /\ again(job).row
               /\ ~again(job).token /\ again(job).step = "queued" /\ again(job).got = 0
    <2>1. job \in Jobs /\ Shape(job)
      BY DEF StoryInv, Types
    <2>2. /\ job.id \in Nat /\ job.kind \in Kinds /\ job.chapter \in Nat /\ job.beat \in Nat
          /\ (job.kind \in BeatKinds <=> job.beat # 0) /\ (job.chapter = 0 => job.beat = 0)
      BY <2>1 DEF Jobs, Shape
    <2>3. /\ again(job) \in Jobs /\ Shape(again(job)) /\ again(job).id = job.id
          /\ again(job).kind = job.kind /\ again(job).chapter = job.chapter
          /\ again(job).beat = job.beat /\ again(job).row
          /\ ~again(job).token /\ again(job).step = "queued" /\ again(job).got = 0
      BY <2>2, NewJobIs
    <2> HIDE DEF again
    <2> QED
      BY <2>3 DEF Same
  <1> HIDE DEF again
  <1>3. ASSUME NEW new \in jobs'
        PROVE  \E job \in jobs : /\ job.row /\ new = again(job) /\ Same(new, job) /\ Shape(new)
                                 /\ new.row /\ ~new.token /\ new.step = "queued" /\ new.got = 0
    BY <1>1, <1>2
  <1>4. Types'
    <2>1. beats' \in [DOMAIN beats -> Beats]
      <3>1. beats' = [b \in DOMAIN beats |-> beats'[b]]
        BY <1>1
      <3> QED
        BY <1>a, <3>1
    <2>2. jobs' \subseteq Jobs
      BY <1>3 DEF Same
    <2> QED
      BY <1>1, <1>a, <2>1, <2>2 DEF StoryInv, Types
  <1>5. (\A job \in jobs : Shape(job))' /\ JobsOfBeats'
    <2>1. JobsOfBeats'
      <3>1. ChapterIds' = ChapterIds
        BY <1>1 DEF ChapterIds
      <3> QED
        BY <1>3, <1>a, <3>1 DEF StoryInv, JobsOfBeats, Same
    <2> QED
      BY <1>3, <2>1 DEF Shape
  <1>6. TypeOK'
    <2>1. ASSUME NEW new \in jobs'
          PROVE  /\ new.attempt \in 1..MaxAttempts
                 /\ new.step = "queued" => new.row
                 /\ new.token => ~new.row
                 /\ new.row /\ new.beat # 0 => new.beat \in DOMAIN beats
                 /\ new.row /\ new.chapter # 0 => new.chapter \in ChapterIds
      <3>1. PICK job \in jobs : job.row /\ Same(new, job) /\ new.row /\ ~new.token
        BY <1>3, <2>1
      <3> QED
        BY <3>1 DEF StoryInv, TypeOK, Same, Jobs
    <2>2. ChapterIds' = ChapterIds /\ chapters' = chapters
      BY <1>1 DEF ChapterIds
    <2> QED
      BY <1>a, <2>1, <2>2 DEF StoryInv, TypeOK
  <1>7. Numbered'
    <2>1. \A b : Used(b)' => Used(b)
      BY <1>0, <1>1, <1>3, <1>a DEF Used, Same
    <2>2. \A new \in jobs' : \E job \in jobs : new.id = job.id /\ NewId(new) = NewId(job)
      BY <1>3 DEF Same, NewId
    <2>3. ASSUME NEW i \in jobs', NEW j \in jobs', i.id = j.id PROVE i = j
      <3>1. PICK x \in jobs : i = again(x) /\ i.id = x.id
        BY <1>3 DEF Same
      <3>2. PICK y \in jobs : j = again(y) /\ j.id = y.id
        BY <1>3 DEF Same
      <3> QED
        BY <2>3, <3>1, <3>2 DEF StoryInv, Numbered
    <2>4. \A b : Used(b)' => b <= 2 + issued /\ \A new \in jobs' : b # NewId(new)
      BY <2>1, <2>2 DEF StoryInv, Numbered
    <2>5. \A new \in jobs' : new.id \in 1..issued
      BY <2>2 DEF StoryInv, Numbered
    <2>6. \A j : NewId(j)' = NewId(j)
      BY DEF NewId
    <2> QED
      BY <1>1, <2>3, <2>4, <2>5, <2>6 DEF Numbered
  <1>8. ASSUME calm' PROVE Alone'
    <2>1. ASSUME NEW i \in jobs', NEW j \in jobs', i.beat = j.beat, i.beat # 0 PROVE i = j
      <3>1. PICK x \in jobs : i = again(x) /\ i.beat = x.beat
        BY <1>3 DEF Same
      <3>2. PICK y \in jobs : j = again(y) /\ j.beat = y.beat
        BY <1>3 DEF Same
      <3> QED
        BY <1>1, <1>8, <2>1, <3>1, <3>2 DEF StoryInv, Alone
    <2> QED
      BY <2>1 DEF Alone
  <1>9. ASSUME calm', NEW b \in DOMAIN beats' PROVE BeatInv(b)'
    <2>1. /\ BeatInv(b) /\ Alone /\ calm /\ b \in DOMAIN beats /\ b # 0
          /\ ChangesOf(b)' = ChangesOf(b) /\ \A job \in jobs : job.step \notin Unsaved
      BY <1>1, <1>9, <1>a DEF StoryInv, ChangesOf, Types
    <2>2. /\ beats'[b].text = beats[b].text /\ beats'[b].audit = beats[b].audit
          /\ beats'[b].kept = beats[b].kept /\ b \notin NotedBeats'
          /\ beats'[b].asked =>
                /\ beats[b].asked /\ b \notin NotedBeats
                /\ \A job \in jobs : job.beat = b => job.step \notin Untold
      BY <1>0, <1>a, <2>1 DEF Interrupted, Untold
    <2>3. ASSUME \A new \in jobs' : new.beat # b PROVE Free(b)'
      <3>1. ASSUME NEW job \in jobs, job.beat = b PROVE ~job.row
        <4>1. job.row => again(job) \in jobs' /\ again(job).beat = b
          BY <1>1, <1>2, <3>1 DEF Same
        <4> QED
          BY <2>3, <4>1
      <3>2. CASE \A job \in jobs : job.beat # b
        BY <2>1, <2>2, <3>2 DEF BeatInv, Free
      <3>3. ASSUME NEW job \in jobs, job.beat = b PROVE Free(b)'
        <4>1. Held(b, job) /\ ~job.row /\ job.step \notin Unsaved
          BY <2>1, <3>1, <3>3 DEF BeatInv
        <4>2. beats'[b].asked => beats[b].text # Blank
          BY <2>2, <3>3, <4>1 DEF Held, Drafts
        <4> QED
          BY <2>1, <2>2, <4>1, <4>2 DEF Held, Free
      <3> QED
        BY <3>2, <3>3
    <2>4. ASSUME NEW new \in jobs', new.beat = b PROVE Held(b, new)'
      <3>1. PICK job \in jobs : /\ job.row /\ Same(new, job) /\ new.row
                               /\ ~new.token /\ new.step = "queued" /\ new.got = 0
        BY <1>3, <2>4
      <3>2. Held(b, job)
        BY <2>1, <2>4, <3>1 DEF BeatInv, Same
      <3>3. job.step \notin Unsaved /\ new.kind = job.kind /\ new.step \notin Unsaved /\ ~Live(new)
        BY <2>1, <3>1 DEF Same, Unsaved, Live
      <3>4. Drafts(job) => Drafts(new)
        BY <3>1, <3>3 DEF Drafts
      <3> QED
        BY <2>1, <2>2, <3>1, <3>2, <3>3, <3>4 DEF Held, Live
    <2> QED
      BY <2>3, <2>4 DEF BeatInv
  <1> QED
    BY <1>4, <1>5, <1>6, <1>7, <1>8, <1>9 DEF StoryInv

-----------------------------------------------------------------------------
(* Theorems *)

LEMMA InitHolds == Init => StoryInv
  <1> SUFFICES ASSUME Init PROVE StoryInv
    OBVIOUS
  <1>1. /\ DOMAIN beats = 1..2 /\ jobs = {} /\ changes = {} /\ issued = 0 /\ events = 0 /\ calm = TRUE
        /\ notes = {} /\ chapters = <<NewChapter(1), NewChapter(2)>> /\ variablesOn \in BOOLEAN
        /\ \A b \in 1..2 : beats[b] = [chapter |-> b, plan |-> TRUE, text |-> ByUser(0),
                                       audit |-> <<>>, kept |-> ByUser(0), asked |-> FALSE]
    BY DEF Init, NewBeat
  <1>2. ByUser(0) \in Texts /\ <<>> \in Audits /\ ToSet(<<>>) = {}
    BY NotesAndPieces, AuditOf DEF Blank
  <1>3. IsPrefix(ByUser(0), ByUser(0))
    BY <1>2, PrefixOfItself
  <1>4. ASSUME NEW b \in 1..2 PROVE beats[b] \in Beats
    <2>1. b \in Nat
      OBVIOUS
    <2>2. [chapter |-> b, plan |-> TRUE, text |-> ByUser(0), audit |-> <<>>,
           kept |-> ByUser(0), asked |-> FALSE] \in Beats
      BY <1>2, <2>1 DEF Beats
    <2> QED
      BY <1>1, <2>2
  <1>5. /\ NewChapter(1) \in Chapters /\ NewChapter(2) \in Chapters
        /\ NewChapter(1).id = 1 /\ NewChapter(2).id = 2
    BY DEF NewChapter, Chapters
  <1>6. /\ chapters \in Seq(Chapters) /\ DOMAIN chapters = {1, 2} /\ Len(chapters) = 2
        /\ chapters[1] = NewChapter(1) /\ chapters[2] = NewChapter(2)
    BY <1>1, <1>5
  <1>7. ChapterIds = {1, 2} /\ Cardinality(ChapterIds) = 2
    <2>1. ChapterIds = {1, 2}
      BY <1>5, <1>6 DEF ChapterIds
    <2>2. IsFiniteSet(1..2) /\ Cardinality(1..2) = 2
      <3>1. 1 \in Int /\ 2 \in Int /\ ~(1 > 2) /\ 2 - 1 + 1 = 2
        OBVIOUS
      <3> QED
        BY ONLY <3>1, FS_Interval
    <2>3. 1..2 = {1, 2}
      OBVIOUS
    <2> QED
      BY <2>1, <2>2, <2>3
  <1>8. IsFiniteSet(changes)
    BY <1>1, FS_EmptySet
  <1>9. beats \in [DOMAIN beats -> Beats]
    <2>1. beats = [b \in 1..2 |-> beats[b]]
      BY DEF Init
    <2> QED
      BY <1>1, <1>4, <2>1
  <1>10. Types
    BY <1>1, <1>6, <1>8, <1>9 DEF Types
  <1>11. TypeOK
    BY <1>1, <1>6, <1>7 DEF TypeOK
  <1>12. Numbered /\ JobsOfBeats /\ Alone
    BY <1>1 DEF Numbered, JobsOfBeats, Alone, Used, NotedBeats
  <1>13. \A b \in DOMAIN beats : BeatInv(b)
    BY <1>1, <1>2, <1>3 DEF BeatInv, Free, ChangesOf, NotedBeats
  <1> QED
    BY <1>1, <1>10, <1>11, <1>12, <1>13 DEF StoryInv

LEMMA NextHolds ==
    ASSUME StoryInv, Next
    PROVE  StoryInv'
  <1>1. CASE Request
    BY <1>1, RowsEdited, OtherJobsCome, DraftComes, DraftQueued, ContinuationComes, BeatDeleted,
       JobCancelled, CancelGoesOn, CancelDropped, DraftDropped
    DEF Request
  <1>2. ASSUME NEW job \in jobs, JobStep(job) PROVE StoryInv'
    <2>1. Fit(job)
      BY FitJobs
    <2>2. \/ Goes(job) /\ (Ending(job) \/ (Moving(job) /\ job.step \notin Untold))
          \/ job.kind = "beats" /\ ReplaceBeats(job)
          \/ job.kind = "chapters" /\ ReplaceChapters(job)
      BY <1>2, <2>1, StepsOfJobs
    <2> QED
      BY <2>2, JobsGoOn, BeatsReplaced, ChaptersReplaced
  <1>3. CASE Crash
    BY <1>3, ServerStops
  <1> QED
    BY <1>1, <1>2, <1>3 DEF Next

THEOREM Invariance == Spec => []StoryInv
  <1>1. StoryInv /\ [Next]_vars => StoryInv'
    <2> SUFFICES ASSUME StoryInv, [Next]_vars PROVE StoryInv'
      OBVIOUS
    <2>1. CASE Next
      BY <2>1, NextHolds
    <2>2. CASE UNCHANGED vars
      <3>1. /\ UNCHANGED <<variablesOn, chapters, beats, changes, jobs, notes, issued, events, calm>>
        BY <2>2 DEF vars
      <3>2. Types' /\ TypeOK' /\ (\A job \in jobs : Shape(job))' /\ JobsOfBeats' /\ (calm' => Alone')
        BY <3>1 DEF StoryInv, Types, TypeOK, ChapterIds, Shape, JobsOfBeats, Alone
      <3>3. Numbered'
        BY <3>1 DEF StoryInv, Numbered, Used, NewId, NotedBeats
      <3>4. ASSUME calm', NEW b \in DOMAIN beats' PROVE BeatInv(b)'
        BY <3>1, <3>4, BeatStays DEF StoryInv, ChangesOf, NotedBeats
      <3> QED
        BY <3>2, <3>3, <3>4 DEF StoryInv
    <2> QED
      BY <2>1, <2>2
  <1> QED
    BY <1>1, InitHolds, PTL DEF Spec

(* Every job that has a row has its beat and its chapter, every beat its chapter,     *)
(* whatever is deleted or replaced, and a cancelled job has lost its row: the cascade *)
(* of migrations/002_stories.sql and cancel_job_record.                               *)
THEOREM TypeCorrect == Spec => []TypeOK
  <1>1. StoryInv => TypeOK
    BY DEF StoryInv
  <1> QED
    BY <1>1, Invariance, PTL

(* The audit of a beat that no typed job works on tells what the beat changed in the  *)
(* story's state and nothing else, so that a regenerate undoes just that.             *)
THEOREM AuditsTellTheChanges == Spec => []AuditsAreTheChanges
  <1>1. StoryInv => AuditsAreTheChanges
    <2> SUFFICES ASSUME StoryInv, NEW b \in DOMAIN beats, calm,
                        \A job \in jobs : Live(job) =>
                           ~(job.beat = b /\ job.kind \in {"prose", "recheck"})
                 PROVE  ChangesOf(b) = ToSet(beats[b].audit)
      BY DEF AuditsAreTheChanges, ChangesOf
    <2>1. BeatInv(b) /\ \A job \in jobs : Shape(job)
      BY DEF StoryInv
    <2>2. \A job \in jobs : job.beat = b => job.step \notin Unsaved
      BY <2>1 DEF Shape, Live, Unsaved
    <2> QED
      BY <2>1, <2>2 DEF BeatInv, Free, Held, NotedBeats
  <1> QED
    BY <1>1, Invariance, PTL

(* A continuation keeps what it was asked to continue at the head of the beat, through *)
(* its pieces, failures, retries and cancels and the server's stops.                   *)
THEOREM ContinuationsAppend == Spec => []ContinueOnlyAppends
  <1>1. StoryInv => ContinueOnlyAppends
    BY DEF StoryInv, BeatInv, Free, Held, ContinueOnlyAppends, NotedBeats
  <1> QED
    BY <1>1, Invariance, PTL

(* A beat whose prose was asked for has text once no job and no cancel is left that   *)
(* would write it, but where the server stopped between two of their statements.      *)
THEOREM BeatsAreNotLeftBlank == Spec => []SettledBeatHasText
  <1>1. StoryInv => SettledBeatHasText
    BY DEF StoryInv, BeatInv, Free, SettledBeatHasText, NotedBeats
  <1> QED
    BY <1>1, Invariance, PTL
=============================================================================
