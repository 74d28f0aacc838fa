--------------------------- MODULE AutoSaveProofs ---------------------------
(* Why a calm field that says Saved is saved.  The property speaks of a field at    *)
(* rest; the invariant says for every moment before it which of the texts under way *)
(* will be stored last: that of the last timer, else that of the last request, else *)
(* the one the server has.  The settings need another one: their answers overwrite  *)
(* the draft, so it says when an answer may come that finds the draft it was sent   *)
(* for, and what the stored text is until then.                                     *)
EXTENDS AutoSave, SequenceTheorems, TLAPS

Phases == {"synced", "debouncing", "saving", "failed"}
Steps == {"sent", "stored", "replied"}
Kinds == {"save", "flush", "switch"}
Renders == [draft : Texts, saved : Texts]
Timers == [text : Texts, cap : Renders]
Requests == [kind : Kinds, text : Texts, cap : Renders, fresh : BOOLEAN, step : Steps,
             reply : Texts]

TypeOK ==
    /\ form \in Forms /\ handles \in {"render", "latest"}
    /\ draft \in Texts /\ saved \in Texts /\ shown \in Texts /\ server \in Texts
    /\ typed \in Texts
    /\ phase \in Phases /\ open \in BOOLEAN /\ locked \in BOOLEAN /\ calm \in BOOLEAN
    /\ timers \in Seq(Timers) /\ requests \in Seq(Requests)

\* A lock closes the reading editor, and the settings know none.
LockedIsClosed ==
    /\ locked => form # "settings" /\ (form = "prose" => ~open)
    /\ form = "basics" => open

\* Calm answers carry the text they were asked for.
AnswerIsOwn ==
    \A i \in DOMAIN requests :
        requests[i].step = "replied" => requests[i].reply = Stored(requests[i].text)

\* Calm requests are stored in the order they were sent.
InOrder ==
    \A i, j \in DOMAIN requests :
        i < j /\ requests[j].step # "sent" => requests[i].step # "sent"

-----------------------------------------------------------------------------
(* The forms with a timer for each render *)

LastTimer == timers[Len(timers)]
LastRequest == requests[Len(requests)]

FieldInv ==
    /\ open => typed = draft
    /\ timers # <<>> => LastTimer.text = typed
    /\ timers = <<>> /\ requests # <<>> =>
         /\ LastRequest.text = typed
         /\ form = "basics" => LastRequest.fresh
         /\ LastRequest.step # "sent" => server = typed
    /\ ~Pending => server = typed \/ (form = "basics" /\ phase = "failed")
    /\ form = "prose" /\ locked => ~Pending

-----------------------------------------------------------------------------
(* The settings *)

Save(r) == r.kind # "switch"
Unsent == timers # <<>> \/ \E i \in DOMAIN requests : Save(requests[i])

\* No closure under way was made before last_saved changed.
CapsAreCurrent ==
    handles = "render" =>
        /\ \A i \in DOMAIN timers : timers[i].cap.saved = saved
        /\ \A i \in DOMAIN requests : requests[i].cap.saved = saved

DraftIsHeld ==
    /\ saved >= 1 /\ server >= 1
    /\ Stored(typed) = Stored(draft)
    /\ Unsent => draft # saved
    /\ draft = saved => server = saved
    /\ phase = "synced" => ~Pending /\ draft = saved

\* Switches go first; what is stored is the text of the last save that was, and until
\* then what the switches found.
StoredIsLast ==
    /\ \A i, j \in DOMAIN requests : i < j /\ ~Save(requests[j]) => ~Save(requests[i])
    /\ \A i \in DOMAIN requests : ~Save(requests[i]) => requests[i].text = saved
    /\ \A i \in DOMAIN requests :
         /\ Save(requests[i]) /\ requests[i].step # "sent"
         /\ \A j \in DOMAIN requests : i < j => requests[j].step = "sent"
         => server = Stored(requests[i].text)
    /\ (\E i \in DOMAIN requests : ~Save(requests[i]))
       /\ (\A i \in DOMAIN requests : Save(requests[i]) => requests[i].step = "sent")
       => server = saved

SettingsInv == CapsAreCurrent /\ DraftIsHeld /\ StoredIsLast

CalmInv ==
    calm =>
        /\ AnswerIsOwn /\ InOrder
        /\ form = "settings" => SettingsInv
        /\ form # "settings" /\ SendsWhatIsTyped => FieldInv

SaveInv ==
    /\ TypeOK /\ LockedIsClosed
    /\ form # "settings" => \A i \in DOMAIN requests : Save(requests[i])
    /\ CalmInv

-----------------------------------------------------------------------------
(* Lists of timers and of requests *)

LEMMA Appended ==
    ASSUME NEW S, NEW s \in Seq(S), NEW r \in S
    PROVE  /\ Append(s, r) \in Seq(S) /\ Append(s, r) # <<>>
           /\ Len(Append(s, r)) = Len(s) + 1 /\ Len(s) \in Nat
           /\ \A k \in 1..Len(s) : Append(s, r)[k] = s[k]
           /\ Append(s, r)[Len(s) + 1] = r
  BY AppendProperties

LEMMA Removed ==
    ASSUME NEW S, NEW s \in Seq(S), NEW i \in 1..Len(s)
    PROVE  /\ RemoveAt(s, i) \in Seq(S)
           /\ Len(RemoveAt(s, i)) = Len(s) - 1
           /\ i = 1 => \A k \in 1..Len(s) - 1 : RemoveAt(s, i)[k] = s[k + 1]
  <1>1. /\ SubSeq(s, 1, i - 1) \in Seq(S) /\ Len(SubSeq(s, 1, i - 1)) = i - 1
        /\ SubSeq(s, i + 1, Len(s)) \in Seq(S) /\ Len(SubSeq(s, i + 1, Len(s))) = Len(s) - i
    OBVIOUS
  <1> DEFINE a == SubSeq(s, 1, i - 1)
             b == SubSeq(s, i + 1, Len(s))
  <1>2. RemoveAt(s, i) = a \o b
    BY DEF RemoveAt
  <1>3. ASSUME i = 1, NEW k \in 1..Len(s) - 1 PROVE b[k] = s[k + 1] /\ k \in 1..Len(b)
    BY <1>1, <1>3
  <1>4. i - 1 + (Len(s) - i) = Len(s) - 1 /\ (i = 1 => i - 1 = 0)
    OBVIOUS
  <1> HIDE DEF a, b
  <1>5. a \in Seq(S) /\ b \in Seq(S) /\ Len(a) = i - 1 /\ Len(b) = Len(s) - i
    BY <1>1 DEF a, b
  <1>6. RemoveAt(s, i) \in Seq(S) /\ Len(RemoveAt(s, i)) = Len(s) - 1
    <2>1. a \o b \in Seq(S) /\ Len(a \o b) = Len(a) + Len(b)
      BY <1>5, ConcatProperties
    <2> QED
      BY <1>2, <1>4, <1>5, <2>1
  <1>7. ASSUME i = 1, NEW k \in 1..Len(s) - 1 PROVE RemoveAt(s, i)[k] = s[k + 1]
    <2>1. Len(a) = 0 /\ k \in Int /\ k > Len(a) /\ k <= Len(a) + Len(b)
      BY <1>3, <1>4, <1>5, <1>7
    <2>2. (a \o b)[k] = b[k - Len(a)]
      BY <1>5, <2>1, ConcatProperties
    <2>3. k - Len(a) = k
      BY <2>1
    <2> QED
      BY <1>2, <1>3, <1>7, <2>2, <2>3
  <1> QED
    BY <1>6, <1>7

\* What stays was there before.
LEMMA Kept ==
    ASSUME NEW S, NEW s \in Seq(S), NEW i \in 1..Len(s)
    PROVE  \A k \in 1..Len(s) - 1 : \E l \in 1..Len(s) : RemoveAt(s, i)[k] = s[l]
  <1> SUFFICES ASSUME NEW k \in 1..Len(s) - 1
               PROVE  \E l \in 1..Len(s) : RemoveAt(s, i)[k] = s[l]
    OBVIOUS
  <1> DEFINE a == SubSeq(s, 1, i - 1)
             b == SubSeq(s, i + 1, Len(s))
  <1>1. RemoveAt(s, i) = a \o b
    BY DEF RemoveAt
  <1>2. /\ a \in Seq(S) /\ Len(a) = i - 1 /\ \A j \in 1..i - 1 : a[j] = s[j]
        /\ b \in Seq(S) /\ Len(b) = Len(s) - i
    OBVIOUS
  <1>3. ASSUME k >= i PROVE b[k - (i - 1)] = s[k + 1] /\ k + 1 \in 1..Len(s)
    BY <1>3
  <1>4. k \in Int /\ i \in Int /\ Len(s) \in Nat /\ (k < i => k \in 1..i - 1 /\ k \in 1..Len(s))
    OBVIOUS
  <1> HIDE DEF a, b
  <1>5. (a \o b)[k] = IF k <= Len(a) THEN a[k] ELSE b[k - Len(a)]
    <2>1. k \in 1..Len(a) + Len(b)
      BY <1>2, <1>4
    <2> QED
      BY <1>2, <2>1, ConcatProperties
  <1>6. CASE k < i
    <2>1. (a \o b)[k] = s[k]
      BY <1>2, <1>4, <1>5, <1>6
    <2> QED
      BY <1>1, <1>4, <1>6, <2>1
  <1>7. CASE k >= i
    <2>1. (a \o b)[k] = b[k - (i - 1)]
      BY <1>2, <1>4, <1>5, <1>7
    <2> QED
      BY <1>1, <1>3, <1>7, <2>1
  <1> QED
    BY <1>4, <1>6, <1>7

LEMMA RequestType ==
    ASSUME NEW kind \in Kinds, NEW text \in Texts, NEW cap \in Renders, NEW fresh \in BOOLEAN
    PROVE  /\ Request(kind, text, cap, fresh) \in Requests
           /\ Request(kind, text, cap, fresh).kind = kind
           /\ Request(kind, text, cap, fresh).text = text
           /\ Request(kind, text, cap, fresh).cap = cap
           /\ Request(kind, text, cap, fresh).fresh = fresh
           /\ Request(kind, text, cap, fresh).step = "sent"
  BY TextsAssumption DEF Request, Requests, Steps

LEMMA TextTypes ==
    ASSUME TypeOK
    PROVE  Render \in Renders /\ \A t \in Texts : Stored(t) \in Texts /\ Stored(Stored(t)) = Stored(t)
  BY TextsAssumption DEF TypeOK, Render, Renders, Stored

\* What an action does to a text under way.
LEMMA Progress ==
    ASSUME TypeOK, NEW i \in DOMAIN requests, Store(i) \/ Reply(i)
    PROVE  /\ requests' \in Seq(Requests) /\ Len(requests') = Len(requests)
           /\ \A k \in DOMAIN requests :
                /\ requests'[k].kind = requests[k].kind /\ requests'[k].text = requests[k].text
                /\ requests'[k].cap = requests[k].cap /\ requests'[k].fresh = requests[k].fresh
           /\ \A k \in DOMAIN requests : k # i => requests'[k] = requests[k]
           /\ Store(i) => requests'[i].step = "stored"
           /\ Reply(i) => requests'[i].step = "replied" /\ requests'[i].reply = server
  <1> DEFINE r == IF requests[i].step = "sent" THEN [requests[i] EXCEPT !.step = "stored"]
                  ELSE [requests[i] EXCEPT !.step = "replied", !.reply = server]
  <1>1. requests \in Seq(Requests) /\ requests[i] \in Requests /\ server \in Texts
    BY DEF TypeOK
  <1>2. /\ r \in Requests /\ r.kind = requests[i].kind /\ r.text = requests[i].text
        /\ r.cap = requests[i].cap /\ r.fresh = requests[i].fresh
        /\ requests[i].step = "sent" => r.step = "stored"
        /\ requests[i].step # "sent" => r.step = "replied" /\ r.reply = server
    BY <1>1 DEF Requests, Steps
  <1>3. requests' = [requests EXCEPT ![i] = r]
    BY DEF Store, Reply
  <1>4. (Store(i) => requests[i].step = "sent") /\ (Reply(i) => requests[i].step # "sent")
    BY DEF Store, Reply
  <1> HIDE DEF r
  <1>5. /\ requests' \in Seq(Requests) /\ Len(requests') = Len(requests)
        /\ requests'[i] = r /\ \A k \in DOMAIN requests : k # i => requests'[k] = requests[k]
    BY <1>1, <1>2, <1>3
  <1> QED
    BY <1>2, <1>4, <1>5

-----------------------------------------------------------------------------
(* Types and locks *)

LEMMA TypeInit == Init => SaveInv
  <1> SUFFICES ASSUME Init PROVE SaveInv
    OBVIOUS
  <1>1. TypeOK
    <2>1. timers \in Seq(Timers) /\ requests \in Seq(Requests)
      BY DEF Init
    <2> QED
      BY <2>1, TextsAssumption DEF Init, TypeOK, Phases
  <1>2. LockedIsClosed
    BY DEF Init, LockedIsClosed
  <1>3. CalmInv
    <2>1. DOMAIN timers = {} /\ DOMAIN requests = {}
      BY DEF Init
    <2> QED
      BY <2>1 DEF Init, CalmInv, AnswerIsOwn, InOrder, SettingsInv, CapsAreCurrent, DraftIsHeld,
           StoredIsLast, FieldInv, Unsent, Pending, Stored
  <1>4. DOMAIN requests = {}
    BY DEF Init
  <1> QED
    BY <1>1, <1>2, <1>3, <1>4 DEF SaveInv

\* Whatever is sent, and whatever is scheduled, is one of the texts.
LEMMA ListTypes ==
    ASSUME TypeOK, Next
    PROVE  timers' \in Seq(Timers) /\ requests' \in Seq(Requests)
  <1>0. /\ timers \in Seq(Timers) /\ requests \in Seq(Requests) /\ Render \in Renders
        /\ draft \in Texts /\ handles \in {"render", "latest"}
    BY TextTypes DEF TypeOK
  <1>1. ASSUME NEW t \in Texts, NEW cap \in Renders PROVE [text |-> t, cap |-> cap] \in Timers
    BY <1>1 DEF Timers
  <1>2. ASSUME NEW t \in Texts, NEW cap \in Renders
        PROVE  /\ <<[text |-> t, cap |-> cap]>> \in Seq(Timers)
               /\ Append(timers, [text |-> t, cap |-> cap]) \in Seq(Timers)
    BY <1>0, <1>1
  <1>3. <<>> \in Seq(Timers) /\ <<>> \in Seq(Requests)
    OBVIOUS
  <1>4. timers # <<>> => Head(timers) \in Timers /\ Tail(timers) \in Seq(Timers)
    BY <1>0
  <1>5. ASSUME NEW kind \in Kinds, NEW t \in Texts, NEW cap \in Renders, NEW fresh \in BOOLEAN
        PROVE  Append(requests, Request(kind, t, cap, fresh)) \in Seq(Requests)
    BY <1>0, RequestType
  <1>6. ASSUME NEW t \in Texts, Type(t) PROVE timers' \in Seq(Timers) /\ requests' = requests
    <2> DEFINE text == IF form = "basics" /\ handles = "render" THEN draft ELSE t
    <2>1. text \in Texts
      BY <1>0
    <2>2. \/ UNCHANGED timers \/ timers' = <<>> \/ schedule_save(text, Render) \/ schedule(text)
      BY <1>6 DEF Type, Revert
    <2>3. requests' = requests
      BY <1>6 DEF Type
    <2> HIDE DEF text
    <2> QED
      BY <1>0, <1>2, <1>3, <2>1, <2>2, <2>3 DEF schedule, schedule_save
  <1>7. ASSUME NEW cap \in Renders, run_save(cap) PROVE requests' \in Seq(Requests)
    BY <1>0, <1>5, <1>7 DEF run_save, Send, Kinds
  <1>8. CASE FieldTimer
    <2>1. timers # <<>> /\ timers' = Tail(timers)
      BY <1>8 DEF FieldTimer
    <2>2. Head(timers).text \in Texts /\ Head(timers).cap \in Renders
      BY <1>4, <2>1 DEF Timers
    <2>3. requests' \in Seq(Requests)
      <3>1. CASE Blocked
        BY <1>0, <1>8, <3>1 DEF FieldTimer, Dropped
      <3>2. CASE ~Blocked
        BY <1>5, <1>8, <2>2, <3>2 DEF FieldTimer, Send, Kinds
      <3> QED
        BY <3>1, <3>2
    <2> QED
      BY <1>4, <2>1, <2>3
  <1>9. CASE SettingsTimer
    <2>1. Head(timers).cap \in Renders
      BY <1>4, <1>9 DEF SettingsTimer, Timers
    <2> QED
      BY <1>3, <1>7, <1>9, <2>1 DEF SettingsTimer
  <1>10. CASE HideTab
    BY <1>0, <1>3, <1>7, <1>10 DEF HideTab
  <1>11. CASE Switch
    <2>1. /\ requests' = Append(requests, Request("switch", draft, Render, TRUE))
          /\ timers' = <<>>
      BY <1>11 DEF Switch
    <2> QED
      BY <1>0, <1>3, <1>5, <2>1 DEF Kinds
  <1>12. CASE CloseEditor
    <2>1. CASE draft = saved
      BY <1>0, <1>12, <2>1 DEF CloseEditor
    <2>2. ASSUME NEW first \in BOOLEAN, Send(draft, Render, first, "flush")
          PROVE  requests' \in Seq(Requests)
      BY <1>0, <1>5, <2>2 DEF Send, Kinds
    <2>3. draft # saved => \E first \in BOOLEAN : Send(draft, Render, first, "flush")
      <3>1. \A first \in {draft = shown, TRUE} : first \in BOOLEAN
        OBVIOUS
      <3> QED
        BY <1>12, <3>1 DEF CloseEditor
    <2>4. timers' = timers
      BY <1>12 DEF CloseEditor
    <2> QED
      BY <1>0, <2>1, <2>2, <2>3, <2>4
  <1>13. CASE OpenEditor \/ JobSeen \/ JobGone
    BY <1>0, <1>13 DEF OpenEditor, JobSeen, JobGone
  <1>14. ASSUME NEW i \in DOMAIN requests, Store(i) \/ Reply(i)
         PROVE  timers' \in Seq(Timers) /\ requests' \in Seq(Requests)
    BY <1>0, <1>14, Progress DEF Store, Reply
  <1>15. ASSUME NEW i \in DOMAIN requests, AnswerLands(i) \/ RequestFails(i)
         PROVE  timers' \in Seq(Timers) /\ requests' \in Seq(Requests)
    <2>1. i \in 1..Len(requests) /\ requests' = RemoveAt(requests, i)
      BY <1>0, <1>15 DEF AnswerLands, RequestFails
    <2>2. requests[i].cap \in Renders
      <3>1. requests[i] \in Requests
        BY <1>0
      <3> QED
        BY <3>1 DEF Requests
    <2>3. timers' = timers \/ timers' = <<>> \/ schedule_save(draft, requests[i].cap)
      BY <1>15 DEF AnswerLands, RequestFails, SettingsAnswer, mark_saved, Again, finish_auto_save,
                   SettingsFailure, fail_auto_save
    <2>4. timers' \in Seq(Timers)
      BY <1>0, <1>2, <1>3, <2>2, <2>3 DEF schedule_save
    <2> QED
      BY <1>0, <2>1, <2>4, Removed
  <1>16. CASE Reload
    BY <1>3, <1>16 DEF Reload
  <1> QED
    BY <1>0, <1>6, <1>8, <1>9, <1>10, <1>11, <1>12, <1>13, <1>14, <1>15, <1>16 DEF Next, Answered

LEMMA TypeStep ==
    ASSUME TypeOK, Next
    PROVE  TypeOK'
  <1>0. timers' \in Seq(Timers) /\ requests' \in Seq(Requests)
    BY ListTypes
  <1>1. ASSUME NEW i \in DOMAIN requests
        PROVE  /\ requests[i].text \in Texts /\ requests[i].reply \in Texts
               /\ Stored(requests[i].text) \in Texts
    <2>1. requests[i] \in Requests
      BY DEF TypeOK
    <2> QED
      BY <2>1, TextTypes DEF Requests
  <1>2. ASSUME NEW t \in Texts, Type(t) PROVE TypeOK'
    BY <1>0, <1>2 DEF Type, Revert, schedule, schedule_save, TypeOK, Phases
  <1>3. CASE FieldTimer \/ SettingsTimer \/ HideTab \/ Switch
    BY <1>0, <1>3 DEF FieldTimer, SettingsTimer, HideTab, Switch, Dropped, Send, run_save, TypeOK,
                      Phases
  <1>4. CASE OpenEditor \/ CloseEditor
    BY <1>0, <1>4 DEF OpenEditor, CloseEditor, Closed, Send, TypeOK, Phases
  <1>5. CASE JobSeen \/ JobGone
    BY <1>0, <1>5 DEF JobSeen, JobGone, Closed, TypeOK, Phases
  <1>6. ASSUME NEW i \in DOMAIN requests, Store(i) \/ Reply(i) PROVE TypeOK'
    BY <1>0, <1>1, <1>6 DEF Store, Reply, fields, TypeOK
  <1>7. ASSUME NEW i \in DOMAIN requests, AnswerLands(i) PROVE TypeOK'
    BY <1>0, <1>1, <1>7 DEF AnswerLands, SettingsAnswer, mark_saved, Again, schedule_save,
                            finish_auto_save, TypeOK, Phases
  <1>8. ASSUME NEW i \in DOMAIN requests, RequestFails(i) PROVE TypeOK'
    BY <1>0, <1>8 DEF RequestFails, SettingsFailure, Again, schedule_save, fail_auto_save, TypeOK,
                      Phases
  <1>9. CASE Reload
    <2>1. PICK stored \in {server} \cup
                 {Stored(r.text) : r \in {q \in ToSet(requests) : q.step = "sent" /\ q.kind # "switch"}} :
            /\ server' = stored
            /\ draft' = stored /\ saved' = stored /\ shown' = stored /\ typed' = stored
      BY <1>9 DEF Reload
    <2>2. stored \in Texts
      <3>1. \A r \in ToSet(requests) : r \in Requests
        BY DEF TypeOK, ToSet
      <3> QED
        BY <2>1, <3>1, TextTypes DEF TypeOK, Requests
    <2> QED
      BY <1>0, <1>9, <2>1, <2>2 DEF Reload, TypeOK, Phases
  <1> QED
    BY <1>2, <1>3, <1>4, <1>5, <1>6, <1>7, <1>8, <1>9 DEF Next, Answered

LEMMA LockStep ==
    ASSUME TypeOK, LockedIsClosed, Next
    PROVE  LockedIsClosed'
  <1>1. ASSUME NEW t \in Texts, Type(t) PROVE LockedIsClosed'
    BY <1>1 DEF Type, LockedIsClosed
  <1>2. ASSUME NEW i \in DOMAIN requests, Store(i) \/ Reply(i) \/ AnswerLands(i) \/ RequestFails(i)
        PROVE  LockedIsClosed'
    <2>1. UNCHANGED <<form, locked, open>>
      BY <1>2 DEF Store, Reply, AnswerLands, RequestFails, fields
    <2> QED
      BY <2>1 DEF LockedIsClosed
  <1>3. CASE FieldTimer \/ SettingsTimer \/ HideTab \/ Switch
    <2>1. UNCHANGED <<form, locked, open>>
      BY <1>3 DEF FieldTimer, SettingsTimer, HideTab, Switch
    <2> QED
      BY <2>1 DEF LockedIsClosed
  <1>4. CASE OpenEditor \/ CloseEditor \/ JobGone
    <2>1. form' = form /\ (form = "basics" /\ open => open')
      BY <1>4 DEF OpenEditor, CloseEditor, JobGone, Closed, TypeOK
    <2>2. locked' => ~OpenEditor /\ ~JobGone /\ locked
      BY <1>4 DEF OpenEditor, CloseEditor, JobGone
    <2>3. locked' /\ form = "prose" => ~open'
      BY <1>4, <2>2 DEF CloseEditor, Closed
    <2> QED
      BY <2>1, <2>2, <2>3 DEF LockedIsClosed
  <1>5. CASE JobSeen
    <2>1. form # "settings" /\ form' = form /\ (form = "prose" => ~open')
      BY <1>5 DEF JobSeen, Closed, TypeOK
    <2>2. form = "basics" => open' = open
      BY <1>5 DEF JobSeen
    <2> QED
      BY <2>1, <2>2 DEF LockedIsClosed
  <1>6. CASE Reload
    <2>1. /\ UNCHANGED <<form, locked>> /\ open' = (form # "prose")
      BY <1>6 DEF Reload
    <2>2. (form = "prose" => ~open') /\ (form = "basics" => open')
      BY <2>1
    <2> QED
      BY <2>1, <2>2 DEF LockedIsClosed
  <1> QED
    BY <1>1, <1>2, <1>3, <1>4, <1>5, <1>6 DEF Next, Answered

\* While the page knows of a job on the text, no timer, tab or editor sends anything.
THEOREM LockIsHeeded == Spec => LockedFieldIsSilent
  <1> DEFINE Locks == TypeOK /\ LockedIsClosed
  <1>1. ASSUME Locks, Next, locked PROVE Len(requests') <= Len(requests)
    <2>1. requests \in Seq(Requests) /\ Len(requests) \in Nat
      BY <1>1 DEF TypeOK
    <2>2. form # "settings" /\ (form = "prose" => ~open)
      BY <1>1 DEF LockedIsClosed
    <2>3. ASSUME NEW t \in Texts, Type(t) PROVE FALSE
      BY <1>1, <2>3 DEF Type
    <2>4. ASSUME NEW i \in DOMAIN requests, Store(i) \/ Reply(i) PROVE Len(requests') = Len(requests)
      BY <1>1, <2>4, Progress
    <2>5. ASSUME NEW i \in DOMAIN requests, AnswerLands(i) \/ RequestFails(i)
          PROVE  Len(requests') = Len(requests) - 1
      <3>1. requests' = RemoveAt(requests, i) /\ i \in 1..Len(requests)
        BY <2>1, <2>5 DEF AnswerLands, RequestFails
      <3>2. Len(RemoveAt(requests, i)) = Len(requests) - 1
        BY <2>1, <3>1, Removed
      <3> QED
        BY <3>1, <3>2
    <2>6. CASE FieldTimer \/ OpenEditor \/ JobSeen \/ JobGone
      <3>1. requests' = requests
        BY <1>1, <2>6 DEF FieldTimer, Blocked, Dropped, OpenEditor, JobSeen, JobGone
      <3> QED
        BY <2>1, <3>1
    <2>7. CASE SettingsTimer \/ HideTab \/ Switch \/ CloseEditor
      BY <2>2, <2>7 DEF SettingsTimer, HideTab, Switch, CloseEditor
    <2>8. CASE Reload
      BY <2>1, <2>8 DEF Reload
    <2> QED
      BY <1>1, <2>1, <2>3, <2>4, <2>5, <2>6, <2>7, <2>8 DEF Next, Answered
  <1>2. ASSUME Locks, UNCHANGED vars PROVE Locks' /\ Len(requests') <= Len(requests)
    BY <1>2 DEF vars, fields, history, TypeOK, LockedIsClosed
  <1>3. Init => Locks
    BY TypeInit DEF SaveInv
  <1>4. Locks /\ [Next]_vars => Locks'
    BY <1>2, TypeStep, LockStep
  <1>5. Locks /\ [Next]_vars => (locked => Len(requests') <= Len(requests))
    BY <1>1, <1>2
  <1> QED
    BY <1>3, <1>4, <1>5, PTL DEF Spec, LockedFieldIsSilent

-----------------------------------------------------------------------------
(* What a calm step does to the requests *)

Shrinks ==
    /\ requests # <<>> /\ Len(requests') = Len(requests) - 1
    /\ \A k \in 1..Len(requests) - 1 : requests'[k] = requests[k + 1]

\* A step of a calm field leaves it calm, or ends the calm for good.
LEMMA CalmStays ==
    ASSUME TypeOK, Next, calm'
    PROVE  calm /\ form' = form /\ handles' = handles
  <1>1. ASSUME NEW t \in Texts, Type(t) PROVE calm /\ form' = form /\ handles' = handles
    BY <1>1 DEF Type
  <1>2. ASSUME NEW i \in DOMAIN requests, Store(i) \/ Reply(i) \/ AnswerLands(i) \/ RequestFails(i)
        PROVE  calm /\ form' = form /\ handles' = handles
    BY <1>2 DEF Store, Reply, AnswerLands, RequestFails
  <1>3. CASE FieldTimer
    BY <1>3 DEF FieldTimer, Dropped
  <1>4. CASE SettingsTimer \/ HideTab \/ Switch \/ OpenEditor \/ CloseEditor \/ JobSeen \/ JobGone
               \/ Reload
    BY <1>4 DEF SettingsTimer, HideTab, Switch, OpenEditor, CloseEditor, JobSeen, JobGone, Reload
  <1> QED
    BY <1>1, <1>2, <1>3, <1>4 DEF Next, Answered

\* The requests that fail or are answered do so in turn.
LEMMA CalmRemoval ==
    ASSUME TypeOK, NEW i \in DOMAIN requests, AnswerLands(i) \/ RequestFails(i), calm'
    PROVE  i = 1 /\ Shrinks /\ Len(requests) \in Nat \ {0}
  <1>1. requests' = RemoveAt(requests, i) /\ ~Overtakes(i)
    BY DEF AnswerLands, RequestFails
  <1>2. requests \in Seq(Requests) /\ i \in 1..Len(requests) /\ Len(requests) \in Nat \ {0}
    BY DEF TypeOK
  <1>3. i = 1
    BY <1>1, <1>2 DEF Overtakes
  <1>4. /\ Len(RemoveAt(requests, i)) = Len(requests) - 1
        /\ \A k \in 1..Len(requests) - 1 : RemoveAt(requests, i)[k] = requests[k + 1]
    BY <1>2, <1>3, Removed
  <1>5. requests # <<>>
    BY <1>2
  <1> QED
    BY <1>1, <1>2, <1>3, <1>4, <1>5 DEF Shrinks

LEMMA CalmLists ==
    ASSUME TypeOK, Next, calm'
    PROVE  \/ requests' = requests
           \/ requests' = <<>>
           \/ \E r \in Requests : r.step = "sent" /\ requests' = Append(requests, r)
           \/ \E i \in DOMAIN requests : Store(i) \/ Reply(i)
           \/ Shrinks
  <1>0. /\ timers \in Seq(Timers) /\ Render \in Renders
        /\ draft \in Texts /\ handles \in {"render", "latest"}
    BY TextTypes DEF TypeOK
  <1>1. timers # <<>> => Head(timers) \in Timers
    BY <1>0
  <1>2. timers # <<>> => Head(timers).text \in Texts /\ Head(timers).cap \in Renders
    BY <1>1 DEF Timers
  <1>3. ASSUME NEW t \in Texts, NEW cap \in Renders, NEW fresh \in BOOLEAN, NEW kind \in Kinds,
               Send(t, cap, fresh, kind)
        PROVE  \E r \in Requests : r.step = "sent" /\ requests' = Append(requests, r)
    BY <1>3, RequestType DEF Send
  <1>4. ASSUME NEW t \in Texts, Type(t) PROVE requests' = requests
    BY <1>4 DEF Type
  <1>5. CASE FieldTimer
    BY <1>2, <1>3, <1>5 DEF FieldTimer, Dropped, Kinds
  <1>6. CASE SettingsTimer \/ HideTab
    BY <1>0, <1>2, <1>3, <1>6 DEF SettingsTimer, HideTab, run_save, Kinds
  <1>7. CASE Switch
    <2>1. requests' = Append(requests, Request("switch", draft, Render, TRUE))
      BY <1>7 DEF Switch
    <2>2. /\ Request("switch", draft, Render, TRUE) \in Requests
          /\ Request("switch", draft, Render, TRUE).step = "sent"
      <3>1. \A fresh \in BOOLEAN : /\ Request("switch", draft, Render, fresh) \in Requests
                                  /\ Request("switch", draft, Render, fresh).step = "sent"
        BY <1>0, RequestType DEF Kinds
      <3>2. TRUE \in BOOLEAN
        OBVIOUS
      <3> QED
        BY <3>1, <3>2
    <2> QED
      BY <2>1, <2>2
  <1>8. CASE CloseEditor
    <2>1. \A first \in {draft = shown, TRUE} : first \in BOOLEAN
      OBVIOUS
    <2>2. UNCHANGED requests \/ \E first \in BOOLEAN : Send(draft, Render, first, "flush")
      BY <1>8, <2>1 DEF CloseEditor
    <2> QED
      BY <1>0, <1>3, <2>2 DEF Kinds
  <1>9. CASE OpenEditor \/ JobSeen \/ JobGone \/ Reload
    BY <1>9 DEF OpenEditor, JobSeen, JobGone, Reload
  <1> QED
    BY <1>4, <1>5, <1>6, <1>7, <1>8, <1>9, CalmRemoval DEF Next, Answered

LEMMA ListsStep ==
    ASSUME TypeOK, Next, calm', AnswerIsOwn, InOrder
    PROVE  AnswerIsOwn' /\ InOrder'
  <1>0. /\ form' = form /\ requests \in Seq(Requests) /\ Len(requests) \in Nat
        /\ DOMAIN requests = 1..Len(requests)
        /\ requests' \in Seq(Requests) /\ DOMAIN requests' = 1..Len(requests')
    BY CalmStays, TypeStep DEF TypeOK
  <1>1. CASE requests' = requests
    BY <1>0, <1>1 DEF AnswerIsOwn, InOrder, Stored
  <1>2. CASE requests' = <<>>
    <2>1. DOMAIN requests' = {}
      BY <1>2
    <2> QED
      BY <2>1 DEF AnswerIsOwn, InOrder
  <1>3. ASSUME NEW r \in Requests, r.step = "sent", requests' = Append(requests, r)
        PROVE  AnswerIsOwn' /\ InOrder'
    <2>1. /\ Len(requests') = Len(requests) + 1 /\ requests'[Len(requests) + 1] = r
          /\ \A k \in 1..Len(requests) : requests'[k] = requests[k]
      BY <1>0, <1>3, Appended
    <2>2. \A k \in 1..Len(requests') : requests'[k].step # "sent" => k \in 1..Len(requests)
      BY <1>0, <1>3, <2>1
    <2> QED
      BY <1>0, <1>3, <2>1, <2>2 DEF AnswerIsOwn, InOrder, Stored
  <1>4. ASSUME NEW i \in DOMAIN requests, Store(i) \/ Reply(i) PROVE AnswerIsOwn' /\ InOrder'
    <2>1. /\ Len(requests') = Len(requests)
          /\ \A k \in DOMAIN requests : requests'[k].text = requests[k].text
          /\ \A k \in DOMAIN requests : k # i => requests'[k] = requests[k]
          /\ Store(i) => requests'[i].step = "stored"
          /\ Reply(i) => requests'[i].step = "replied" /\ requests'[i].reply = server
      BY <1>4, Progress
    <2>2. AnswerIsOwn'
      <3>1. Reply(i) => server = Stored(requests[i].text)
        BY DEF Reply
      <3> QED
        BY <1>0, <1>4, <2>1, <3>1 DEF AnswerIsOwn, Stored
    <2>3. InOrder'
      <3>1. \A k \in 1..i - 1 : requests[k].step # "sent"
        <4>1. CASE Store(i)
          BY <4>1 DEF Store
        <4>2. CASE Reply(i)
          BY <1>0, <4>2 DEF Reply, InOrder
        <4> QED
          BY <1>4, <4>1, <4>2
      <3> QED
        BY <1>0, <1>4, <2>1, <3>1 DEF InOrder
    <2> QED
      BY <2>2, <2>3
  <1>5. CASE Shrinks
    <2>1. \A k \in DOMAIN requests' : k + 1 \in DOMAIN requests /\ requests'[k] = requests[k + 1]
      BY <1>0, <1>5 DEF Shrinks
    <2> QED
      BY <1>0, <2>1 DEF AnswerIsOwn, InOrder, Stored
  <1> QED
    BY <1>1, <1>2, <1>3, <1>4, <1>5, CalmLists

\* An answer leaves the draft alone, or puts there what the server made of the very text
\* that was sent.
THEOREM EditsSurvive == Spec => EditSurvivesAnswers
  <1> DEFINE Lists == TypeOK /\ (calm => AnswerIsOwn /\ InOrder)
  <1>1. ASSUME Lists, NEW i \in DOMAIN requests, AnswerLands(i)
        PROVE  draft' \in {draft, Stored(draft)} \/ ~calm'
    <2> SUFFICES ASSUME calm' PROVE draft' \in {draft, Stored(draft)}
      OBVIOUS
    <2>1. Next
      BY <1>1 DEF Next, Answered
    <2>2. requests[i].reply = Stored(requests[i].text)
      BY <1>1, <2>1, CalmStays DEF AnswerLands, AnswerIsOwn
    <2>3. ~TakesBack(requests[i])
      BY <1>1 DEF AnswerLands
    <2> QED
      BY <1>1, <2>2, <2>3 DEF AnswerLands, SettingsAnswer, finish_auto_save, mark_saved, Again,
                              TakesBack
  <1>2. ASSUME Lists, UNCHANGED vars
        PROVE  Lists' /\ \A i \in DOMAIN requests : AnswerLands(i) => draft' = draft
    BY <1>2 DEF vars, fields, history, TypeOK, AnswerIsOwn, InOrder, Stored
  <1>3. Init => Lists
    BY TypeInit DEF SaveInv, CalmInv
  <1>4. Lists /\ Next => Lists'
    BY TypeStep, CalmStays, ListsStep
  <1>5. Lists /\ [Next]_vars => Lists'
    BY <1>2, <1>4
  <1>6. Lists /\ [Next]_vars =>
          \A i \in DOMAIN requests :
              AnswerLands(i) => draft' \in {draft, Stored(draft)} \/ ~calm'
    BY <1>1
  <1> QED
    BY <1>3, <1>5, <1>6, PTL DEF Spec, EditSurvivesAnswers

-----------------------------------------------------------------------------
(* What is stored in the end: the forms with a timer for each render *)

\* Nothing is under way, and all say the same.
LEMMA FieldAtRest ==
    ASSUME timers' = <<>>, requests' = <<>>, server' = typed', open' => typed' = draft'
    PROVE  FieldInv'
  BY DEF FieldInv, Pending

LEMMA FieldTypes ==
    ASSUME TypeOK, TypeOK'
    PROVE  /\ timers \in Seq(Timers) /\ requests \in Seq(Requests)
           /\ timers' \in Seq(Timers) /\ requests' \in Seq(Requests)
           /\ Len(timers) \in Nat /\ Len(requests) \in Nat
           /\ DOMAIN requests = 1..Len(requests) /\ DOMAIN timers = 1..Len(timers)
           /\ requests # <<>> => Len(requests) \in DOMAIN requests
           /\ timers # <<>> => Len(timers) \in DOMAIN timers
  BY DEF TypeOK

\* A request that is sent behind the others while no timer runs says what is typed.
LEMMA FieldSends ==
    ASSUME TypeOK, TypeOK', FieldInv, form' = form,
           NEW text \in Texts, NEW cap \in Renders, NEW fresh \in BOOLEAN, NEW kind \in Kinds,
           Send(text, cap, fresh, kind),
           timers' # <<>> => LastTimer'.text = typed',
           timers' = <<>> => text = typed' /\ (form = "basics" => fresh),
           open' => typed' = draft',
           form = "prose" => ~locked'
    PROVE  FieldInv'
  <1>1. /\ requests' = Append(requests, Request(kind, text, cap, fresh))
        /\ Request(kind, text, cap, fresh) \in Requests
        /\ Request(kind, text, cap, fresh).text = text
        /\ Request(kind, text, cap, fresh).fresh = fresh
        /\ Request(kind, text, cap, fresh).step = "sent"
    BY RequestType DEF Send
  <1>2. requests' # <<>> /\ LastRequest' = Request(kind, text, cap, fresh)
    BY <1>1, FieldTypes, Appended DEF LastRequest
  <1> QED
    BY <1>1, <1>2 DEF FieldInv, Pending

LEMMA FieldTypes2 ==
    ASSUME TypeOK, NEW t \in Texts
    PROVE  /\ Append(timers, [text |-> t, cap |-> Render]) # <<>>
           /\ Append(timers, [text |-> t, cap |-> Render])
                [Len(Append(timers, [text |-> t, cap |-> Render]))].text = t
  <1>1. [text |-> t, cap |-> Render] \in Timers /\ timers \in Seq(Timers)
    BY TextTypes DEF Timers, TypeOK
  <1> QED
    BY <1>1, Appended

LEMMA FieldTyped ==
    ASSUME TypeOK, TypeOK', LockedIsClosed, FieldInv, form # "settings", SendsWhatIsTyped,
           NEW t \in Texts, Type(t), calm'
    PROVE  FieldInv'
  <1>1. /\ open /\ ~locked /\ draft' = t /\ typed' = t
        /\ UNCHANGED <<form, open, locked, requests, server, saved>>
    BY DEF Type
  <1>2. IF t = saved THEN UNCHANGED <<timers, phase>> ELSE schedule(t)
    BY DEF Type, Revert, SendsWhatIsTyped
  <1>3. CASE t = saved
    <2>1. ~Pending /\ server = saved
      BY <1>3 DEF Type
    <2> QED
      BY <1>1, <1>2, <1>3, <2>1, FieldAtRest DEF Pending
  <1>4. CASE t # saved
    <2>1. timers' = Append(timers, [text |-> t, cap |-> Render])
      BY <1>2, <1>4 DEF schedule
    <2>2. timers' # <<>> /\ LastTimer'.text = t
      BY <2>1, FieldTypes2 DEF LastTimer
    <2> QED
      BY <1>1, <2>2 DEF FieldInv, Pending
  <1> QED
    BY <1>3, <1>4

LEMMA FieldFires ==
    ASSUME TypeOK, TypeOK', LockedIsClosed, FieldInv, SendsWhatIsTyped, FieldTimer, calm'
    PROVE  FieldInv'
  <1> DEFINE timer == Head(timers)
             fresh == DraftOf(timer.cap) = timer.text
  <1>1. /\ form # "settings" /\ timers # <<>> /\ timers' = Tail(timers) /\ ~locked
        /\ Send(timer.text, timer.cap, fresh, "save")
        /\ UNCHANGED <<form, handles, draft, open, locked, server, typed>>
    BY DEF FieldTimer, Dropped, Blocked
  <1>2. /\ timers \in Seq(Timers) /\ timer \in Timers /\ timer = timers[1]
        /\ Len(timers) \in Nat \ {0} /\ Len(Tail(timers)) = Len(timers) - 1
        /\ \A k \in 1..Len(timers) - 1 : Tail(timers)[k] = timers[k + 1]
    BY <1>1 DEF TypeOK
  <1>3. timer.text \in Texts /\ timer.cap \in Renders
    BY <1>2 DEF Timers
  <1>4. timers' # <<>> => LastTimer' = LastTimer
    BY <1>1, <1>2 DEF LastTimer
  <1>5. LastTimer.text = typed
    BY <1>1 DEF FieldInv
  <1>6. timers' = <<>> => timer.text = typed
    <2>1. timers' = <<>> => Len(timers) = 1
      BY <1>1, <1>2
    <2> QED
      BY <1>2, <1>5, <2>1 DEF LastTimer
  <1>7. form = "basics" /\ timers' = <<>> => fresh
    <2>1. form = "basics" => typed = draft /\ handles # "render"
      BY DEF LockedIsClosed, FieldInv, SendsWhatIsTyped
    <2> QED
      BY <1>6, <2>1 DEF DraftOf
  <1>8. fresh \in BOOLEAN /\ "save" \in Kinds
    BY DEF Kinds
  <1>9. open' => typed' = draft'
    BY <1>1 DEF FieldInv
  <1> HIDE DEF timer, fresh
  <1> QED
    BY <1>1, <1>3, <1>4, <1>5, <1>6, <1>7, <1>8, <1>9, FieldSends

LEMMA FieldEditor ==
    ASSUME TypeOK, TypeOK', LockedIsClosed, LockedIsClosed', FieldInv, OpenEditor \/ CloseEditor, calm'
    PROVE  FieldInv'
  <1>1. CASE OpenEditor
    <2>1. /\ form = "prose" /\ ~Pending /\ draft = server
          /\ UNCHANGED <<form, draft, timers, requests, server, typed, phase, locked>>
      BY <1>1 DEF OpenEditor
    <2>2. server = typed
      BY <2>1 DEF FieldInv
    <2> QED
      BY <2>1, <2>2, FieldAtRest DEF Pending
  <1>2. CASE CloseEditor
    <2>1. /\ form = "prose" /\ open /\ ~open' /\ ~locked /\ typed = draft
          /\ UNCHANGED <<form, locked, timers, server, typed>>
      BY <1>2 DEF CloseEditor, Closed, LockedIsClosed, FieldInv
    <2>2. CASE draft = saved
      <3>1. UNCHANGED <<phase, requests>>
        BY <1>2, <2>2 DEF CloseEditor
      <3> QED
        BY <2>1, <3>1 DEF FieldInv, Pending, LastTimer, LastRequest
    <2>3. CASE draft # saved
      <3>1. \A first \in {draft = shown, TRUE} : first \in BOOLEAN
        OBVIOUS
      <3>2. PICK first \in BOOLEAN : Send(draft, Render, first, "flush")
        BY <1>2, <2>3, <3>1 DEF CloseEditor
      <3>3. timers' # <<>> => LastTimer'.text = typed'
        BY <2>1 DEF FieldInv, LastTimer
      <3>4. draft \in Texts /\ Render \in Renders /\ "flush" \in Kinds
        BY TextTypes DEF TypeOK, Kinds
      <3> QED
        BY <2>1, <3>2, <3>3, <3>4, FieldSends
    <2> QED
      BY <2>2, <2>3
  <1> QED
    BY <1>1, <1>2

LEMMA FieldJob ==
    ASSUME TypeOK, TypeOK', LockedIsClosed, FieldInv, JobSeen \/ JobGone, calm'
    PROVE  FieldInv'
  <1>1. CASE JobSeen
    <2>1. /\ form # "settings"
          /\ UNCHANGED <<form, timers, requests, server, typed>>
          /\ form = "prose" => ~Pending /\ (open' => FALSE)
          /\ form # "prose" => UNCHANGED <<open, draft>>
          /\ phase = "failed" => phase' = "failed"
      BY <1>1 DEF JobSeen, Closed, TypeOK
    <2> QED
      BY <2>1 DEF FieldInv, Pending, LastTimer, LastRequest
  <1>2. CASE JobGone
    <2>1. /\ locked /\ form # "settings" /\ (form = "prose" => ~open /\ ~Pending)
          /\ UNCHANGED <<form, draft, phase, open, timers, requests>> /\ ~locked'
      BY <1>2 DEF JobGone, LockedIsClosed, FieldInv
    <2>2. CASE form = "prose"
      <3>1. server' = typed' /\ ~open'
        BY <1>2, <2>1, <2>2 DEF JobGone
      <3> QED
        BY <2>1, <2>2, <3>1, FieldAtRest DEF Pending
    <2>3. CASE form # "prose"
      <3>1. UNCHANGED <<server, typed>>
        BY <1>2, <2>3 DEF JobGone
      <3> QED
        BY <2>1, <3>1 DEF FieldInv, Pending, LastTimer, LastRequest
    <2> QED
      BY <2>2, <2>3
  <1> QED
    BY <1>1, <1>2

LEMMA FieldStored ==
    ASSUME TypeOK, TypeOK', FieldInv, InOrder, form # "settings",
           NEW i \in DOMAIN requests, Save(requests[i]), Store(i) \/ Reply(i), calm'
    PROVE  FieldInv'
  <1>1. /\ requests' \in Seq(Requests) /\ Len(requests') = Len(requests)
        /\ requests'[Len(requests)].text = requests[Len(requests)].text
        /\ requests'[Len(requests)].fresh = requests[Len(requests)].fresh
        /\ i # Len(requests) => requests'[Len(requests)] = requests[Len(requests)]
    BY Progress, FieldTypes
  <1>2. UNCHANGED <<form, open, draft, typed, timers, locked>>
    BY DEF Store, Reply, fields
  <1>3. requests # <<>> /\ requests' # <<>> /\ i <= Len(requests) /\ i \in Nat
    BY <1>1, FieldTypes
  <1>4. timers = <<>> /\ LastRequest'.step # "sent" => server' = typed
    <2>1. CASE Reply(i)
      <3>1. server' = server /\ requests[i].step # "sent"
        BY <2>1 DEF Reply
      <3> QED
        BY <1>1, <1>3, <3>1 DEF FieldInv, LastRequest
    <2>2. CASE Store(i)
      <3>1. server' = requests[i].text /\ requests[i].step = "sent"
        BY <2>2 DEF Store, Stored, Save
      <3>2. requests[Len(requests)].step # "sent" => i = Len(requests)
        BY <1>3, <3>1, FieldTypes DEF InOrder
      <3> QED
        BY <1>1, <1>3, <3>1, <3>2 DEF FieldInv, LastRequest
    <2> QED
      BY <2>1, <2>2
  <1> QED
    BY <1>1, <1>2, <1>3, <1>4 DEF FieldInv, LastRequest, LastTimer, Pending

LEMMA FieldLands ==
    ASSUME TypeOK, TypeOK', FieldInv, form # "settings",
           NEW i \in DOMAIN requests, AnswerLands(i) \/ RequestFails(i), calm'
    PROVE  FieldInv'
  <1>1. i = 1 /\ Shrinks /\ Len(requests) \in Nat \ {0}
    BY CalmRemoval
  <1>2. UNCHANGED <<form, open, draft, typed, timers, locked, server>>
    BY DEF AnswerLands, RequestFails, SettingsAnswer, finish_auto_save, SettingsFailure, fail_auto_save
  <1>3. requests # <<>> /\ Pending
    BY <1>1, FieldTypes DEF Pending
  <1>4. requests' # <<>> => LastRequest' = LastRequest
    BY <1>1, FieldTypes DEF Shrinks, LastRequest
  <1>5. timers = <<>> /\ requests' = <<>> =>
            server = typed \/ (form = "basics" /\ phase' = "failed")
    <2> SUFFICES ASSUME timers = <<>>, requests' = <<>>
                 PROVE  server = typed \/ (form = "basics" /\ phase' = "failed")
      OBVIOUS
    <2>1. LastRequest = requests[i]
      <3>1. Len(requests') = 0
        OBVIOUS
      <3>2. Len(requests) = 1
        BY <1>1, <3>1 DEF Shrinks
      <3> QED
        BY <1>1, <3>2 DEF LastRequest
    <2>2. CASE AnswerLands(i)
      <3>1. LastRequest.step # "sent"
        BY <2>1, <2>2 DEF AnswerLands
      <3> QED
        BY <1>3, <3>1 DEF FieldInv
    <2>3. CASE RequestFails(i)
      <3>1. form = "basics"
        BY <2>3, FormsAssumption DEF RequestFails, TypeOK
      <3>2. LastRequest.fresh
        BY <1>3, <3>1 DEF FieldInv
      <3> QED
        BY <2>1, <2>3, <3>1, <3>2 DEF RequestFails, SettingsFailure, fail_auto_save
    <2> QED
      BY <2>2, <2>3
  <1> QED
    BY <1>2, <1>3, <1>4, <1>5 DEF FieldInv, LastTimer, Pending

LEMMA FieldStep ==
    ASSUME TypeOK, LockedIsClosed, InOrder, FieldInv, Next, calm',
           form # "settings", SendsWhatIsTyped, \A i \in DOMAIN requests : Save(requests[i])
    PROVE  FieldInv'
  <1>1. TypeOK' /\ LockedIsClosed'
    BY TypeStep, LockStep
  <1>2. CASE SettingsTimer \/ HideTab \/ Switch
    BY <1>2 DEF SettingsTimer, HideTab, Switch
  <1>3. CASE Reload
    BY <1>3, FieldAtRest DEF Reload
  <1> QED
    BY <1>1, <1>2, <1>3, FieldTyped, FieldFires, FieldEditor, FieldJob, FieldStored, FieldLands
    DEF Next, Answered

-----------------------------------------------------------------------------
(* What is stored in the end: the settings *)

LEMMA SettingsTypes ==
    ASSUME TypeOK, form = "settings"
    PROVE  /\ requests \in Seq(Requests) /\ DOMAIN requests = 1..Len(requests)
           /\ timers \in Seq(Timers) /\ DOMAIN timers = 1..Len(timers)
           /\ Len(requests) \in Nat
           /\ draft \in Nat /\ saved \in Nat /\ server \in Nat /\ typed \in Nat
           /\ \A i \in DOMAIN requests : requests[i] \in Requests /\ requests[i].text \in Nat
           /\ \A t \in Nat : Stored(t) \in Nat /\ Stored(t) >= 1 /\ Stored(Stored(t)) = Stored(t)
           /\ \A t \in Nat : t >= 1 => Stored(t) = t
  <1>1. /\ requests \in Seq(Requests) /\ timers \in Seq(Timers)
        /\ \A i \in DOMAIN requests : requests[i] \in Requests
    BY DEF TypeOK
  <1>2. \A i \in DOMAIN requests : requests[i].text \in Nat
    BY <1>1, TextsAssumption DEF Requests
  <1>3. draft \in Nat /\ saved \in Nat /\ server \in Nat /\ typed \in Nat
    BY TextsAssumption DEF TypeOK
  <1>4. ASSUME NEW t \in Nat
        PROVE  /\ Stored(t) \in Nat /\ Stored(t) >= 1 /\ Stored(Stored(t)) = Stored(t)
               /\ t >= 1 => Stored(t) = t
    BY DEF Stored
  <1>5. /\ DOMAIN requests = 1..Len(requests) /\ DOMAIN timers = 1..Len(timers)
        /\ Len(requests) \in Nat
    BY <1>1
  <1> QED
    BY <1>1, <1>2, <1>3, <1>4, <1>5

\* The first request is gone, and the others have moved up.
LEMMA MovedUp ==
    ASSUME TypeOK, TypeOK', Shrinks
    PROVE  /\ DOMAIN requests' = 1..Len(requests) - 1 /\ DOMAIN requests = 1..Len(requests)
           /\ Len(requests) \in Nat \ {0} /\ 1 \in DOMAIN requests
           /\ \A k \in DOMAIN requests' :
                k \in Nat /\ k + 1 \in DOMAIN requests /\ requests'[k] = requests[k + 1]
           /\ \A k \in DOMAIN requests' : \E l \in DOMAIN requests : requests'[k] = requests[l]
  <1>1. /\ requests \in Seq(Requests) /\ requests' \in Seq(Requests) /\ requests # <<>>
        /\ Len(requests') = Len(requests) - 1
    BY DEF TypeOK, Shrinks
  <1>2. /\ DOMAIN requests' = 1..Len(requests) - 1 /\ DOMAIN requests = 1..Len(requests)
        /\ Len(requests) \in Nat \ {0} /\ 1 \in DOMAIN requests
    BY <1>1
  <1>3. \A k \in DOMAIN requests' : k \in Nat /\ k + 1 \in DOMAIN requests
    BY <1>2
  <1>4. \A k \in DOMAIN requests' : requests'[k] = requests[k + 1]
    BY <1>2 DEF Shrinks
  <1> QED
    BY <1>2, <1>3, <1>4

\* Nothing is under way, and all say the same.
LEMMA SettingsAtRest ==
    ASSUME timers' = <<>>, requests' = <<>>, form' = "settings",
           saved' \in Nat, saved' >= 1, server' = saved', draft' = saved',
           Stored(typed)' = Stored(draft)'
    PROVE  SettingsInv'
  <1>1. DOMAIN timers' = {} /\ DOMAIN requests' = {}
    OBVIOUS
  <1>2. CapsAreCurrent' /\ StoredIsLast'
    BY <1>1 DEF CapsAreCurrent, StoredIsLast
  <1>3. ~Unsent' /\ ~Pending'
    BY <1>1 DEF Unsent, Pending
  <1> QED
    BY <1>2, <1>3 DEF SettingsInv, DraftIsHeld

\* The one timer runs again over a draft that differs from last_saved.
LEMMA SettingsWait ==
    ASSUME TypeOK, TypeOK', SettingsInv, form = "settings", NEW cap \in Renders,
           handles = "render" => cap.saved = saved,
           timers' = <<[text |-> draft', cap |-> cap]>>, phase' = "debouncing", draft' # saved,
           Stored(typed') = Stored(draft'), requests' = requests \/ Shrinks,
           StoredIsLast', UNCHANGED <<form, handles, saved, server>>
    PROVE  SettingsInv'
  <1>1. CapsAreCurrent'
    <2>1. DOMAIN timers' = {1} /\ timers'[1].cap = cap
      OBVIOUS
    <2>2. \A k \in DOMAIN requests' : \E l \in DOMAIN requests : requests'[k] = requests[l]
      <3>1. CASE requests' = requests
        BY <3>1
      <3>2. CASE Shrinks
        BY <3>2, MovedUp
      <3> QED
        BY <3>1, <3>2
    <2> QED
      BY <2>1, <2>2 DEF SettingsInv, CapsAreCurrent
  <1> QED
    BY <1>1 DEF SettingsInv, DraftIsHeld, Stored

LEMMA ShorterIsLast ==
    ASSUME TypeOK, TypeOK', form = "settings", UNCHANGED <<form, saved, server>>, StoredIsLast, InOrder,
           Shrinks, Save(requests[1])
    PROVE  StoredIsLast' /\ \A k \in DOMAIN requests' : Save(requests'[k])
  <1>1. /\ \A k \in DOMAIN requests' :
             k \in Nat /\ k + 1 \in DOMAIN requests /\ requests'[k] = requests[k + 1]
        /\ 1 \in DOMAIN requests
    BY MovedUp
  <1>2. ASSUME NEW k \in DOMAIN requests PROVE Save(requests[k])
    <2>1. k = 1 \/ 1 < k
      BY MovedUp
    <2> QED
      BY <1>1, <2>1 DEF StoredIsLast
  <1>3. \A k \in DOMAIN requests' : Save(requests'[k])
    BY <1>1, <1>2
  <1>4. ASSUME NEW k \in DOMAIN requests', requests'[k].step # "sent",
               \A j \in DOMAIN requests' : k < j => requests'[j].step = "sent"
        PROVE  server = Stored(requests'[k].text)
    <2>1. ASSUME NEW j \in DOMAIN requests, k + 1 < j PROVE requests[j].step = "sent"
      <3>1. k < j - 1 /\ j - 1 \in DOMAIN requests' /\ j - 1 + 1 = j
        BY <1>1, <2>1, MovedUp
      <3>2. requests'[j - 1] = requests[j]
        BY <1>1, <3>1
      <3> QED
        BY <1>4, <3>1, <3>2
    <2> QED
      BY <1>1, <1>2, <1>4, <2>1 DEF StoredIsLast
  <1> QED
    BY <1>3, <1>4 DEF StoredIsLast, Stored, Save

LEMMA SettingsTyped ==
    ASSUME TypeOK, TypeOK', SettingsInv, form = "settings", NEW t \in Texts, Type(t), calm'
    PROVE  SettingsInv'
  <1>1. /\ draft' = t /\ typed' = t
        /\ UNCHANGED <<form, handles, requests, server, saved>>
        /\ IF t = saved THEN Revert ELSE schedule_save(t, Render)
    BY DEF Type
  <1>2. CASE t = saved
    <2>1. ~Pending /\ server = saved /\ timers' = <<>>
      BY <1>1, <1>2 DEF Type, Revert
    <2> QED
      BY <1>1, <1>2, <2>1, SettingsAtRest, SettingsTypes DEF Pending, SettingsInv, DraftIsHeld, Stored
  <1>3. CASE t # saved
    <2>1. timers' = <<[text |-> t, cap |-> Render]>> /\ phase' = "debouncing"
      BY <1>1, <1>3 DEF schedule_save
    <2>2. Render \in Renders /\ (handles = "render" => Render.saved = saved)
      BY TextTypes DEF Render
    <2>3. StoredIsLast'
      BY <1>1 DEF SettingsInv, StoredIsLast, Stored, Save
    <2> QED
      BY <1>1, <1>3, <2>1, <2>2, <2>3, SettingsWait
  <1> QED
    BY <1>2, <1>3

\* A save goes behind the requests under way and takes the timer with it.
LEMMA SettingsSends ==
    ASSUME TypeOK, TypeOK', SettingsInv, form = "settings", NEW cap \in Renders,
           handles = "render" => cap.saved = saved, draft # saved, timers' = <<>>,
           Send(draft, cap, TRUE, "save"), UNCHANGED <<form, handles, draft, saved, server, typed>>
    PROVE  SettingsInv'
  <1> DEFINE r == Request("save", draft, cap, TRUE)
  <1>1. r \in Requests /\ r.kind = "save" /\ r.text = draft /\ r.cap = cap /\ r.step = "sent"
    <2>1. \A fresh \in BOOLEAN : LET q == Request("save", draft, cap, fresh)
                                IN  /\ q \in Requests /\ q.kind = "save" /\ q.text = draft
                                    /\ q.cap = cap /\ q.step = "sent"
      BY RequestType DEF TypeOK, Kinds
    <2>2. TRUE \in BOOLEAN
      OBVIOUS
    <2> QED
      BY <2>1, <2>2
  <1>2. requests' = Append(requests, r) /\ phase' = "saving"
    BY DEF Send
  <1> HIDE DEF r
  <1>3. /\ Len(requests') = Len(requests) + 1 /\ requests'[Len(requests) + 1] = r
        /\ \A k \in 1..Len(requests) : requests'[k] = requests[k]
        /\ DOMAIN requests' = 1..Len(requests) + 1 /\ DOMAIN requests = 1..Len(requests)
        /\ Len(requests) \in Nat
    BY <1>1, <1>2, SettingsTypes, Appended
  <1>4. \A k \in DOMAIN requests' : k \in DOMAIN requests \/ (k = Len(requests) + 1 /\ Save(requests'[k]))
    BY <1>1, <1>3 DEF Save
  <1>5. CapsAreCurrent'
    <2>1. DOMAIN timers' = {}
      OBVIOUS
    <2> QED
      BY <1>1, <1>3, <2>1 DEF SettingsInv, CapsAreCurrent
  <1>6. DraftIsHeld'
    BY <1>2 DEF SettingsInv, DraftIsHeld, Stored
  <1>7. StoredIsLast'
    <2>1. \A i, j \in DOMAIN requests' : i < j /\ ~Save(requests'[j]) => ~Save(requests'[i])
      BY <1>3, <1>4 DEF SettingsInv, StoredIsLast, Save
    <2>2. \A i \in DOMAIN requests' : ~Save(requests'[i]) => requests'[i].text = saved
      BY <1>3, <1>4 DEF SettingsInv, StoredIsLast, Save
    <2>3. ASSUME NEW i \in DOMAIN requests', Save(requests'[i]), requests'[i].step # "sent",
                 \A j \in DOMAIN requests' : i < j => requests'[j].step = "sent"
          PROVE  server = Stored(requests'[i].text)
      BY <1>1, <1>3, <2>3 DEF SettingsInv, StoredIsLast, Save
    <2>4. ASSUME \E i \in DOMAIN requests' : ~Save(requests'[i]),
                 \A i \in DOMAIN requests' : Save(requests'[i]) => requests'[i].step = "sent"
          PROVE  server = saved
      BY <1>3, <1>4, <2>4 DEF SettingsInv, StoredIsLast, Save
    <2> QED
      BY <2>1, <2>2, <2>3, <2>4 DEF StoredIsLast, Stored, Save
  <1> QED
    BY <1>5, <1>6, <1>7 DEF SettingsInv

LEMMA SettingsFires ==
    ASSUME TypeOK, TypeOK', SettingsInv, form = "settings", SettingsTimer \/ HideTab, calm'
    PROVE  SettingsInv'
  <1>1. UNCHANGED <<form, handles, draft, saved, server, typed>> /\ timers' = <<>>
    BY DEF SettingsTimer, HideTab
  <1>2. CASE SettingsTimer
    <2> DEFINE cap == Head(timers).cap
    <2>1. timers # <<>> /\ timers \in Seq(Timers) /\ 1 \in DOMAIN timers /\ Head(timers) = timers[1]
      BY <1>2 DEF SettingsTimer, TypeOK
    <2>2. cap \in Renders /\ (handles = "render" => cap.saved = saved)
      <3>1. timers[1] \in Timers
        BY <2>1
      <3>2. cap = timers[1].cap
        BY <2>1
      <3> QED
        BY <2>1, <3>1, <3>2 DEF Timers, SettingsInv, CapsAreCurrent
    <2>3. draft # saved /\ SavedOf(cap) = saved
      BY <2>1, <2>2 DEF SettingsInv, DraftIsHeld, Unsent, SavedOf
    <2>4. run_save(cap)
      BY <1>2 DEF SettingsTimer
    <2> HIDE DEF cap
    <2>5. Send(draft, cap, TRUE, "save")
      BY <2>3, <2>4 DEF run_save
    <2> QED
      BY <1>1, <2>2, <2>3, <2>5, SettingsSends
  <1>3. CASE HideTab
    <2>1. run_save(Render) /\ draft # saved /\ handles = "latest"
      BY <1>3 DEF HideTab
    <2>2. Send(draft, Render, TRUE, "save")
      BY <2>1 DEF run_save, SavedOf
    <2> QED
      BY <1>1, <2>1, <2>2, TextTypes, SettingsSends
  <1> QED
    BY <1>2, <1>3

LEMMA SettingsSwitch ==
    ASSUME TypeOK, TypeOK', SettingsInv, form = "settings", Switch, calm'
    PROVE  SettingsInv'
  <1> DEFINE r == Request("switch", draft, Render, TRUE)
  <1>1. /\ r \in Requests /\ r.kind = "switch" /\ r.text = draft /\ r.cap = Render
        /\ r.step = "sent"
    <2>1. \A fresh \in BOOLEAN : LET q == Request("switch", draft, Render, fresh)
                                IN  /\ q \in Requests /\ q.kind = "switch" /\ q.text = draft
                                    /\ q.cap = Render /\ q.step = "sent"
      BY RequestType, TextTypes DEF TypeOK, Kinds
    <2>2. TRUE \in BOOLEAN
      OBVIOUS
    <2> QED
      BY <2>1, <2>2
  <1>2. /\ requests' = Append(requests, r) /\ phase' = "saving" /\ timers' = <<>> /\ draft = saved
        /\ UNCHANGED <<form, handles, draft, saved, server, typed>>
    BY DEF Switch
  <1>3. server = saved /\ ~Unsent
    BY <1>2 DEF SettingsInv, DraftIsHeld
  <1> HIDE DEF r
  <1>4. /\ Len(requests') = Len(requests) + 1 /\ requests'[Len(requests) + 1] = r
        /\ \A k \in 1..Len(requests) : requests'[k] = requests[k]
        /\ DOMAIN requests' = 1..Len(requests) + 1 /\ DOMAIN requests = 1..Len(requests)
        /\ Len(requests) \in Nat
    BY <1>1, <1>2, SettingsTypes, Appended
  <1>5. \A k \in DOMAIN requests' :
          /\ ~Save(requests'[k]) /\ requests'[k].text = saved
          /\ handles = "render" => requests'[k].cap.saved = saved
    <2>1. \A k \in DOMAIN requests : ~Save(requests[k])
      BY <1>3 DEF Unsent
    <2>2. handles = "render" => Render.saved = saved
      BY DEF Render
    <2> QED
      BY <1>1, <1>2, <1>4, <2>1, <2>2 DEF Save, SettingsInv, StoredIsLast, CapsAreCurrent
  <1>6. DOMAIN timers' = {}
    BY <1>2
  <1> QED
    BY <1>2, <1>3, <1>5, <1>6
    DEF SettingsInv, CapsAreCurrent, DraftIsHeld, StoredIsLast, Stored, Unsent, Save, Pending

LEMMA SettingsStored ==
    ASSUME TypeOK, TypeOK', SettingsInv, InOrder, InOrder', form = "settings",
           NEW i \in DOMAIN requests, Store(i) \/ Reply(i), calm'
    PROVE  SettingsInv'
  <1>1. /\ Len(requests') = Len(requests)
        /\ \A k \in DOMAIN requests :
             /\ requests'[k].text = requests[k].text /\ requests'[k].cap = requests[k].cap
             /\ Save(requests'[k]) = Save(requests[k])
             /\ k # i => requests'[k].step = requests[k].step
        /\ Store(i) => requests'[i].step = "stored"
        /\ Reply(i) => requests'[i].step = "replied"
    BY Progress DEF Save
  <1>2. /\ UNCHANGED <<form, handles, draft, saved, phase, typed, timers>>
        /\ DOMAIN requests' = DOMAIN requests /\ DOMAIN requests = 1..Len(requests)
        /\ Len(requests) \in Nat
    BY <1>1, SettingsTypes, TypeStep DEF Store, Reply, fields, TypeOK
  <1>3. CapsAreCurrent'
    BY <1>1, <1>2 DEF SettingsInv, CapsAreCurrent
  <1>4. CASE Reply(i)
    <2>1. server' = server /\ requests[i].step = "stored"
      BY <1>4 DEF Reply
    <2>2. \A k \in DOMAIN requests : requests'[k].step = "sent" <=> requests[k].step = "sent"
      BY <1>1, <1>4, <2>1
    <2>3. StoredIsLast'
      <3>1. \A k, j \in DOMAIN requests' : k < j /\ ~Save(requests'[j]) => ~Save(requests'[k])
        BY <1>1, <1>2 DEF SettingsInv, StoredIsLast
      <3>2. \A k \in DOMAIN requests' : ~Save(requests'[k]) => requests'[k].text = saved
        BY <1>1, <1>2 DEF SettingsInv, StoredIsLast
      <3>3. ASSUME NEW k \in DOMAIN requests', Save(requests'[k]), requests'[k].step # "sent",
                   \A j \in DOMAIN requests' : k < j => requests'[j].step = "sent"
            PROVE  server = Stored(requests'[k].text)
        BY <1>1, <1>2, <2>2, <3>3 DEF SettingsInv, StoredIsLast
      <3>4. ASSUME \E k \in DOMAIN requests' : ~Save(requests'[k]),
                   \A k \in DOMAIN requests' : Save(requests'[k]) => requests'[k].step = "sent"
            PROVE  server = saved
        BY <1>1, <1>2, <2>2, <3>4 DEF SettingsInv, StoredIsLast
      <3> QED
        BY <1>2, <2>1, <3>1, <3>2, <3>3, <3>4 DEF StoredIsLast, Stored, Save
    <2>4. DraftIsHeld'
      <3>1. (Unsent' => Unsent) /\ (Pending' => Pending) /\ (Pending => Pending')
        BY <1>1, <1>2, FieldTypes DEF Unsent, Pending
      <3> QED
        BY <1>2, <2>1, <3>1 DEF SettingsInv, DraftIsHeld, Stored
    <2> QED
      BY <1>3, <2>3, <2>4 DEF SettingsInv
  <1>5. CASE Store(i)
    <2>1. /\ requests[i].step = "sent"
          /\ server' = IF Save(requests[i]) THEN Stored(requests[i].text) ELSE server
      BY <1>5 DEF Store, Save
    <2>2. \A k \in DOMAIN requests : i < k => requests'[k].step = "sent"
      BY <1>1, <1>2, <2>1 DEF InOrder
    <2>3. \A k \in DOMAIN requests : k < i => requests'[k].step # "sent"
      BY <1>1, <1>2, <1>5 DEF InOrder
    <2>4. requests'[i].step # "sent"
      BY <1>1, <1>5
    <2>5. StoredIsLast'
      <3>1. \A k, j \in DOMAIN requests' : k < j /\ ~Save(requests'[j]) => ~Save(requests'[k])
        BY <1>1, <1>2 DEF SettingsInv, StoredIsLast
      <3>2. \A k \in DOMAIN requests' : ~Save(requests'[k]) => requests'[k].text = saved
        BY <1>1, <1>2 DEF SettingsInv, StoredIsLast
      <3>3. ASSUME NEW k \in DOMAIN requests', Save(requests'[k]), requests'[k].step # "sent",
                   \A j \in DOMAIN requests' : k < j => requests'[j].step = "sent"
            PROVE  server' = Stored(requests'[k].text)
        <4>1. k = i
          BY <1>2, <2>2, <2>4, <3>3
        <4> QED
          BY <1>1, <2>1, <3>3, <4>1
      <3>4. ASSUME NEW l \in DOMAIN requests', ~Save(requests'[l]),
                   \A k \in DOMAIN requests' : Save(requests'[k]) => requests'[k].step = "sent"
            PROVE  server' = saved
        <4>1. ~Save(requests[i])
          BY <1>1, <1>2, <2>4, <3>4
        <4>2. \A k \in DOMAIN requests : Save(requests[k]) => requests[k].step = "sent"
          BY <1>1, <1>2, <3>4, <4>1
        <4> QED
          BY <1>2, <2>1, <4>1, <4>2 DEF SettingsInv, StoredIsLast
      <3> QED
        BY <1>2, <3>1, <3>2, <3>3, <3>4 DEF StoredIsLast, Stored, Save
    <2>6. DraftIsHeld'
      <3>1. (Unsent' => Unsent) /\ (Pending' => Pending) /\ (Pending => Pending')
        BY <1>1, <1>2, FieldTypes DEF Unsent, Pending
      <3>2. server' >= 1 /\ server' \in Nat
        BY <2>1, SettingsTypes DEF SettingsInv, DraftIsHeld
      <3>3. draft = saved => server' = server
        BY <2>1 DEF SettingsInv, DraftIsHeld, Unsent
      <3> QED
        BY <1>2, <3>1, <3>2, <3>3 DEF SettingsInv, DraftIsHeld, Stored
    <2> QED
      BY <1>3, <2>5, <2>6 DEF SettingsInv
  <1> QED
    BY <1>4, <1>5

LEMMA SettingsLands ==
    ASSUME TypeOK, TypeOK', SettingsInv, InOrder, AnswerIsOwn, form = "settings",
           NEW i \in DOMAIN requests, AnswerLands(i), calm'
    PROVE  SettingsInv'
  <1> DEFINE r == requests[i]
  <1>1. i = 1 /\ Shrinks /\ Len(requests) \in Nat \ {0}
    BY CalmRemoval
  <1>2. /\ UNCHANGED <<form, handles, server, typed>> /\ r.step = "replied"
        /\ IF draft = r.text \/ r.kind = "switch" THEN mark_saved(r.reply) ELSE Again(r.cap)
        /\ ~Mistaken(i) /\ ~TakesBack(r)
    BY DEF AnswerLands, SettingsAnswer, finish_auto_save
  <1>3. /\ r \in Requests /\ r.reply = Stored(r.text) /\ r.text \in Nat
        /\ handles = "render" => r.cap.saved = saved
    BY <1>2, SettingsTypes DEF AnswerIsOwn, SettingsInv, CapsAreCurrent
  <1>4. CASE draft = r.text \/ r.kind = "switch"
    <2>1. draft' = r.reply /\ saved' = r.reply /\ timers' = <<>>
      BY <1>2, <1>4 DEF mark_saved
    <2>2. draft = r.text
      <3>1. CASE r.kind = "switch"
        <4>1. r.text = saved /\ draft = r.reply
          BY <1>2, <3>1 DEF TakesBack, SettingsInv, StoredIsLast, Save
        <4> QED
          BY <1>3, <4>1, SettingsTypes DEF SettingsInv, DraftIsHeld
      <3> QED
        BY <1>4, <3>1
    <2>3. Len(requests) = 1
      <3>1. ~(1 < Len(requests))
        BY <1>1, <1>2, <2>2 DEF Mistaken
      <3> QED
        BY <1>1, <3>1
    <2>4. DOMAIN requests = {1} /\ requests' = <<>>
      <3>1. Len(requests') = 0 /\ requests' \in Seq(Requests)
        BY <1>1, <2>3 DEF Shrinks, TypeOK
      <3> QED
        BY <2>3, <3>1, SettingsTypes
    <2>5. server = Stored(r.text)
      <3>1. CASE Save(r)
        BY <1>1, <1>2, <2>4, <3>1 DEF SettingsInv, StoredIsLast
      <3>2. CASE ~Save(r)
        <4>1. r.text = saved /\ server = saved
          BY <1>1, <2>4, <3>2 DEF SettingsInv, StoredIsLast
        <4> QED
          BY <4>1, SettingsTypes DEF SettingsInv, DraftIsHeld
      <3> QED
        BY <3>1, <3>2
    <2>6. Stored(typed)' = Stored(draft)'
      <3>1. Stored(typed) = Stored(draft) /\ Stored(draft) = r.reply /\ Stored(r.reply) = r.reply
        BY <1>3, <2>2, SettingsTypes DEF SettingsInv, DraftIsHeld
      <3> QED
        BY <1>2, <2>1, <3>1 DEF Stored
    <2>7. r.reply \in Nat /\ r.reply >= 1 /\ server' = r.reply
      BY <1>2, <1>3, <2>5, SettingsTypes
    <2> QED
      BY <1>2, <2>1, <2>4, <2>6, <2>7, SettingsAtRest
  <1>5. CASE ~(draft = r.text \/ r.kind = "switch")
    <2>1. Again(r.cap) /\ Save(r)
      BY <1>2, <1>5 DEF Save
    <2>2. draft # saved /\ SavedOf(r.cap) = saved
      BY <1>3, <2>1 DEF SettingsInv, DraftIsHeld, Unsent, SavedOf
    <2>3. /\ timers' = <<[text |-> draft, cap |-> r.cap]>> /\ phase' = "debouncing"
          /\ UNCHANGED <<draft, saved>>
      BY <2>1, <2>2 DEF Again, schedule_save
    <2>4. StoredIsLast'
      BY <1>1, <1>2, <2>1, <2>3, ShorterIsLast DEF SettingsInv
    <2>5. r.cap \in Renders /\ Stored(typed') = Stored(draft')
      BY <1>2, <1>3, <2>3 DEF Requests, SettingsInv, DraftIsHeld
    <2> HIDE DEF r
    <2> QED
      BY <1>1, <1>2, <1>3, <2>2, <2>3, <2>4, <2>5, SettingsWait
  <1> QED
    BY <1>4, <1>5

LEMMA SettingsFails ==
    ASSUME TypeOK, TypeOK', SettingsInv, InOrder, form = "settings",
           NEW i \in DOMAIN requests, RequestFails(i), calm'
    PROVE  SettingsInv'
  <1> DEFINE r == requests[i]
  <1>1. i = 1 /\ Shrinks /\ Len(requests) \in Nat \ {0}
    BY CalmRemoval
  <1>2. /\ UNCHANGED <<form, handles, server, typed>> /\ Save(r)
        /\ IF draft = r.text THEN phase' = "failed" /\ UNCHANGED <<draft, saved, timers>>
           ELSE Again(r.cap)
    BY DEF RequestFails, SettingsFailure, fail_auto_save, Save
  <1>3. r \in Requests /\ (handles = "render" => r.cap.saved = saved)
    BY SettingsTypes DEF SettingsInv, CapsAreCurrent
  <1>4. draft # saved /\ SavedOf(r.cap) = saved
    BY <1>2, <1>3 DEF SettingsInv, DraftIsHeld, Unsent, SavedOf
  <1>5. UNCHANGED <<draft, saved>>
    BY <1>2 DEF Again
  <1>6. StoredIsLast'
    BY <1>1, <1>2, <1>5, ShorterIsLast DEF SettingsInv
  <1>7. Stored(typed') = Stored(draft')
    BY <1>2, <1>5 DEF SettingsInv, DraftIsHeld
  <1>8. CASE draft = r.text
    <2>1. phase' = "failed" /\ UNCHANGED timers
      BY <1>2, <1>8
    <2>2. \A k \in DOMAIN requests' : \E l \in DOMAIN requests : requests'[k] = requests[l]
      BY <1>1, MovedUp
    <2>3. CapsAreCurrent'
      BY <1>2, <1>5, <2>1, <2>2 DEF SettingsInv, CapsAreCurrent
    <2>4. DraftIsHeld'
      BY <1>2, <1>4, <1>5, <1>7, <2>1 DEF SettingsInv, DraftIsHeld, Stored
    <2> QED
      BY <1>6, <2>3, <2>4 DEF SettingsInv
  <1>9. CASE draft # r.text
    <2>1. timers' = <<[text |-> draft, cap |-> r.cap]>> /\ phase' = "debouncing"
      BY <1>2, <1>4, <1>9 DEF Again, schedule_save
    <2>2. r.cap \in Renders
      BY <1>3 DEF Requests
    <2> HIDE DEF r
    <2> QED
      BY <1>1, <1>2, <1>3, <1>4, <1>5, <1>6, <1>7, <2>1, <2>2, SettingsWait
  <1> QED
    BY <1>8, <1>9

LEMMA SettingsStep ==
    ASSUME TypeOK, LockedIsClosed, InOrder, AnswerIsOwn, SettingsInv, Next, calm', form = "settings"
    PROVE  SettingsInv'
  <1>1. TypeOK'
    BY TypeStep
  <1>2. InOrder'
    BY ListsStep
  <1>3. ~FieldTimer /\ ~OpenEditor /\ ~CloseEditor /\ ~JobSeen /\ ~JobGone
    BY DEF FieldTimer, OpenEditor, CloseEditor, JobSeen, JobGone, LockedIsClosed
  <1>4. CASE Reload
    <2>1. /\ timers' = <<>> /\ requests' = <<>> /\ form' = form
          /\ draft' = server' /\ saved' = server' /\ typed' = server'
      BY <1>4 DEF Reload
    <2>2. PICK stored \in {server} \cup
                 {Stored(r.text) : r \in {q \in ToSet(requests) : q.step = "sent" /\ q.kind # "switch"}} :
            server' = stored
      BY <1>4 DEF Reload
    <2>3. \A r \in ToSet(requests) : r.text \in Nat
      BY SettingsTypes DEF ToSet
    <2>4. stored \in Nat /\ stored >= 1
      BY <2>2, <2>3, SettingsTypes DEF SettingsInv, DraftIsHeld
    <2> QED
      BY <2>1, <2>2, <2>4, SettingsAtRest DEF Stored
  <1> QED
    BY <1>1, <1>2, <1>3, <1>4, SettingsTyped, SettingsFires, SettingsSwitch, SettingsStored,
       SettingsLands, SettingsFails
    DEF Next, Answered

-----------------------------------------------------------------------------
(* All forms together *)

\* Only the settings switch connections.
LEMMA KindStep ==
    ASSUME TypeOK, Next, form # "settings", \A i \in DOMAIN requests : Save(requests[i])
    PROVE  form' # "settings" /\ \A i \in DOMAIN requests' : Save(requests'[i])
  <1>0. /\ requests \in Seq(Requests) /\ DOMAIN requests = 1..Len(requests)
        /\ requests' \in Seq(Requests) /\ DOMAIN requests' = 1..Len(requests')
    BY TypeStep DEF TypeOK
  <1>1. ASSUME requests' = requests PROVE \A i \in DOMAIN requests' : Save(requests'[i])
    BY <1>1
  <1>2. ASSUME NEW t, NEW cap, NEW fresh, NEW kind \in {"save", "flush"}, Send(t, cap, fresh, kind)
        PROVE  \A i \in DOMAIN requests' : Save(requests'[i])
    <2> DEFINE r == Request(kind, t, cap, fresh)
    <2>1. requests' = Append(requests, r)
      BY <1>2 DEF Send
    <2>2. Save(r)
      BY DEF Save, Request
    <2>3. requests \in Seq(Requests \cup {r}) /\ r \in Requests \cup {r}
      BY <1>0
    <2> HIDE DEF r
    <2>4. /\ Len(requests') = Len(requests) + 1 /\ requests'[Len(requests) + 1] = r
          /\ \A k \in 1..Len(requests) : requests'[k] = requests[k]
          /\ Len(requests) \in Nat
      BY <2>1, <2>3, Appended
    <2>5. \A k \in DOMAIN requests' : k \in DOMAIN requests \/ k = Len(requests) + 1
      BY <1>0, <2>4
    <2> QED
      BY <1>0, <2>2, <2>4, <2>5 DEF Save
  <1>3. ASSUME NEW t \in Texts, Type(t) PROVE form' = form /\ requests' = requests
    BY <1>3 DEF Type
  <1>4. CASE FieldTimer
    <2>1. form' = form
      BY <1>4 DEF FieldTimer
    <2> QED
      BY <1>1, <1>2, <1>4, <2>1 DEF FieldTimer, Dropped
  <1>5. CASE SettingsTimer \/ HideTab \/ Switch
    BY <1>5 DEF SettingsTimer, HideTab, Switch
  <1>6. CASE OpenEditor \/ JobSeen \/ JobGone
    BY <1>1, <1>6 DEF OpenEditor, JobSeen, JobGone
  <1>7. CASE CloseEditor
    <2>1. form' = form
      BY <1>7 DEF CloseEditor
    <2> QED
      BY <1>1, <1>2, <1>7, <2>1 DEF CloseEditor
  <1>8. ASSUME NEW i \in DOMAIN requests, Store(i) \/ Reply(i)
        PROVE  form' = form /\ \A k \in DOMAIN requests' : Save(requests'[k])
    <2>1. Len(requests') = Len(requests) /\ \A k \in DOMAIN requests : requests'[k].kind = requests[k].kind
      BY <1>8, Progress
    <2>2. DOMAIN requests' = DOMAIN requests
      BY <1>0, <2>1
    <2>3. form' = form
      BY <1>8 DEF Store, Reply
    <2> QED
      BY <2>1, <2>2, <2>3 DEF Save
  <1>9. ASSUME NEW i \in DOMAIN requests, AnswerLands(i) \/ RequestFails(i)
        PROVE  form' = form /\ \A k \in DOMAIN requests' : Save(requests'[k])
    <2>1. form' = form /\ requests' = RemoveAt(requests, i) /\ i \in 1..Len(requests)
      BY <1>0, <1>9 DEF AnswerLands, RequestFails
    <2>2. Len(requests') = Len(requests) - 1
      BY <1>0, <2>1, Removed
    <2>3. \A k \in DOMAIN requests' : \E l \in DOMAIN requests : requests'[k] = requests[l]
      <3>1. \A k \in 1..Len(requests) - 1 : \E l \in 1..Len(requests) :
               RemoveAt(requests, i)[k] = requests[l]
        <4>1. requests \in Seq(Requests) /\ i \in 1..Len(requests)
          BY <1>0, <2>1
        <4> HIDE DEF Requests
        <4> QED
          BY <4>1, Kept, ZenonT(60)
      <3>2. DOMAIN requests' = 1..Len(requests) - 1
        BY <1>0, <2>2
      <3> QED
        BY <1>0, <2>1, <3>1, <3>2
    <2> QED
      BY <2>1, <2>3
  <1>10. CASE Reload
    <2>1. DOMAIN requests' = {} /\ form' = form
      BY <1>10 DEF Reload
    <2> QED
      BY <2>1
  <1> QED
    BY <1>1, <1>3, <1>4, <1>5, <1>6, <1>7, <1>8, <1>9, <1>10 DEF Next, Answered

LEMMA SaveStep == SaveInv /\ [Next]_vars => SaveInv'
  <1> SUFFICES ASSUME SaveInv, [Next]_vars PROVE SaveInv'
    OBVIOUS
  <1>0. /\ TypeOK /\ LockedIsClosed /\ CalmInv
        /\ form # "settings" => \A i \in DOMAIN requests : Save(requests[i])
    BY DEF SaveInv
  <1>1. CASE Next
    <2>1. TypeOK' /\ LockedIsClosed'
      BY <1>0, <1>1, TypeStep, LockStep
    <2>2. form' = form
      <3>1. ASSUME NEW t \in Texts, Type(t) PROVE form' = form
        BY <3>1 DEF Type
      <3>2. ASSUME NEW i \in DOMAIN requests,
                   Store(i) \/ Reply(i) \/ AnswerLands(i) \/ RequestFails(i)
            PROVE  form' = form
        BY <3>2 DEF Store, Reply, AnswerLands, RequestFails
      <3>3. CASE FieldTimer \/ SettingsTimer \/ HideTab \/ Switch \/ OpenEditor \/ CloseEditor
        BY <3>3 DEF FieldTimer, SettingsTimer, HideTab, Switch, OpenEditor, CloseEditor
      <3>4. CASE JobSeen \/ JobGone \/ Reload
        BY <3>4 DEF JobSeen, JobGone, Reload
      <3> QED
        BY <1>1, <3>1, <3>2, <3>3, <3>4 DEF Next, Answered
    <2>3. form' # "settings" => \A i \in DOMAIN requests' : Save(requests'[i])
      BY <1>0, <1>1, <2>2, KindStep
    <2>4. ASSUME calm' PROVE CalmInv'
      <3>1. calm /\ handles' = handles
        BY <1>0, <1>1, <2>4, CalmStays
      <3>2. AnswerIsOwn /\ InOrder
        BY <1>0, <3>1 DEF CalmInv
      <3>3. AnswerIsOwn' /\ InOrder'
        BY <1>0, <1>1, <2>4, <3>2, ListsStep
      <3>4. form' = "settings" => SettingsInv'
        BY <1>0, <1>1, <2>2, <2>4, <3>1, <3>2, SettingsStep DEF CalmInv
      <3>5. form' # "settings" /\ SendsWhatIsTyped' => FieldInv'
        <4>1. SendsWhatIsTyped' = SendsWhatIsTyped
          BY <2>2, <3>1 DEF SendsWhatIsTyped
        <4> QED
          BY <1>0, <1>1, <2>2, <2>4, <3>1, <3>2, <4>1, FieldStep DEF CalmInv
      <3> QED
        BY <3>3, <3>4, <3>5 DEF CalmInv
    <2>5. CalmInv'
      BY <2>4 DEF CalmInv
    <2> QED
      BY <2>1, <2>3, <2>5 DEF SaveInv
  <1>2. CASE UNCHANGED vars
    <2>1. UNCHANGED <<form, handles, draft, saved, phase, open, locked, shown, timers, requests,
                      server, left, typed, unsent, calm>>
      BY <1>2 DEF vars, fields, history
    <2>2. TypeOK' /\ LockedIsClosed'
      BY <1>0, <2>1 DEF TypeOK, LockedIsClosed
    <2>3. form' # "settings" => \A i \in DOMAIN requests' : Save(requests'[i])
      BY <1>0, <2>1 DEF Save
    <2>4. AnswerIsOwn' = AnswerIsOwn /\ InOrder' = InOrder
      BY <2>1 DEF AnswerIsOwn, InOrder, Stored
    <2>5. FieldInv' = FieldInv /\ SendsWhatIsTyped' = SendsWhatIsTyped
      BY <2>1 DEF FieldInv, LastTimer, LastRequest, Pending, SendsWhatIsTyped
    <2>6. CapsAreCurrent' = CapsAreCurrent /\ StoredIsLast' = StoredIsLast
      BY <2>1 DEF CapsAreCurrent, StoredIsLast, Stored, Save
    <2>7. DraftIsHeld' = DraftIsHeld
      BY <2>1 DEF DraftIsHeld, Stored, Save, Unsent, Pending
    <2>8. CalmInv'
      BY <1>0, <2>1, <2>4, <2>5, <2>6, <2>7 DEF CalmInv, SettingsInv
    <2> QED
      BY <2>2, <2>3, <2>8 DEF SaveInv
  <1> QED
    BY <1>1, <1>2

\* A calm field that has nothing under way and whose icon says Saved is saved.
THEOREM CalmSaves == Spec => []SavedIsStored
  <1>1. SaveInv => SavedIsStored
    <2> SUFFICES ASSUME SaveInv, calm, SendsWhatIsTyped, ~Pending,
                        IF form = "prose" THEN ~open ELSE phase = "synced"
                 PROVE  server = Stored(typed)
      BY DEF SavedIsStored
    <2>1. TypeOK /\ CalmInv
      BY DEF SaveInv
    <2>2. CASE form = "settings"
      <3>1. /\ saved >= 1 /\ Stored(typed) = Stored(draft) /\ draft = saved
            /\ server = saved
        BY <2>1, <2>2 DEF CalmInv, SettingsInv, DraftIsHeld
      <3>2. Stored(draft) = draft
        BY <2>1, <2>2, <3>1, SettingsTypes
      <3> QED
        BY <3>1, <3>2
    <2>3. CASE form # "settings"
      <3>1. server = typed
        BY <2>1, <2>3 DEF CalmInv, FieldInv
      <3> QED
        BY <2>3, <3>1 DEF Stored
    <2> QED
      BY <2>2, <2>3
  <1> QED
    BY <1>1, TypeInit, SaveStep, PTL DEF Spec
=============================================================================
