----------------------------- MODULE TypedState -----------------------------
(***************************************************************************)
(* How a batch of state changes asked for by the language model is         *)
(* planned, written to the *_state_entries table, audited, and later       *)
(* reverted from the audit (crates/dreamwell-state/src/apply.rs and        *)
(* crates/server/src/state_persist.rs).                                    *)
(*                                                                         *)
(* Texts are tuples (their concatenation is the "add" of a text); floats   *)
(* are integers; a sequence payload is the tuple <<items, position, loop>>.*)
(* Units, timestamps and source ids are left out.                          *)
(***************************************************************************)
EXTENDS Integers, SequencesExt

CONSTANT NoNum \* SQL NULL in float_value, float_min and float_max

ASSUME NullAssumption == NoNum \notin Int

\* What an audited change found, when it found no entry.
NoPrev == <<>>

\* The element of a singleton: it gives a name to a value that is used often.
The(S) == CHOOSE x \in S : TRUE

World == 0 \* actor_id NULL; actor i is the i-th row of the actors table

KindFamily(kind) == IF kind \in {"variable", "condition"} THEN "text" ELSE kind

\* The columns of an entry that a change can set.
Columns(value, num, lo, hi) == [value |-> value, num |-> num, lo |-> lo, hi |-> hi]
TextColumns(value) == Columns(value, NoNum, NoNum, NoNum)

-----------------------------------------------------------------------------
(* Numbers and sequence payloads: dreamwell-types/src/state_payload.rs     *)

Least(a, b) == IF a <= b THEN a ELSE b
Greatest(a, b) == IF a >= b THEN a ELSE b

Clamp(v, lo, hi) ==
    LET raised == IF lo = NoNum THEN v ELSE Greatest(v, lo)
    IN IF hi = NoNum THEN raised ELSE Least(raised, hi)

\* Rust's remainder, which takes the sign of the dividend.
Remainder(a, n) == IF a >= 0 THEN a % n ELSE -((-a) % n)

\* SequencePayload::new for a request with at least one item.
NewSequence(items, position, loop) == <<items, Clamp(position, 0, items - 1), loop>>

StepPosition(position, delta, items, loop) ==
    IF loop
    THEN Remainder(Remainder(position + delta, items) + items, items)
    ELSE Clamp(position + delta, 0, items - 1)

StepSequence(seq, delta) ==
    <<seq[1], StepPosition(seq[2], delta, seq[1], seq[3]), seq[3]>>

-----------------------------------------------------------------------------
(* Requests. "num" is what float_from_change reads (float_value, value or  *)
(* delta), the delta of an add or a step, or the position of a sequence.   *)

Request(target, kind, key, op) ==
    [target |-> target, kind |-> kind, key |-> key, op |-> op,
     text |-> <<>>, num |-> NoNum, items |-> 0, loop |-> FALSE]

SetText(target, kind, key, text) ==
    [Request(target, kind, key, "set") EXCEPT !.text = text]
AddText(target, kind, key, text) ==
    [Request(target, kind, key, "add") EXCEPT !.text = text]
Numeric(target, kind, key, op, num) ==
    [Request(target, kind, key, op) EXCEPT !.num = num]
SetSequence(target, key, items, position, loop) ==
    [Request(target, "sequence", key, "set") EXCEPT
        !.items = items, !.num = position, !.loop = loop]

\* The tools set_measurement_min and set_measurement_max put their argument in
\* float_min and float_max, which float_from_change does not read.
BoundTool(target, key, op, bound) == Numeric(target, "measurement", key, op, NoNum)

NumOr(change, default) == IF change.num = NoNum THEN default ELSE change.num

-----------------------------------------------------------------------------
(* Actors and slots                                                        *)

\* resolve_actor_id: the first actor of that name; World stands for None too.
ResolveActor(target, actors) ==
    LET named == {i \in DOMAIN actors : actors[i] = target}
    IN IF target = "world" \/ named = {} THEN World
       ELSE CHOOSE i \in named : \A k \in named : i <= k

\* The names plan_state_changes adds: neither the world nor a missing player.
Vivified(changes, actors) ==
    LET names[i \in 0..Len(changes)] ==
            IF i = 0 THEN actors
            ELSE IF changes[i].target \in {"world", "pc"} \cup Range(names[i - 1])
                 THEN names[i - 1] ELSE Append(names[i - 1], changes[i].target)
    IN names[Len(changes)]

KindRank == [condition |-> 1, measurement |-> 2, sequence |-> 3, variable |-> 4]

\* A slip: the entry of whatever actor.
EntryOfAnyActor(entries, actor, key) ==
    LET here == {e \in entries : e.key = key}
    IN IF here = {} THEN NoPrev ELSE CHOOSE e \in here : TRUE

\* The table is listed by kind and key, and the last entry of a slot wins.
EntryAt(entries, actor, key) ==
    LET here == {e \in entries : e.actor = actor /\ e.key = key}
        Precedes(d, e) == \/ KindRank[d.kind] < KindRank[e.kind]
                          \/ d.kind = e.kind /\ d.id <= e.id
    IN IF here = {} THEN NoPrev ELSE CHOOSE e \in here : \A d \in here : Precedes(d, e)

-----------------------------------------------------------------------------
(* Planning one change: the mutations it asks for                          *)

Insert(actor, change, kind, cols) ==
    <<[op |-> "insert", actor |-> actor, kind |-> kind, key |-> change.key, cols |-> cols]>>
Delete(e) == <<[op |-> "delete", id |-> e.id]>>
Write(e, value) == <<[op |-> "value", id |-> e.id, value |-> value]>>
DeleteIfAny(e) == IF e = NoPrev THEN <<>> ELSE Delete(e)

PlanText(change, actor, e) ==
    LET old == IF e = NoPrev THEN <<>> ELSE e.cols.value
        new == IF change.op = "add" THEN old \o change.text ELSE change.text
    IN IF change.op = "remove" THEN DeleteIfAny(e)
       ELSE IF e = NoPrev THEN Insert(actor, change, change.kind, TextColumns(new))
       ELSE Write(e, new)

PlanMeasurement(change, actor, e) ==
    LET old == IF e = NoPrev THEN TextColumns(<<>>) ELSE e.cols
        current == IF old.num = NoNum THEN 0 ELSE old.num
        new == CASE change.op = "set_min" -> [old EXCEPT !.lo = change.num]
                 [] change.op = "set_max" -> [old EXCEPT !.hi = change.num]
                 [] change.op = "set" ->
                        [old EXCEPT !.num = Clamp(NumOr(change, 0), old.lo, old.hi)]
                 [] change.op = "add" ->
                        [old EXCEPT !.num = Clamp(current + NumOr(change, 0), old.lo, old.hi)]
                 [] OTHER -> old
    IN IF change.op = "remove" THEN DeleteIfAny(e)
       ELSE IF e = NoPrev THEN Insert(actor, change, "measurement", new)
       ELSE <<[op |-> "measure", id |-> e.id, num |-> new.num, lo |-> new.lo, hi |-> new.hi]>>

PlanSequence(change, actor, e) ==
    CASE change.op = "remove" -> DeleteIfAny(e)
      [] change.op = "step" ->
            IF e = NoPrev THEN <<>>
            ELSE Write(e, StepSequence(e.cols.value, NumOr(change, 1)))
      [] OTHER ->
            IF change.items = 0 THEN <<>>
            ELSE LET new == NewSequence(change.items, NumOr(change, 0), change.loop)
                 IN IF e = NoPrev THEN Insert(actor, change, "sequence", TextColumns(new))
                    ELSE Write(e, new)

PlanNew(change, actor, e) ==
    CASE KindFamily(change.kind) = "text" -> PlanText(change, actor, e)
      [] KindFamily(change.kind) = "measurement" -> PlanMeasurement(change, actor, e)
      [] OTHER -> PlanSequence(change, actor, e)

\* plan_with_collision: an entry of another family gives way to a new one.
Clashes(change, e) == e # NoPrev /\ KindFamily(e.kind) # KindFamily(change.kind)
Rekind(change, e) ==
    IF e = NoPrev \/ e.kind = change.kind THEN <<>>
    ELSE <<[op |-> "kind", id |-> e.id, kind |-> change.kind]>>
PlanChange(change, actor, e) ==
    IF Clashes(change, e) THEN Delete(e) \o PlanNew(change, actor, NoPrev)
    ELSE PlanNew(change, actor, e) \o Rekind(change, e)

Audited(change, e) ==
    [target |-> change.target, kind |-> change.kind, key |-> change.key, op |-> change.op,
     prev |-> IF e = NoPrev THEN NoPrev ELSE [kind |-> e.kind, cols |-> e.cols]]

\* plan_state_changes. Every change is planned against the entries as they
\* were before the batch, except that a deleted slot counts as free.
PlanStep(plan, change, actor, e) ==
    [freed |-> plan.freed \cup
                  IF e # NoPrev /\ (change.op = "remove" \/ Clashes(change, e))
                  THEN {<<actor, change.key>>} ELSE {},
     mutations |-> plan.mutations \o PlanChange(change, actor, e),
     audit |-> Append(plan.audit, Audited(change, e))]

NoPlan == [freed |-> {}, mutations |-> <<>>, audit |-> <<>>]
Found(entries, freed, actor, key) ==
    IF <<actor, key>> \in freed THEN NoPrev ELSE EntryAt(entries, actor, key)
PlanMore(plan, change, actor, entries) ==
    IF change.target # "world" /\ actor = World THEN plan
    ELSE The({PlanStep(plan, change, actor, e) : e \in {Found(entries, plan.freed, actor, change.key)}})

PlanStateChanges(changes, actors, entries) ==
    LET plan[i \in 0..Len(changes)] ==
            IF i = 0 THEN NoPlan
            ELSE The({PlanMore(plan[i - 1], changes[i], actor, entries) :
                          actor \in {ResolveActor(changes[i].target, Vivified(changes, actors))}})
    IN plan[Len(changes)]

-----------------------------------------------------------------------------
(* Writing the table. A write keeps [entries, next, ok]: next is the next   *)
(* AUTOINCREMENT id, ok is FALSE once a statement has failed and the       *)
(* remaining ones were not run.                                            *)

\* A slip: ids handed out by counting rows.
CountedTable(entries) ==
    [entries |-> entries, ok |-> TRUE, next |-> 1 + Cardinality(entries)]

Table(entries) ==
    [entries |-> entries, ok |-> TRUE,
     next |-> 1 + Max({0} \cup {e.id : e \in entries})]

Failed(db) == [db EXCEPT !.ok = FALSE]

\* UNIQUE(scope, actor_id, kind, key): NULL actor ids never collide.
Collides(entries, actor, kind, key) ==
    actor # World /\ \E e \in entries : e.actor = actor /\ e.kind = kind /\ e.key = key

InsertEntry(db, actor, kind, key, cols) ==
    IF Collides(db.entries, actor, kind, key) THEN Failed(db)
    ELSE [db EXCEPT
            !.entries = @ \cup {[id |-> db.next, actor |-> actor, kind |-> kind,
                                 key |-> key, cols |-> cols]},
            !.next = @ + 1]

\* persist_state_mutation
Persist(db, m) ==
    LET hit == {e \in db.entries : e.id = m.id}
        others == db.entries \ hit
        Updated(e) == CASE m.op = "value" -> [e EXCEPT !.cols.value = m.value]
                        [] m.op = "kind" -> [e EXCEPT !.kind = m.kind]
                        [] m.op = "measure" ->
                               [e EXCEPT !.cols.num = IF m.num = NoNum THEN @ ELSE m.num,
                                         !.cols.lo = m.lo, !.cols.hi = m.hi]
    IN IF ~db.ok THEN db
       ELSE CASE m.op = "insert" -> InsertEntry(db, m.actor, m.kind, m.key, m.cols)
         [] m.op = "delete" -> [db EXCEPT !.entries = others]
         [] m.op = "kind" /\ (\E e \in hit : Collides(others, e.actor, m.kind, e.key)) -> Failed(db)
         [] OTHER -> [db EXCEPT !.entries = others \cup {Updated(e) : e \in hit}]

\* The table after those statements of a plan that are run.
Written(entries, mutations) ==
    LET table[i \in 0..Len(mutations)] ==
            IF i = 0 THEN Table(entries) ELSE Persist(table[i - 1], mutations[i])
    IN table[Len(mutations)]

\* apply_state_changes: the table, the actors and the audit (of no use when a
\* statement failed).
ApplyStateChanges(changes, actors, entries) ==
    The({[table |-> Written(entries, plan.mutations),
          actors |-> Vivified(changes, actors),
          audit |-> plan.audit] : plan \in {PlanStateChanges(changes, actors, entries)}})

-----------------------------------------------------------------------------
(* Reverting an audit                                                      *)

DeleteByKey(actor, c) ==
    [op |-> "delete", actor |-> actor, kind |-> c.kind, key |-> c.key]
Restore(actor, c, kind) ==
    [op |-> "restore", actor |-> actor, kind |-> kind, key |-> c.key, value |-> c.prev.cols.value]
RestoreMeasurement(actor, c) ==
    [op |-> "measure", actor |-> actor, kind |-> "measurement", key |-> c.key, cols |-> c.prev.cols]

\* revert_replaced_kind
RevertReplacedKind(actor, c) ==
    IF c.prev.kind = "measurement"
    THEN IF c.prev.cols.num = NoNum THEN <<>> ELSE <<RestoreMeasurement(actor, c)>>
    ELSE IF c.prev.cols.value = <<>> THEN <<>> ELSE <<Restore(actor, c, c.prev.kind)>>

RevertSameKind(actor, c) ==
    IF c.prev = NoPrev THEN DeleteByKey(actor, c)
    ELSE IF c.kind = "measurement" /\ c.prev.cols.num # NoNum THEN RestoreMeasurement(actor, c)
    ELSE IF c.kind \in {"measurement", "sequence"} /\ c.prev.cols.value = <<>> THEN DeleteByKey(actor, c)
    ELSE Restore(actor, c, c.kind)

\* The part of plan_revert_changes that undoes one audited change.
PlanRevertChange(c, actors) ==
    LET actor == ResolveActor(c.target, actors)
    IN IF c.prev # NoPrev /\ c.prev.kind # c.kind
       THEN <<DeleteByKey(actor, c)>> \o RevertReplacedKind(actor, c)
       ELSE <<RevertSameKind(actor, c)>>

\* A slip: the audit replayed in its own order.
RevertOldestFirst(audit, actors) ==
    LET plan[i \in 0..Len(audit)] ==
            IF i = 0 THEN <<>> ELSE plan[i - 1] \o PlanRevertChange(audit[i], actors)
    IN plan[Len(audit)]

PlanRevertChanges(audit, actors) ==
    LET plan[i \in 0..Len(audit)] ==
            IF i = 0 THEN <<>>
            ELSE plan[i - 1] \o PlanRevertChange(audit[Len(audit) + 1 - i], actors)
    IN plan[Len(audit)]

\* A slip: the row of whatever actor.
SameKindAndKey(e, m) == e.kind = m.kind /\ e.key = m.key

SameRow(e, m) == e.actor = m.actor /\ e.kind = m.kind /\ e.key = m.key

\* persist_state_revert. Only a missing measurement is inserted again, by a
\* statement that names the column source_turn of game_state_entries, whichever
\* table it is for.
PersistRevert(scope, db, m) ==
    LET hit == {e \in db.entries : SameRow(e, m)}
        others == db.entries \ hit
        Updated(e) == IF m.op = "restore" THEN [e EXCEPT !.cols.value = m.value]
                      ELSE [e EXCEPT !.cols = m.cols]
    IN IF ~db.ok THEN db
       ELSE CASE m.op = "delete" -> [db EXCEPT !.entries = others]
         [] m.op = "measure" /\ hit = {} ->
                IF scope = "game" THEN InsertEntry(db, m.actor, m.kind, m.key, m.cols)
                ELSE Failed(db)
         [] OTHER -> [db EXCEPT !.entries = others \cup {Updated(e) : e \in hit}]

Reverted(scope, entries, plan) ==
    LET table[i \in 0..Len(plan)] ==
            IF i = 0 THEN Table(entries) ELSE PersistRevert(scope, table[i - 1], plan[i])
    IN table[Len(plan)]

RevertStateChanges(scope, audit, actors, entries) ==
    The({Reverted(scope, entries, plan) : plan \in {PlanRevertChanges(audit, actors)}})
=============================================================================
