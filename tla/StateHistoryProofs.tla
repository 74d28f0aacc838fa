------------------------- MODULE StateHistoryProofs -------------------------
(* What holds of a state table whatever batches are applied, undone and rewound: it     *)
(* keeps its types (HistoryInv), a regenerate stays in the slots its turn addressed     *)
(* (SlotsInv), a batch planned at once does what its changes would do one by one, and   *)
(* undoing turns restores what they found, since the audits are a chain (RestInv).      *)
(*                                                                                      *)
(* The operators of TypedState are recursive functions over sequences of any length.    *)
(* Each is first unfolded into the function it describes (VivifiedIs and those behind   *)
(* it); what it computes is then shown by induction over the set of the lengths for     *)
(* which it holds (UpTo).                                                               *)
EXTENDS StateHistory, SequenceTheorems, WellFoundedInduction, TLAPS

IsSeq(s) == \E U : s \in Seq(U)

\* Induction up to n, for a set.
LEMMA UpTo ==
    ASSUME NEW n \in Nat, NEW S, 0 \in S, \A i \in 1..n : i - 1 \in S => i \in S
    PROVE  0..n \subseteq S
  <1> DEFINE R == OpToRel(<, Nat)
             T == {i \in 0..n : i \notin S}
  <1>1. IsWellFoundedOn(R, Nat) /\ \A i \in 1..n : <<i - 1, i>> \in R
    BY NatLessThanWellFounded DEF OpToRel
  <1> SUFFICES ASSUME T # {} PROVE FALSE
    OBVIOUS
  <1>2. T \subseteq Nat
    OBVIOUS
  <1> HIDE DEF R
  <1>3. PICK x \in T : \A y \in T : <<y, x>> \notin R
    <2> HIDE DEF T
    <2> QED
      BY <1>1, <1>2, WFMin
  <1>4. x \in 1..n /\ x - 1 \in T
    OBVIOUS
  <1> QED
    BY <1>1, <1>3, <1>4

\* Sets of numbers have a least one, and a greatest one below a bound.
LEMMA LeastIs ==
    ASSUME NEW Q, Q \subseteq Nat, Q # {}
    PROVE  \E m \in Q : \A x \in Q : m <= x
  <1> DEFINE R == OpToRel(<, Nat)
             T == Q
  <1>0. IsWellFoundedOn(R, Nat)
    BY NatLessThanWellFounded
  <1>1. \A i, k \in Nat : i < k => <<i, k>> \in R
    BY DEF OpToRel
  <1> HIDE DEF R
  <1>2. T \subseteq Nat /\ T # {}
    OBVIOUS
  <1>3. PICK m \in T : \A x \in T : <<x, m>> \notin R
    <2> HIDE DEF T
    <2> QED
      BY <1>0, <1>2, WFMin
  <1>4. ASSUME NEW x \in Q PROVE m <= x
    <2>1. ~(x < m) /\ x \in Nat /\ m \in Nat
      BY <1>1, <1>3
    <2> QED
      BY <2>1
  <1> QED
    BY <1>4

LEMMA GreatestIs ==
    ASSUME NEW Q, Q \subseteq Nat, Q # {}, NEW b \in Nat, \A x \in Q : x <= b
    PROVE  \E m \in Q : \A x \in Q : x <= m
  <1> DEFINE T == {b - x : x \in Q}
  <1>1. T \subseteq Nat
    <2>1. ASSUME NEW x \in Q PROVE b - x \in Nat
      <3>1. x \in Nat /\ x <= b
        OBVIOUS
      <3> QED
        BY <3>1
    <2> QED
      BY <2>1
  <1>2. T # {}
    <2>1. PICK x \in Q : TRUE
      OBVIOUS
    <2>2. b - x \in T
      OBVIOUS
    <2> QED
      BY <2>2
  <1>3. PICK t \in T : \A y \in T : t <= y
    <2> HIDE DEF T
    <2> QED
      BY <1>1, <1>2, LeastIs
  <1>4. PICK m \in Q : t = b - m
    OBVIOUS
  <1>5. ASSUME NEW x \in Q PROVE x <= m
    <2>1. t <= b - x
      BY <1>3
    <2> QED
      BY <1>4, <2>1
  <1> QED
    BY <1>5

-----------------------------------------------------------------------------
(* Sequences of whatever, and the names of actors                            *)

LEMMA SeqIs ==
    ASSUME NEW s, IsSeq(s)
    PROVE  Len(s) \in Nat /\ DOMAIN s = 1..Len(s)
  BY DEF IsSeq

LEMMA Tuples ==
    /\ IsSeq(<<>>) /\ Range(<<>>) = {} /\ Len(<<>>) = 0
    /\ \A x : IsSeq(<<x>>) /\ Range(<<x>>) = {x} /\ Len(<<x>>) = 1 /\ <<x>>[1] = x
  <1>1. IsSeq(<<>>) /\ Range(<<>>) = {} /\ Len(<<>>) = 0
    <2>1. <<>> \in Seq({})
      OBVIOUS
    <2> QED
      BY <2>1 DEF IsSeq, Range
  <1>2. ASSUME NEW x PROVE IsSeq(<<x>>) /\ Range(<<x>>) = {x} /\ Len(<<x>>) = 1 /\ <<x>>[1] = x
    <2>1. <<x>> \in Seq({x}) /\ Len(<<x>>) = 1 /\ <<x>>[1] = x /\ DOMAIN <<x>> = {1}
      OBVIOUS
    <2>2. Range(<<x>>) = {x}
      BY <2>1 DEF Range
    <2> QED
      BY <2>1, <2>2 DEF IsSeq
  <1> QED
    BY <1>1, <1>2

LEMMA Appended ==
    ASSUME NEW s, IsSeq(s), NEW x
    PROVE  /\ IsSeq(Append(s, x)) /\ Len(Append(s, x)) = Len(s) + 1
           /\ Range(Append(s, x)) = Range(s) \cup {x}
           /\ Append(s, x)[Len(s) + 1] = x
           /\ \A i \in DOMAIN s : Append(s, x)[i] = s[i]
  <1>1. PICK U : s \in Seq(U)
    BY DEF IsSeq
  <1> DEFINE W == U \cup {x}
             t == Append(s, x)
  <1>2. s \in Seq(W) /\ x \in W
    BY <1>1
  <1> HIDE DEF W
  <1>3. /\ t \in Seq(W) /\ Len(t) = Len(s) + 1 /\ t[Len(s) + 1] = x /\ Len(s) \in Nat
        /\ DOMAIN s = 1..Len(s) /\ DOMAIN t = 1..Len(s) + 1 /\ \A i \in DOMAIN s : t[i] = s[i]
    BY <1>2, AppendProperties
  <1> HIDE DEF t
  <1>4. Range(t) = Range(s) \cup {x}
    <2>1. \A i \in DOMAIN t : i = Len(s) + 1 \/ i \in DOMAIN s
      BY <1>3
    <2> QED
      BY <1>3, <2>1 DEF Range
  <1> QED
    BY <1>3, <1>4 DEF IsSeq, t

LEMMA Joined ==
    ASSUME NEW s, IsSeq(s), NEW t, IsSeq(t)
    PROVE  /\ IsSeq(s \o t) /\ Len(s \o t) = Len(s) + Len(t)
           /\ Range(s \o t) = Range(s) \cup Range(t)
           /\ \A i \in DOMAIN s : (s \o t)[i] = s[i]
           /\ \A i \in DOMAIN t : (s \o t)[Len(s) + i] = t[i]
  <1>1. PICK U, V : s \in Seq(U) /\ t \in Seq(V)
    BY DEF IsSeq
  <1> DEFINE W == U \cup V
             j == s \o t
  <1>2. s \in Seq(W) /\ t \in Seq(W)
    BY <1>1
  <1> HIDE DEF W
  <1>3. /\ j \in Seq(W) /\ Len(j) = Len(s) + Len(t) /\ Len(s) \in Nat /\ Len(t) \in Nat
        /\ \A i \in 1..Len(s) + Len(t) : j[i] = IF i <= Len(s) THEN s[i] ELSE t[i - Len(s)]
        /\ DOMAIN s = 1..Len(s) /\ DOMAIN t = 1..Len(t) /\ DOMAIN j = 1..Len(s) + Len(t)
    BY <1>2, ConcatProperties
  <1> HIDE DEF j
  <1>4. /\ \A i \in DOMAIN s : i \in DOMAIN j /\ j[i] = s[i]
        /\ \A i \in DOMAIN t : Len(s) + i \in DOMAIN j /\ j[Len(s) + i] = t[i]
    <2>1. \A i \in 1..Len(s) : i \in 1..Len(s) + Len(t) /\ i <= Len(s)
      BY <1>3
    <2>2. \A i \in 1..Len(t) : Len(s) + i \in 1..Len(s) + Len(t) /\ ~(Len(s) + i <= Len(s))
                               /\ (Len(s) + i) - Len(s) = i
      BY <1>3
    <2> QED
      BY <1>3, <2>1, <2>2
  <1>5. \A i \in DOMAIN j : i \in DOMAIN s \/ \E k \in DOMAIN t : i = Len(s) + k
    <2> SUFFICES ASSUME NEW i \in DOMAIN j, i \notin DOMAIN s PROVE \E k \in DOMAIN t : i = Len(s) + k
      OBVIOUS
    <2>1. i - Len(s) \in DOMAIN t /\ i = Len(s) + (i - Len(s))
      BY <1>3
    <2> QED
      BY <2>1
  <1>6. Range(j) = Range(s) \cup Range(t)
    <2>1. Range(j) \subseteq Range(s) \cup Range(t)
      BY <1>4, <1>5 DEF Range
    <2>2. Range(s) \subseteq Range(j) /\ Range(t) \subseteq Range(j)
      BY <1>4 DEF Range
    <2> QED
      BY <2>1, <2>2
  <1> QED
    BY <1>3, <1>4, <1>6 DEF IsSeq, j

\* Names that are appended to a list of them.
Extends(more, known) ==
    /\ IsSeq(more) /\ Len(known) <= Len(more)
    /\ \A i \in DOMAIN known : more[i] = known[i]

LEMMA ResolveIs ==
    ASSUME NEW names, IsSeq(names), NEW target
    PROVE  LET a == ResolveActor(target, names)
           IN /\ a \in 0..Len(names)
              /\ target = "world" => a = World
              /\ target # "world" /\ target \in Range(names) =>
                    /\ a \in DOMAIN names /\ names[a] = target /\ a # World
                    /\ \A k \in DOMAIN names : names[k] = target => a <= k
              /\ target \notin Range(names) => a = World
  <1> DEFINE named == {i \in DOMAIN names : names[i] = target}
             a == ResolveActor(target, names)
  <1>1. Len(names) \in Nat /\ DOMAIN names = 1..Len(names)
    BY SeqIs
  <1>2. CASE target = "world" \/ named = {}
    <2>1. a = World
      BY <1>2 DEF ResolveActor
    <2> QED
      BY <1>1, <1>2, <2>1 DEF World, Range
  <1>3. CASE target # "world" /\ named # {}
    <2>1. named \subseteq Nat
      BY <1>1
    <2>2. \E m \in named : \A x \in named : m <= x
      <3> HIDE DEF named
      <3> QED
        BY <1>3, <2>1, LeastIs
    <2>3. a = CHOOSE i \in named : \A k \in named : i <= k
      BY <1>3 DEF ResolveActor
    <2>4. a \in named /\ \A k \in named : a <= k
      <3> HIDE DEF named
      <3> QED
        BY <2>2, <2>3
    <2>5. a # World /\ a \in 0..Len(names)
      BY <1>1, <2>4 DEF World
    <2> QED
      BY <1>3, <2>4, <2>5 DEF Range
  <1> QED
    BY <1>2, <1>3

LEMMA ResolveStays ==
    ASSUME NEW names, IsSeq(names), NEW more, Extends(more, names), NEW target,
           target \in {"world"} \cup Range(names)
    PROVE  ResolveActor(target, more) = ResolveActor(target, names)
  <1>1. Len(names) \in Nat /\ DOMAIN names = 1..Len(names)
    BY SeqIs
  <1>2. Len(more) \in Nat /\ DOMAIN more = 1..Len(more) /\ Len(names) <= Len(more) /\ IsSeq(more)
    BY SeqIs DEF Extends
  <1>3. CASE target = "world"
    BY <1>2, <1>3, ResolveIs
  <1>4. CASE target # "world"
    <2> DEFINE a == ResolveActor(target, names)
               b == ResolveActor(target, more)
    <2>1. target \in Range(names)
      BY <1>4
    <2>2. a \in DOMAIN names /\ names[a] = target /\ \A k \in DOMAIN names : names[k] = target => a <= k
      BY <1>4, <2>1, ResolveIs
    <2>3. a \in DOMAIN more /\ more[a] = target
      BY <1>1, <1>2, <2>2 DEF Extends
    <2>4. target \in Range(more)
      BY <2>3 DEF Range
    <2>5. b \in DOMAIN more /\ more[b] = target /\ \A k \in DOMAIN more : more[k] = target => b <= k
      BY <1>2, <1>4, <2>4, ResolveIs
    <2>6. b <= a
      BY <2>3, <2>5
    <2>7. b \in DOMAIN names /\ names[b] = target
      BY <1>1, <1>2, <2>2, <2>5, <2>6 DEF Extends
    <2>8. a <= b
      BY <2>2, <2>7
    <2> QED
      BY <1>1, <1>2, <2>2, <2>5, <2>6, <2>8
  <1> QED
    BY <1>3, <1>4
-----------------------------------------------------------------------------
(* The recursive functions of TypedState are the ones they describe        *)

\* The names that a batch adds, one change after the other.
LEMMA VivifiedIs ==
    ASSUME NEW changes, IsSeq(changes), NEW actors0
    PROVE  \E f :
              /\ f = [i \in 0..Len(changes) |->
                        IF i = 0 THEN actors0
                        ELSE IF changes[i].target \in {"world", "pc"} \cup Range(f[i - 1])
                             THEN f[i - 1] ELSE Append(f[i - 1], changes[i].target)]
              /\ Vivified(changes, actors0) = f[Len(changes)]
  <1> DEFINE n == Len(changes)
             base == actors0
             More(p, i) == IF changes[i].target \in {"world", "pc"} \cup Range(p)
                           THEN p ELSE Append(p, changes[i].target)
             Def(m, g) == g = [i \in 0..m |-> IF i = 0 THEN base ELSE More(g[i - 1], i)]
             S == {m \in 0..n : \E g : Def(m, g)}
             f == CHOOSE g : Def(n, g)
  <1>0. n \in Nat
    BY SeqIs
  <1>1. Vivified(changes, actors0) = f[n]
    BY DEF Vivified
  <1> HIDE DEF base, More, n
  <1>2. 0 \in S
    <2> DEFINE g == [i \in 0..0 |-> base]
    <2>1. Def(0, g) /\ 0 \in 0..n
      BY <1>0
    <2> HIDE DEF Def, g
    <2> QED
      BY <2>1
  <1>3. ASSUME NEW m \in 1..n, m - 1 \in S PROVE m \in S
    <2>1. PICK g : Def(m - 1, g)
      BY <1>3
    <2> DEFINE h == [i \in 0..m |-> IF i = m THEN More(g[m - 1], m) ELSE g[i]]
    <2>2. ASSUME NEW i \in 0..m
          PROVE  h[i] = IF i = 0 THEN base ELSE More(h[i - 1], i)
      <3>1. CASE i = m
        BY <1>0, <3>1
      <3>2. CASE i # m
        <4>1. /\ i \in 0..m - 1 /\ h[i] = g[i]
              /\ i # 0 => i - 1 \in 0..m /\ i - 1 # m /\ h[i - 1] = g[i - 1]
          BY <1>0, <3>2
        <4> QED
          BY <2>1, <4>1
      <3> QED
        BY <3>1, <3>2
    <2> HIDE DEF h
    <2>3. h = [i \in 0..m |-> h[i]]
      BY DEF h
    <2>4. Def(m, h)
      BY <2>2, <2>3
    <2> HIDE DEF Def
    <2> QED
      BY <1>0, <2>4
  <1>4. n \in S
    <2> HIDE DEF S
    <2>1. 0..n \subseteq S
      BY <1>0, <1>2, <1>3, UpTo
    <2> QED
      BY <1>0, <2>1
  <1>5. Def(n, f)
    <2> HIDE DEF Def
    <2> QED
      BY <1>4
  <1> HIDE DEF f
  <1> QED
    BY <1>1, <1>5 DEF base, More, n

LEMMA TheIs == \A x : The({x}) = x
  BY DEF The

\* The plan of one more change of a batch.
Planned(plan, change, known, t) ==
    PlanMore(plan, change, ResolveActor(change.target, known), t)

\* The plan of a batch, one change after the other.
LEMMA PlanStepsAre ==
    ASSUME NEW changes, IsSeq(changes), NEW actors0, NEW t
    PROVE  \E f :
              /\ f = [i \in 0..Len(changes) |->
                        IF i = 0 THEN NoPlan
                        ELSE The({PlanMore(f[i - 1], changes[i], actor, t) :
                                    actor \in {ResolveActor(changes[i].target, Vivified(changes, actors0))}})]
              /\ PlanStateChanges(changes, actors0, t) = f[Len(changes)]
  <1> DEFINE n == Len(changes)
             base == NoPlan
             More(p, i) == The({PlanMore(p, changes[i], actor, t) :
                                  actor \in {ResolveActor(changes[i].target, Vivified(changes, actors0))}})
             Def(m, g) == g = [i \in 0..m |-> IF i = 0 THEN base ELSE More(g[i - 1], i)]
             S == {m \in 0..n : \E g : Def(m, g)}
             f == CHOOSE g : Def(n, g)
  <1>0. n \in Nat
    BY SeqIs
  <1>1. PlanStateChanges(changes, actors0, t) = f[n]
    BY DEF PlanStateChanges
  <1> HIDE DEF base, More, n
  <1>2. 0 \in S
    <2> DEFINE g == [i \in 0..0 |-> base]
    <2>1. Def(0, g) /\ 0 \in 0..n
      BY <1>0
    <2> HIDE DEF Def, g
    <2> QED
      BY <2>1
  <1>3. ASSUME NEW m \in 1..n, m - 1 \in S PROVE m \in S
    <2>1. PICK g : Def(m - 1, g)
      BY <1>3
    <2> DEFINE h == [i \in 0..m |-> IF i = m THEN More(g[m - 1], m) ELSE g[i]]
    <2>2. ASSUME NEW i \in 0..m
          PROVE  h[i] = IF i = 0 THEN base ELSE More(h[i - 1], i)
      <3>1. CASE i = m
        BY <1>0, <3>1
      <3>2. CASE i # m
        <4>1. /\ i \in 0..m - 1 /\ h[i] = g[i]
              /\ i # 0 => i - 1 \in 0..m /\ i - 1 # m /\ h[i - 1] = g[i - 1]
          BY <1>0, <3>2
        <4> QED
          BY <2>1, <4>1
      <3> QED
        BY <3>1, <3>2
    <2> HIDE DEF h
    <2>3. h = [i \in 0..m |-> h[i]]
      BY DEF h
    <2>4. Def(m, h)
      BY <2>2, <2>3
    <2> HIDE DEF Def
    <2> QED
      BY <1>0, <2>4
  <1>4. n \in S
    <2> HIDE DEF S
    <2>1. 0..n \subseteq S
      BY <1>0, <1>2, <1>3, UpTo
    <2> QED
      BY <1>0, <2>1
  <1>5. Def(n, f)
    <2> HIDE DEF Def
    <2> QED
      BY <1>4
  <1> HIDE DEF f
  <1> QED
    BY <1>1, <1>5 DEF base, More, n

LEMMA PlanIs ==
    ASSUME NEW changes, IsSeq(changes), NEW actors0, NEW t
    PROVE  \E f :
              /\ f = [i \in 0..Len(changes) |->
                        IF i = 0 THEN NoPlan
                        ELSE Planned(f[i - 1], changes[i], Vivified(changes, actors0), t)]
              /\ PlanStateChanges(changes, actors0, t) = f[Len(changes)]
  <1> DEFINE n == Len(changes)
             known == Vivified(changes, actors0)
             Next1(p, c, a) == The({PlanMore(p, c, actor, t) : actor \in {a}})
  <1>1. ASSUME NEW p, NEW c, NEW a PROVE Next1(p, c, a) = PlanMore(p, c, a, t)
    <2>1. {PlanMore(p, c, actor, t) : actor \in {a}} = {PlanMore(p, c, a, t)}
      OBVIOUS
    <2> QED
      BY <2>1, TheIs
  <1>2. PICK f : /\ f = [i \in 0..n |-> IF i = 0 THEN NoPlan
                                        ELSE Next1(f[i - 1], changes[i], ResolveActor(changes[i].target, known))]
                 /\ PlanStateChanges(changes, actors0, t) = f[n]
    BY PlanStepsAre
  <1> HIDE DEF Next1, known, n
  <1>3. f = [i \in 0..n |-> f[i]]
    BY <1>2
  <1>4. ASSUME NEW i \in 0..n
        PROVE  f[i] = IF i = 0 THEN NoPlan ELSE Planned(f[i - 1], changes[i], known, t)
    BY <1>1, <1>2 DEF Planned
  <1>5. f = [i \in 0..n |-> IF i = 0 THEN NoPlan ELSE Planned(f[i - 1], changes[i], known, t)]
    BY <1>3, <1>4
  <1> QED
    BY <1>2, <1>5 DEF n, known

\* The table after each statement of a plan.
LEMMA WrittenIs ==
    ASSUME NEW t, NEW mutations, IsSeq(mutations)
    PROVE  \E f :
              /\ f = [i \in 0..Len(mutations) |->
                        IF i = 0 THEN Table(t) ELSE Persist(f[i - 1], mutations[i])]
              /\ Written(t, mutations) = f[Len(mutations)]
  <1> DEFINE n == Len(mutations)
             base == Table(t)
             More(p, i) == Persist(p, mutations[i])
             Def(m, g) == g = [i \in 0..m |-> IF i = 0 THEN base ELSE More(g[i - 1], i)]
             S == {m \in 0..n : \E g : Def(m, g)}
             f == CHOOSE g : Def(n, g)
  <1>0. n \in Nat
    BY SeqIs
  <1>1. Written(t, mutations) = f[n]
    BY DEF Written
  <1> HIDE DEF base, More, n
  <1>2. 0 \in S
    <2> DEFINE g == [i \in 0..0 |-> base]
    <2>1. Def(0, g) /\ 0 \in 0..n
      BY <1>0
    <2> HIDE DEF Def, g
    <2> QED
      BY <2>1
  <1>3. ASSUME NEW m \in 1..n, m - 1 \in S PROVE m \in S
    <2>1. PICK g : Def(m - 1, g)
      BY <1>3
    <2> DEFINE h == [i \in 0..m |-> IF i = m THEN More(g[m - 1], m) ELSE g[i]]
    <2>2. ASSUME NEW i \in 0..m
          PROVE  h[i] = IF i = 0 THEN base ELSE More(h[i - 1], i)
      <3>1. CASE i = m
        BY <1>0, <3>1
      <3>2. CASE i # m
        <4>1. /\ i \in 0..m - 1 /\ h[i] = g[i]
              /\ i # 0 => i - 1 \in 0..m /\ i - 1 # m /\ h[i - 1] = g[i - 1]
          BY <1>0, <3>2
        <4> QED
          BY <2>1, <4>1
      <3> QED
        BY <3>1, <3>2
    <2> HIDE DEF h
    <2>3. h = [i \in 0..m |-> h[i]]
      BY DEF h
    <2>4. Def(m, h)
      BY <2>2, <2>3
    <2> HIDE DEF Def
    <2> QED
      BY <1>0, <2>4
  <1>4. n \in S
    <2> HIDE DEF S
    <2>1. 0..n \subseteq S
      BY <1>0, <1>2, <1>3, UpTo
    <2> QED
      BY <1>0, <2>1
  <1>5. Def(n, f)
    <2> HIDE DEF Def
    <2> QED
      BY <1>4
  <1> HIDE DEF f
  <1> QED
    BY <1>1, <1>5 DEF base, More, n

\* The plan that undoes an audit, the newest change first.
LEMMA RevertPlanIs ==
    ASSUME NEW audit, IsSeq(audit), NEW actors0
    PROVE  \E f :
              /\ f = [i \in 0..Len(audit) |->
                        IF i = 0 THEN <<>> ELSE f[i - 1] \o PlanRevertChange(audit[Len(audit) + 1 - i], actors0)]
              /\ PlanRevertChanges(audit, actors0) = f[Len(audit)]
  <1> DEFINE n == Len(audit)
             base == <<>>
             More(p, i) == p \o PlanRevertChange(audit[Len(audit) + 1 - i], actors0)
             Def(m, g) == g = [i \in 0..m |-> IF i = 0 THEN base ELSE More(g[i - 1], i)]
             S == {m \in 0..n : \E g : Def(m, g)}
             f == CHOOSE g : Def(n, g)
  <1>0. n \in Nat
    BY SeqIs
  <1>1. PlanRevertChanges(audit, actors0) = f[n]
    BY DEF PlanRevertChanges
  <1> HIDE DEF base, More, n
  <1>2. 0 \in S
    <2> DEFINE g == [i \in 0..0 |-> base]
    <2>1. Def(0, g) /\ 0 \in 0..n
      BY <1>0
    <2> HIDE DEF Def, g
    <2> QED
      BY <2>1
  <1>3. ASSUME NEW m \in 1..n, m - 1 \in S PROVE m \in S
    <2>1. PICK g : Def(m - 1, g)
      BY <1>3
    <2> DEFINE h == [i \in 0..m |-> IF i = m THEN More(g[m - 1], m) ELSE g[i]]
    <2>2. ASSUME NEW i \in 0..m
          PROVE  h[i] = IF i = 0 THEN base ELSE More(h[i - 1], i)
      <3>1. CASE i = m
        BY <1>0, <3>1
      <3>2. CASE i # m
        <4>1. /\ i \in 0..m - 1 /\ h[i] = g[i]
              /\ i # 0 => i - 1 \in 0..m /\ i - 1 # m /\ h[i - 1] = g[i - 1]
          BY <1>0, <3>2
        <4> QED
          BY <2>1, <4>1
      <3> QED
        BY <3>1, <3>2
    <2> HIDE DEF h
    <2>3. h = [i \in 0..m |-> h[i]]
      BY DEF h
    <2>4. Def(m, h)
      BY <2>2, <2>3
    <2> HIDE DEF Def
    <2> QED
      BY <1>0, <2>4
  <1>4. n \in S
    <2> HIDE DEF S
    <2>1. 0..n \subseteq S
      BY <1>0, <1>2, <1>3, UpTo
    <2> QED
      BY <1>0, <2>1
  <1>5. Def(n, f)
    <2> HIDE DEF Def
    <2> QED
      BY <1>4
  <1> HIDE DEF f
  <1> QED
    BY <1>1, <1>5 DEF base, More, n

\* The table after each statement of such a plan.
LEMMA RevertedIs ==
    ASSUME NEW s, NEW t, NEW plan, IsSeq(plan)
    PROVE  \E f :
              /\ f = [i \in 0..Len(plan) |->
                        IF i = 0 THEN Table(t) ELSE PersistRevert(s, f[i - 1], plan[i])]
              /\ Reverted(s, t, plan) = f[Len(plan)]
  <1> DEFINE n == Len(plan)
             base == Table(t)
             More(p, i) == PersistRevert(s, p, plan[i])
             Def(m, g) == g = [i \in 0..m |-> IF i = 0 THEN base ELSE More(g[i - 1], i)]
             S == {m \in 0..n : \E g : Def(m, g)}
             f == CHOOSE g : Def(n, g)
  <1>0. n \in Nat
    BY SeqIs
  <1>1. Reverted(s, t, plan) = f[n]
    BY DEF Reverted
  <1> HIDE DEF base, More, n
  <1>2. 0 \in S
    <2> DEFINE g == [i \in 0..0 |-> base]
    <2>1. Def(0, g) /\ 0 \in 0..n
      BY <1>0
    <2> HIDE DEF Def, g
    <2> QED
      BY <2>1
  <1>3. ASSUME NEW m \in 1..n, m - 1 \in S PROVE m \in S
    <2>1. PICK g : Def(m - 1, g)
      BY <1>3
    <2> DEFINE h == [i \in 0..m |-> IF i = m THEN More(g[m - 1], m) ELSE g[i]]
    <2>2. ASSUME NEW i \in 0..m
          PROVE  h[i] = IF i = 0 THEN base ELSE More(h[i - 1], i)
      <3>1. CASE i = m
        BY <1>0, <3>1
      <3>2. CASE i # m
        <4>1. /\ i \in 0..m - 1 /\ h[i] = g[i]
              /\ i # 0 => i - 1 \in 0..m /\ i - 1 # m /\ h[i - 1] = g[i - 1]
          BY <1>0, <3>2
        <4> QED
          BY <2>1, <4>1
      <3> QED
        BY <3>1, <3>2
    <2> HIDE DEF h
    <2>3. h = [i \in 0..m |-> h[i]]
      BY DEF h
    <2>4. Def(m, h)
      BY <2>2, <2>3
    <2> HIDE DEF Def
    <2> QED
      BY <1>0, <2>4
  <1>4. n \in S
    <2> HIDE DEF S
    <2>1. 0..n \subseteq S
      BY <1>0, <1>2, <1>3, UpTo
    <2> QED
      BY <1>0, <2>1
  <1>5. Def(n, f)
    <2> HIDE DEF Def
    <2> QED
      BY <1>4
  <1> HIDE DEF f
  <1> QED
    BY <1>1, <1>5 DEF base, More, n

\* The table after each turn that a rewind undoes.
LEMMA UndoneIs ==
    ASSUME NEW undone, IsSeq(undone)
    PROVE  \E f :
              /\ f = [i \in 0..Len(undone) |->
                        IF i = 0 THEN Table(entries) ELSE UndoTurn(undone[Len(undone) + 1 - i], f[i - 1])]
              /\ UndoTurns(undone) = f[Len(undone)]
  <1> DEFINE n == Len(undone)
             base == Table(entries)
             More(p, i) == UndoTurn(undone[Len(undone) + 1 - i], p)
             Def(m, g) == g = [i \in 0..m |-> IF i = 0 THEN base ELSE More(g[i - 1], i)]
             S == {m \in 0..n : \E g : Def(m, g)}
             f == CHOOSE g : Def(n, g)
  <1>0. n \in Nat
    BY SeqIs
  <1>1. UndoTurns(undone) = f[n]
    BY DEF UndoTurns
  <1> HIDE DEF base, More, n
  <1>2. 0 \in S
    <2> DEFINE g == [i \in 0..0 |-> base]
    <2>1. Def(0, g) /\ 0 \in 0..n
      BY <1>0
    <2> HIDE DEF Def, g
    <2> QED
      BY <2>1
  <1>3. ASSUME NEW m \in 1..n, m - 1 \in S PROVE m \in S
    <2>1. PICK g : Def(m - 1, g)
      BY <1>3
    <2> DEFINE h == [i \in 0..m |-> IF i = m THEN More(g[m - 1], m) ELSE g[i]]
    <2>2. ASSUME NEW i \in 0..m
          PROVE  h[i] = IF i = 0 THEN base ELSE More(h[i - 1], i)
      <3>1. CASE i = m
        BY <1>0, <3>1
      <3>2. CASE i # m
        <4>1. /\ i \in 0..m - 1 /\ h[i] = g[i]
              /\ i # 0 => i - 1 \in 0..m /\ i - 1 # m /\ h[i - 1] = g[i - 1]
          BY <1>0, <3>2
        <4> QED
          BY <2>1, <4>1
      <3> QED
        BY <3>1, <3>2
    <2> HIDE DEF h
    <2>3. h = [i \in 0..m |-> h[i]]
      BY DEF h
    <2>4. Def(m, h)
      BY <2>2, <2>3
    <2> HIDE DEF Def
    <2> QED
      BY <1>0, <2>4
  <1>4. n \in S
    <2> HIDE DEF S
    <2>1. 0..n \subseteq S
      BY <1>0, <1>2, <1>3, UpTo
    <2> QED
      BY <1>0, <2>1
  <1>5. Def(n, f)
    <2> HIDE DEF Def
    <2> QED
      BY <1>4
  <1> HIDE DEF f
  <1> QED
    BY <1>1, <1>5 DEF base, More, n

-----------------------------------------------------------------------------
(* Tables of typed rows *)

Kinds == DOMAIN KindRank
Num == Int \cup {NoNum}

IsCols(c) == c = Columns(c.value, c.num, c.lo, c.hi) /\ {c.num, c.lo, c.hi} \subseteq Num
IsPayload(v) == v = <<v[1], v[2], v[3]>> /\ v[1] \in Nat \ {0} /\ v[2] \in 0..v[1] - 1 /\ v[3] \in BOOLEAN
Fits(kind, cols) ==
    /\ IsCols(cols)
    /\ kind = "sequence" => IsPayload(cols.value)
    /\ kind # "measurement" => cols = TextColumns(cols.value)

Entry(id, actor, kind, key, cols) ==
    [id |-> id, actor |-> actor, kind |-> kind, key |-> key, cols |-> cols]
IsRow(e, n) ==
    /\ e = Entry(e.id, e.actor, e.kind, e.key, e.cols)
    /\ e.id \in Nat \ {0} /\ e.actor \in 0..n /\ e.kind \in Kinds /\ Fits(e.kind, e.cols)

Keyed(t) == \A d, e \in t : d.id = e.id => d = e
Below(t, b) == \A e \in t : e.id < b
IsTable(t, n) == (\A e \in t : IsRow(e, n)) /\ Keyed(t) /\ \E b \in Nat : Below(t, b)

\* A write under way.
IsDb(db, n) ==
    /\ db = [entries |-> db.entries, ok |-> db.ok, next |-> db.next]
    /\ IsTable(db.entries, n)
    /\ db.next \in Nat \ {0} /\ Below(db.entries, db.next)

LEMMA KindsAre == /\ Kinds = {"condition", "measurement", "sequence", "variable"}
                  /\ \A k \in Kinds : KindRank[k] \in 1..4
                  /\ \A j, k \in Kinds : KindRank[j] = KindRank[k] => j = k
  BY DEF Kinds, KindRank

LEMMA FamiliesAre ==
    \A j, k \in Kinds :
        /\ KindFamily(k) \in {"text", "measurement", "sequence"}
        /\ (KindFamily(k) = "sequence") = (k = "sequence")
        /\ (KindFamily(k) = "measurement") = (k = "measurement")
        /\ KindFamily(j) = KindFamily(k) /\ KindFamily(k) # "text" => j = k
  BY KindsAre DEF KindFamily

LEMMA EntryIs ==
    ASSUME NEW id, NEW actor, NEW kind, NEW key, NEW cols
    PROVE  LET e == Entry(id, actor, kind, key, cols)
           IN e.id = id /\ e.actor = actor /\ e.kind = kind /\ e.key = key /\ e.cols = cols
  BY DEF Entry

LEMMA ColumnsAre ==
    ASSUME NEW value, NEW num, NEW lo, NEW hi
    PROVE  LET c == Columns(value, num, lo, hi)
           IN /\ c.value = value /\ c.num = num /\ c.lo = lo /\ c.hi = hi
              /\ {num, lo, hi} \subseteq Num => IsCols(c)
  BY DEF Columns, IsCols

LEMMA TextColumnsAre ==
    ASSUME NEW value
    PROVE  IsCols(TextColumns(value)) /\ TextColumns(value).value = value
  BY ColumnsAre DEF TextColumns, Num

\* The entry of a slot is a row of it, the last of its last kind.
LEMMA EntryAtIs ==
    ASSUME NEW t, NEW n, IsTable(t, n), NEW actor, NEW key
    PROVE  LET here == {e \in t : e.actor = actor /\ e.key = key}
               e == EntryAt(t, actor, key)
           IN /\ here = {} => e = NoPrev
              /\ here # {} => /\ e \in here
                              /\ \A d \in here : \/ KindRank[d.kind] < KindRank[e.kind]
                                                 \/ d.kind = e.kind /\ d.id <= e.id
  <1> DEFINE here == {e \in t : e.actor = actor /\ e.key = key}
             Precedes(d, e) == \/ KindRank[d.kind] < KindRank[e.kind]
                               \/ d.kind = e.kind /\ d.id <= e.id
             ranks == {KindRank[d.kind] : d \in here}
  <1>1. CASE here = {}
    BY <1>1 DEF EntryAt
  <1>2. CASE here # {}
    <2>1. \A d \in here : d.kind \in Kinds /\ KindRank[d.kind] \in 1..4 /\ d.id \in Nat
      BY KindsAre DEF IsTable, IsRow
    <2>2. PICK b \in Nat : \A d \in here : d.id <= b
      <3>1. PICK b \in Nat : Below(t, b)
        BY DEF IsTable
      <3> QED
        BY <2>1, <3>1 DEF Below
    <2>3. \E r \in ranks : \A x \in ranks : x <= r
      <3>1. ranks \subseteq Nat /\ ranks # {} /\ \A x \in ranks : x <= 4
        BY <1>2, <2>1
      <3> HIDE DEF ranks
      <3> QED
        BY <3>1, GreatestIs
    <2>4. PICK top \in here : \A d \in here : KindRank[d.kind] <= KindRank[top.kind]
      BY <2>3
    <2> DEFINE ids == {d.id : d \in {c \in here : c.kind = top.kind}}
    <2>5. \E i \in ids : \A x \in ids : x <= i
      <3>1. ids \subseteq Nat /\ ids # {} /\ \A x \in ids : x <= b
        BY <2>1, <2>2
      <3> HIDE DEF ids
      <3> QED
        BY <3>1, GreatestIs
    <2>6. PICK last \in here : last.kind = top.kind /\ \A d \in here : d.kind = top.kind => d.id <= last.id
      BY <2>5
    <2>7. \A d \in here : Precedes(d, last)
      BY <2>1, <2>4, <2>6, KindsAre
    <2>8. EntryAt(t, actor, key) = CHOOSE e \in here : \A d \in here : Precedes(d, e)
      BY <1>2 DEF EntryAt
    <2> HIDE DEF Precedes, here
    <2>9. EntryAt(t, actor, key) \in here /\ \A d \in here : Precedes(d, EntryAt(t, actor, key))
      BY <2>7, <2>8
    <2> QED
      BY <1>2, <2>9 DEF Precedes, here
  <1> QED
    BY <1>1, <1>2

LEMMA FoundIs ==
    ASSUME NEW t, NEW n, IsTable(t, n), NEW freed, NEW actor, NEW key
    PROVE  LET e == Found(t, freed, actor, key)
           IN e = NoPrev \/ (e \in t /\ e.actor = actor /\ e.key = key)
  <1>1. CASE <<actor, key>> \in freed
    BY <1>1 DEF Found
  <1>2. CASE <<actor, key>> \notin freed
    <2> DEFINE e == EntryAt(t, actor, key)
               here == {d \in t : d.actor = actor /\ d.key = key}
    <2>1. Found(t, freed, actor, key) = e
      BY <1>2 DEF Found
    <2>2. (here = {} => e = NoPrev) /\ (here # {} => e \in here)
      BY EntryAtIs
    <2> HIDE DEF e
    <2> QED
      BY <2>1, <2>2
  <1> QED
    BY <1>1, <1>2

\* The next id of a table is above those of its rows.
LEMMA TableIs ==
    ASSUME NEW t, NEW n, IsTable(t, n)
    PROVE  IsDb(Table(t), n) /\ Table(t).entries = t /\ Table(t).ok
  <1> DEFINE ids == {0} \cup {e.id : e \in t}
             next == 1 + Max(ids)
  <1>1. PICK b \in Nat : Below(t, b)
    BY DEF IsTable
  <1>2. ids \subseteq Nat /\ ids # {} /\ \A x \in ids : x <= b
    BY <1>1 DEF IsTable, IsRow, Below
  <1>3. Max(ids) \in ids /\ \A x \in ids : x <= Max(ids)
    <2> HIDE DEF ids
    <2>1. \E m \in ids : \A x \in ids : x <= m
      BY <1>2, GreatestIs
    <2>2. ids \subseteq Nat
      BY <1>2
    <2> QED
      BY <2>1, <2>2 DEF Max
  <1>4. next \in Nat \ {0} /\ Below(t, next)
    <2>1. \A e \in t : e.id \in ids
      OBVIOUS
    <2>2. 0 \in ids
      OBVIOUS
    <2> DEFINE top == Max(ids)
    <2>3. top \in Nat /\ \A x \in ids : x <= top
      BY <1>2, <1>3
    <2>4. ASSUME NEW e \in t PROVE e.id < 1 + top
      <3>1. e.id \in ids /\ e.id \in Nat
        BY <1>2, <2>1
      <3> HIDE DEF ids, top
      <3> QED
        BY <2>3, <3>1
    <2>5. next = 1 + top
      OBVIOUS
    <2> HIDE DEF top, next
    <2> QED
      BY <2>3, <2>4, <2>5 DEF Below
  <1>5. Table(t) = [entries |-> t, ok |-> TRUE, next |-> next]
    BY DEF Table
  <1> HIDE DEF next
  <1> QED
    BY <1>4, <1>5 DEF IsDb

-----------------------------------------------------------------------------
(* The numbers of a change: what its numeric helpers return, for every     *)
(* argument.                                                               *)

\* clamp_measurement: with a lower bound no higher than the upper one, or with
\* one of them missing, the result respects both.
THEOREM ClampRespectsBounds ==
    ASSUME NEW v \in Int, NEW lo \in Num, NEW hi \in Num, lo = NoNum \/ hi = NoNum \/ lo <= hi
    PROVE  /\ Clamp(v, lo, hi) \in Int
           /\ lo # NoNum => lo <= Clamp(v, lo, hi)
           /\ hi # NoNum => Clamp(v, lo, hi) <= hi
  BY NullAssumption DEF Clamp, Least, Greatest, Num

\* A value that already respects the bounds is left alone: clamping twice is
\* clamping once.
THEOREM ClampIsIdempotent ==
    ASSUME NEW v \in Int, NEW lo \in Num, NEW hi \in Num
    PROVE  Clamp(Clamp(v, lo, hi), lo, hi) = Clamp(v, lo, hi)
  BY NullAssumption DEF Clamp, Least, Greatest, Num

LEMMA ClampIs ==
    ASSUME NEW v \in Int, NEW lo \in Num, NEW hi \in Num
    PROVE  Clamp(v, lo, hi) \in Int
  BY DEF Clamp, Least, Greatest, Num

\* A position is clamped between two numbers, which are not NULL.
LEMMA PositionIs ==
    ASSUME NEW items \in Nat \ {0}, NEW position \in Int
    PROVE  Clamp(position, 0, items - 1) \in 0..items - 1
  BY NullAssumption DEF Clamp, Least, Greatest

\* The remainder lies strictly between -n and n.
LEMMA RemainderRange ==
    ASSUME NEW a \in Int, NEW n \in Nat \ {0}
    PROVE  Remainder(a, n) \in (1 - n)..(n - 1)
  <1>1. CASE a >= 0
    <2>1. a % n \in 0..n - 1
      BY <1>1
    <2> QED
      BY <1>1, <2>1 DEF Remainder
  <1>2. CASE ~(a >= 0)
    <2>1. -a \in Nat
      BY <1>2
    <2>2. (-a) % n \in 0..n - 1
      BY <2>1
    <2> QED
      BY <1>2, <2>2 DEF Remainder
  <1> QED
    BY <1>1, <1>2

\* SequencePayload::step, with Rust's signed remainder: however far and in
\* whichever direction a sequence is stepped, looping or not, its position is
\* one of its items.
THEOREM StepStaysInRange ==
    ASSUME NEW position \in Int, NEW delta \in Int, NEW items \in Nat \ {0}, NEW loop \in BOOLEAN
    PROVE  StepPosition(position, delta, items, loop) \in 0..items - 1
  <1>1. CASE loop
    <2> DEFINE first == Remainder(position + delta, items)
    <2>1. first \in (1 - items)..(items - 1)
      BY RemainderRange, position + delta \in Int
    <2> HIDE DEF first
    <2>2. first + items \in Nat
      BY <2>1
    <2>3. Remainder(first + items, items) = (first + items) % items
      BY <2>2 DEF Remainder
    <2>4. (first + items) % items \in 0..items - 1
      BY <2>2
    <2> QED
      BY <1>1, <2>3, <2>4 DEF StepPosition, first
  <1>2. CASE ~loop
    BY <1>2, PositionIs, position + delta \in Int DEF StepPosition
  <1> QED
    BY <1>1, <1>2

\* SequencePayload::new: a new sequence starts at one of its items.
THEOREM NewSequenceInRange ==
    ASSUME NEW items \in Nat \ {0}, NEW position \in Int, NEW loop \in BOOLEAN
    PROVE  IsPayload(NewSequence(items, position, loop))
  BY PositionIs DEF NewSequence, IsPayload

LEMMA StepIs ==
    ASSUME NEW v, IsPayload(v), NEW delta \in Int
    PROVE  IsPayload(StepSequence(v, delta))
  <1>1. StepPosition(v[2], delta, v[1], v[3]) \in 0..v[1] - 1
    <2>1. v[2] \in Int
      BY DEF IsPayload
    <2> QED
      BY <2>1, StepStaysInRange DEF IsPayload
  <1> QED
    BY <1>1 DEF StepSequence, IsPayload

LEMMA NumOrIs ==
    ASSUME NEW change, IsRequest(change), NEW default \in Int
    PROVE  NumOr(change, default) \in Int
  BY DEF NumOr, IsRequest

-----------------------------------------------------------------------------
(* Plans ask for typed writes                                              *)

IsMutation(m, t, n) ==
    \/ m.op = "insert" /\ m.actor \in 0..n /\ m.kind \in Kinds /\ Fits(m.kind, m.cols)
    \/ m.op = "delete"
    \/ /\ m.op = "value"
       /\ \E e \in t : /\ e.id = m.id /\ e.kind # "measurement"
                       /\ e.kind = "sequence" => IsPayload(m.value)
    \/ /\ m.op = "kind" /\ m.kind \in {"variable", "condition"}
       /\ \E e \in t : e.id = m.id /\ e.kind \in {"variable", "condition"}
    \/ /\ m.op = "measure" /\ {m.num, m.lo, m.hi} \subseteq Num
       /\ \E e \in t : e.id = m.id /\ e.kind = "measurement"
AreMutations(s, t, n) == IsSeq(s) /\ \A m \in Range(s) : IsMutation(m, t, n)

LEMMA MutationOfOp ==
    ASSUME NEW m, NEW t, NEW n, IsMutation(m, t, n)
    PROVE  /\ m.op = "value" => \E e \in t : /\ e.id = m.id /\ e.kind # "measurement"
                                             /\ e.kind = "sequence" => IsPayload(m.value)
           /\ m.op = "kind" => \E e \in t : e.id = m.id /\ e.kind \in {"variable", "condition"}
           /\ m.op = "measure" => \E e \in t : e.id = m.id /\ e.kind = "measurement"
  BY Zenon DEF IsMutation

LEMMA OneMutation ==
    ASSUME NEW m, NEW t, NEW n, IsMutation(m, t, n)
    PROVE  AreMutations(<<m>>, t, n)
  BY Tuples DEF AreMutations

LEMMA MoreMutations ==
    ASSUME NEW s1, NEW s2, NEW t, NEW n, AreMutations(s1, t, n), AreMutations(s2, t, n)
    PROVE  AreMutations(s1 \o s2, t, n)
  BY Joined DEF AreMutations

LEMMA MutationsAre ==
    ASSUME NEW t, NEW n, NEW change
    PROVE  /\ AreMutations(<<>>, t, n)
           /\ \A actor \in 0..n, kind \in Kinds : \A cols :
                 Fits(kind, cols) => AreMutations(Insert(actor, change, kind, cols), t, n)
           /\ \A e : AreMutations(Delete(e), t, n) /\ AreMutations(DeleteIfAny(e), t, n)
           /\ \A e \in t : \A value :
                 e.kind # "measurement" /\ (e.kind = "sequence" => IsPayload(value))
                 => AreMutations(Write(e, value), t, n)
  <1>1. AreMutations(<<>>, t, n)
    BY Tuples DEF AreMutations
  <1>2. ASSUME NEW actor \in 0..n, NEW kind \in Kinds, NEW cols, Fits(kind, cols)
        PROVE  AreMutations(Insert(actor, change, kind, cols), t, n)
    <2> DEFINE m == [op |-> "insert", actor |-> actor, kind |-> kind, key |-> change.key, cols |-> cols]
    <2>1. IsMutation(m, t, n)
      BY <1>2 DEF IsMutation
    <2> HIDE DEF m
    <2>2. AreMutations(<<m>>, t, n)
      BY <2>1, OneMutation
    <2> QED
      BY <2>2 DEF Insert, m
  <1>3. ASSUME NEW e PROVE AreMutations(Delete(e), t, n) /\ AreMutations(DeleteIfAny(e), t, n)
    <2> DEFINE m == [op |-> "delete", id |-> e.id]
    <2>1. IsMutation(m, t, n)
      BY DEF IsMutation
    <2> HIDE DEF m
    <2>2. AreMutations(<<m>>, t, n)
      BY <2>1, OneMutation
    <2> QED
      BY <1>1, <2>2 DEF Delete, DeleteIfAny, m
  <1>4. ASSUME NEW e \in t, NEW value, e.kind # "measurement", e.kind = "sequence" => IsPayload(value)
        PROVE  AreMutations(Write(e, value), t, n)
    <2> DEFINE m == [op |-> "value", id |-> e.id, value |-> value]
    <2>1. IsMutation(m, t, n)
      BY <1>4 DEF IsMutation
    <2> HIDE DEF m
    <2>2. AreMutations(<<m>>, t, n)
      BY <2>1, OneMutation
    <2> QED
      BY <2>2 DEF Write, m
  <1> QED
    BY <1>1, <1>2, <1>3, <1>4

LEMMA PlanTextIs ==
    ASSUME NEW t, NEW n, NEW change, NEW actor \in 0..n, change.kind \in {"variable", "condition"},
           NEW e, e = NoPrev \/ (e \in t /\ e.kind \in {"variable", "condition"})
    PROVE  AreMutations(PlanText(change, actor, e), t, n)
  <1> DEFINE old == IF e = NoPrev THEN <<>> ELSE e.cols.value
             new == IF change.op = "add" THEN old \o change.text ELSE change.text
  <1>1. Fits(change.kind, TextColumns(new)) /\ change.kind \in Kinds
    BY TextColumnsAre, KindsAre DEF Fits
  <1> HIDE DEF new
  <1>2. /\ AreMutations(DeleteIfAny(e), t, n)
        /\ AreMutations(Insert(actor, change, change.kind, TextColumns(new)), t, n)
        /\ e # NoPrev => AreMutations(Write(e, new), t, n)
    BY <1>1, MutationsAre
  <1>3. PlanText(change, actor, e) = IF change.op = "remove" THEN DeleteIfAny(e)
                                     ELSE IF e = NoPrev
                                     THEN Insert(actor, change, change.kind, TextColumns(new))
                                     ELSE Write(e, new)
    BY DEF PlanText, new
  <1> QED
    BY <1>2, <1>3

LEMMA ColumnsStay ==
    ASSUME NEW old, IsCols(old)
    PROVE  /\ \A x \in Num : /\ IsCols([old EXCEPT !.lo = x])
                             /\ IsCols([old EXCEPT !.hi = x])
                             /\ IsCols([old EXCEPT !.num = x])
  BY DEF IsCols, Columns

LEMMA PlanMeasurementIs ==
    ASSUME NEW t, NEW n, IsTable(t, n), NEW change, IsRequest(change), NEW actor \in 0..n,
           NEW e, e = NoPrev \/ (e \in t /\ e.kind = "measurement")
    PROVE  AreMutations(PlanMeasurement(change, actor, e), t, n)
  <1> DEFINE old == IF e = NoPrev THEN TextColumns(<<>>) ELSE e.cols
             current == IF old.num = NoNum THEN 0 ELSE old.num
             new == CASE change.op = "set_min" -> [old EXCEPT !.lo = change.num]
                      [] change.op = "set_max" -> [old EXCEPT !.hi = change.num]
                      [] change.op = "set" ->
                             [old EXCEPT !.num = Clamp(NumOr(change, 0), old.lo, old.hi)]
                      [] change.op = "add" ->
                             [old EXCEPT !.num = Clamp(current + NumOr(change, 0), old.lo, old.hi)]
                      [] OTHER -> old
             m == [op |-> "measure", id |-> e.id, num |-> new.num, lo |-> new.lo, hi |-> new.hi]
  <1>1. IsCols(old)
    BY TextColumnsAre DEF IsTable, IsRow, Fits
  <1>2. change.num \in Num /\ NumOr(change, 0) \in Int
    BY NumOrIs DEF IsRequest, Num
  <1> DEFINE delta == NumOr(change, 0)
             set == Clamp(delta, old.lo, old.hi)
             added == Clamp(current + delta, old.lo, old.hi)
  <1>3. set \in Num /\ added \in Num
    <2>1. old.lo \in Num /\ old.hi \in Num /\ current \in Int
      BY <1>1 DEF IsCols, Num
    <2>2. current + delta \in Int
      BY <1>2, <2>1
    <2> HIDE DEF old, current, delta
    <2>3. set \in Int /\ added \in Int
      BY <1>2, <2>1, <2>2, ClampIs DEF delta
    <2> QED
      BY <2>3 DEF Num
  <1>4. IsCols(new)
    <2>1. new = IF change.op = "set_min" THEN [old EXCEPT !.lo = change.num]
                ELSE IF change.op = "set_max" THEN [old EXCEPT !.hi = change.num]
                ELSE IF change.op = "set" THEN [old EXCEPT !.num = set]
                ELSE IF change.op = "add" THEN [old EXCEPT !.num = added]
                ELSE old
      OBVIOUS
    <2> HIDE DEF old, new, set, added
    <2> QED
      BY <1>1, <1>2, <1>3, <2>1, ColumnsStay
  <1>5. PlanMeasurement(change, actor, e) = IF change.op = "remove" THEN DeleteIfAny(e)
                                            ELSE IF e = NoPrev
                                            THEN Insert(actor, change, "measurement", new)
                                            ELSE <<m>>
    BY DEF PlanMeasurement
  <1> HIDE DEF new, old
  <1>6. e # NoPrev => IsMutation(m, t, n)
    BY <1>4 DEF IsMutation, IsCols
  <1> HIDE DEF m
  <1>7. e # NoPrev => AreMutations(<<m>>, t, n)
    BY <1>6, OneMutation
  <1>8. "measurement" \in Kinds /\ Fits("measurement", new)
    BY <1>4, KindsAre DEF Fits
  <1> QED
    BY <1>5, <1>7, <1>8, MutationsAre

LEMMA PlanSequenceIs ==
    ASSUME NEW t, NEW n, IsTable(t, n), NEW change, IsRequest(change), NEW actor \in 0..n,
           NEW e, e = NoPrev \/ (e \in t /\ e.kind = "sequence")
    PROVE  AreMutations(PlanSequence(change, actor, e), t, n)
  <1> DEFINE new == NewSequence(change.items, NumOr(change, 0), change.loop)
             stepped == StepSequence(e.cols.value, NumOr(change, 1))
  <1>1. CASE change.op = "remove"
    BY <1>1, MutationsAre DEF PlanSequence
  <1>2. CASE change.op = "step"
    <2>1. e # NoPrev => IsPayload(stepped)
      <3> SUFFICES ASSUME e # NoPrev PROVE IsPayload(stepped)
        OBVIOUS
      <3>1. IsPayload(e.cols.value) /\ NumOr(change, 1) \in Int
        BY NumOrIs DEF IsTable, IsRow, Fits
      <3> QED
        BY <3>1, StepIs
    <2>2. PlanSequence(change, actor, e) = IF e = NoPrev THEN <<>> ELSE Write(e, stepped)
      BY <1>2 DEF PlanSequence
    <2> HIDE DEF stepped
    <2> QED
      BY <2>1, <2>2, MutationsAre
  <1>3. CASE change.op \notin {"remove", "step"}
    <2>1. change.items # 0 => IsPayload(new)
      <3>1. NumOr(change, 0) \in Int
        BY NumOrIs
      <3>2. change.items \in Nat /\ change.loop \in BOOLEAN
        BY DEF IsRequest
      <3> QED
        BY <3>1, <3>2, NewSequenceInRange
    <2>2. PlanSequence(change, actor, e) =
              IF change.items = 0 THEN <<>>
              ELSE IF e = NoPrev THEN Insert(actor, change, "sequence", TextColumns(new)) ELSE Write(e, new)
      BY <1>3 DEF PlanSequence
    <2> HIDE DEF new
    <2>3. "sequence" \in Kinds /\ (change.items # 0 => Fits("sequence", TextColumns(new)))
      BY <2>1, TextColumnsAre, KindsAre DEF Fits
    <2> QED
      BY <2>1, <2>2, <2>3, MutationsAre
  <1> QED
    BY <1>1, <1>2, <1>3

LEMMA PlanNewIs ==
    ASSUME NEW t, NEW n, IsTable(t, n), NEW change, IsRequest(change), NEW actor \in 0..n,
           NEW e, e = NoPrev \/ (e \in t /\ KindFamily(e.kind) = KindFamily(change.kind))
    PROVE  AreMutations(PlanNew(change, actor, e), t, n)
  <1>1. change.kind \in Kinds /\ (e # NoPrev => e \in t /\ e.kind \in Kinds)
    BY DEF IsRequest, Kinds, IsTable, IsRow
  <1>2. CASE KindFamily(change.kind) = "text"
    <2>1. change.kind \in {"variable", "condition"} /\ (e # NoPrev => e.kind \in {"variable", "condition"})
      BY <1>1, <1>2, KindsAre DEF KindFamily
    <2> QED
      BY <1>1, <1>2, <2>1, PlanTextIs DEF PlanNew
  <1>3. CASE KindFamily(change.kind) = "measurement"
    <2>1. e # NoPrev => e.kind = "measurement"
      BY <1>1, <1>3, FamiliesAre
    <2> QED
      BY <1>1, <1>3, <2>1, PlanMeasurementIs DEF PlanNew
  <1>4. CASE KindFamily(change.kind) = "sequence"
    <2>1. e # NoPrev => e.kind = "sequence"
      BY <1>1, <1>4, FamiliesAre
    <2> QED
      BY <1>1, <1>4, <2>1, PlanSequenceIs DEF PlanNew
  <1> QED
    BY <1>1, <1>2, <1>3, <1>4, FamiliesAre

LEMMA PlanChangeIs ==
    ASSUME NEW t, NEW n, IsTable(t, n), NEW change, IsRequest(change), NEW actor \in 0..n,
           NEW e, e = NoPrev \/ e \in t
    PROVE  AreMutations(PlanChange(change, actor, e), t, n)
  <1>1. CASE Clashes(change, e)
    <2>1. AreMutations(Delete(e), t, n)
      BY MutationsAre
    <2>2. AreMutations(PlanNew(change, actor, NoPrev), t, n)
      BY PlanNewIs
    <2> QED
      BY <1>1, <2>1, <2>2, MoreMutations DEF PlanChange
  <1>2. CASE ~Clashes(change, e)
    <2>1. e = NoPrev \/ (e \in t /\ KindFamily(e.kind) = KindFamily(change.kind))
      BY <1>2 DEF Clashes
    <2>2. AreMutations(PlanNew(change, actor, e), t, n)
      BY <2>1, PlanNewIs
    <2>3. AreMutations(Rekind(change, e), t, n)
      <3>1. CASE e = NoPrev \/ e.kind = change.kind
        BY <3>1, MutationsAre DEF Rekind
      <3>2. CASE e # NoPrev /\ e.kind # change.kind
        <4> DEFINE m == [op |-> "kind", id |-> e.id, kind |-> change.kind]
        <4>1. e \in t /\ {change.kind, e.kind} \subseteq {"variable", "condition"}
          <5>1. e \in t /\ e.kind \in Kinds /\ change.kind \in Kinds /\ KindFamily(e.kind) = KindFamily(change.kind)
            BY <2>1, <3>2 DEF IsTable, IsRow, IsRequest, Kinds
          <5> QED
            BY <3>2, <5>1, KindsAre DEF KindFamily
        <4>2. IsMutation(m, t, n)
          BY <4>1 DEF IsMutation
        <4> HIDE DEF m
        <4>3. AreMutations(<<m>>, t, n)
          BY <4>2, OneMutation
        <4> QED
          BY <3>2, <4>3 DEF Rekind, m
      <3> QED
        BY <3>1, <3>2
    <2> QED
      BY <1>2, <2>2, <2>3, MoreMutations DEF PlanChange
  <1> QED
    BY <1>1, <1>2

IsBatch(b) == IsSeq(b) /\ \A c \in Range(b) : IsRequest(c)
IsAudited(c) == c.prev # NoPrev => c.prev.kind \in Kinds /\ Fits(c.prev.kind, c.prev.cols)
IsAudit(a) == IsSeq(a) /\ \A c \in Range(a) : IsAudited(c)
IsPlan(p, t, n) == AreMutations(p.mutations, t, n) /\ IsAudit(p.audit)

LEMMA AuditedIs ==
    ASSUME NEW change, NEW e
    PROVE  LET c == Audited(change, e)
           IN /\ c.target = change.target /\ c.kind = change.kind /\ c.key = change.key /\ c.op = change.op
              /\ e = NoPrev => c.prev = NoPrev
              /\ e # NoPrev => c.prev.kind = e.kind /\ c.prev.cols = e.cols
  BY DEF Audited

\* A batch adds names to those of the actors, until each of its targets has one.
LEMMA VivifiedExtends ==
    ASSUME NEW changes, IsSeq(changes), NEW actors0, IsSeq(actors0)
    PROVE  /\ Extends(Vivified(changes, actors0), actors0)
           /\ \A k \in DOMAIN changes :
                 changes[k].target \in {"world", "pc"} \cup Range(Vivified(changes, actors0))
  <1> DEFINE n == Len(changes)
             More(known, c) == IF c.target \in {"world", "pc"} \cup Range(known)
                               THEN known ELSE Append(known, c.target)
  <1>1. PICK f : /\ f = [i \in 0..n |-> IF i = 0 THEN actors0 ELSE More(f[i - 1], changes[i])]
                 /\ Vivified(changes, actors0) = f[n]
    BY VivifiedIs
  <1>2. n \in Nat /\ DOMAIN changes = 1..n /\ Len(actors0) \in Nat /\ DOMAIN actors0 = 1..Len(actors0)
    BY SeqIs
  <1>3. ASSUME NEW known, Extends(known, actors0), NEW c
        PROVE  /\ Extends(More(known, c), actors0)
               /\ Range(known) \subseteq Range(More(known, c))
               /\ c.target \in {"world", "pc"} \cup Range(More(known, c))
    <2>1. CASE c.target \in {"world", "pc"} \cup Range(known)
      BY <1>3, <2>1
    <2>2. CASE c.target \notin {"world", "pc"} \cup Range(known)
      <3> DEFINE more == Append(known, c.target)
      <3>1. /\ IsSeq(more) /\ Len(more) = Len(known) + 1 /\ Range(more) = Range(known) \cup {c.target}
            /\ \A i \in DOMAIN known : more[i] = known[i]
        BY <1>3, Appended DEF Extends
      <3>2. Len(known) \in Nat /\ DOMAIN known = 1..Len(known) /\ Len(actors0) <= Len(known)
        BY <1>3, SeqIs DEF Extends
      <3>3. More(known, c) = more
        BY <2>2
      <3> HIDE DEF more, More
      <3> QED
        BY <1>2, <1>3, <3>1, <3>2, <3>3 DEF Extends
    <2> QED
      BY <2>1, <2>2
  <1> HIDE DEF More, n
  <1> DEFINE S == {i \in 0..n : /\ Extends(f[i], actors0)
                                /\ \A k \in 1..i : changes[k].target \in {"world", "pc"} \cup Range(f[i])}
  <1>4. 0 \in S
    <2>1. f[0] = actors0
      BY <1>1, <1>2
    <2> QED
      BY <1>2, <2>1 DEF Extends
  <1>5. ASSUME NEW i \in 1..n, i - 1 \in S PROVE i \in S
    <2>1. f[i] = More(f[i - 1], changes[i])
      BY <1>1, <1>2
    <2>2. /\ Extends(f[i], actors0) /\ Range(f[i - 1]) \subseteq Range(f[i])
          /\ changes[i].target \in {"world", "pc"} \cup Range(f[i])
      BY <1>3, <1>5, <2>1
    <2>3. ASSUME NEW k \in 1..i PROVE changes[k].target \in {"world", "pc"} \cup Range(f[i])
      <3>1. CASE k = i
        BY <2>2, <3>1
      <3>2. CASE k # i
        <4>1. k \in 1..i - 1
          BY <1>2, <3>2
        <4> QED
          BY <1>5, <2>2, <4>1
      <3> QED
        BY <3>1, <3>2
    <2> QED
      BY <2>2, <2>3
  <1>6. n \in S
    <2> HIDE DEF S
    <2>1. 0..n \subseteq S
      BY <1>2, <1>4, <1>5, UpTo
    <2> QED
      BY <1>2, <2>1
  <1> QED
    BY <1>1, <1>2, <1>6

LEMMA PlanMoreIs ==
    ASSUME NEW t, NEW n, IsTable(t, n), NEW change, IsRequest(change), NEW actor \in 0..n,
           NEW p, IsPlan(p, t, n)
    PROVE  IsPlan(PlanMore(p, change, actor, t), t, n)
  <1> DEFINE e == Found(t, p.freed, actor, change.key)
  <1>1. CASE change.target # "world" /\ actor = World
    BY <1>1 DEF PlanMore
  <1>2. CASE ~(change.target # "world" /\ actor = World)
    <2>1. e = NoPrev \/ e \in t
      BY FoundIs
    <2>2. PlanMore(p, change, actor, t) = PlanStep(p, change, actor, e)
      <3>1. {PlanStep(p, change, actor, d) : d \in {e}} = {PlanStep(p, change, actor, e)}
        OBVIOUS
      <3> QED
        BY <1>2, <3>1, TheIs DEF PlanMore
    <2> HIDE DEF e
    <2>3. AreMutations(p.mutations \o PlanChange(change, actor, e), t, n)
      BY <2>1, PlanChangeIs, MoreMutations DEF IsPlan
    <2>4. IsAudited(Audited(change, e))
      BY <2>1, AuditedIs DEF IsAudited, IsTable, IsRow
    <2>5. IsAudit(Append(p.audit, Audited(change, e)))
      BY <2>4, Appended DEF IsPlan, IsAudit
    <2> QED
      BY <2>2, <2>3, <2>5 DEF PlanStep, IsPlan
  <1> QED
    BY <1>1, <1>2

LEMMA PlanStateChangesIs ==
    ASSUME NEW t, NEW actors0, IsSeq(actors0), NEW changes, IsBatch(changes), NEW n,
           n = Len(Vivified(changes, actors0)), IsTable(t, n)
    PROVE  IsPlan(PlanStateChanges(changes, actors0, t), t, n)
  <1> DEFINE m == Len(changes)
             known == Vivified(changes, actors0)
  <1>1. PICK f : /\ f = [i \in 0..m |-> IF i = 0 THEN NoPlan ELSE Planned(f[i - 1], changes[i], known, t)]
                 /\ PlanStateChanges(changes, actors0, t) = f[m]
    BY PlanIs DEF IsBatch
  <1>2. m \in Nat /\ DOMAIN changes = 1..m /\ \A i \in 1..m : IsRequest(changes[i])
    BY SeqIs DEF IsBatch, Range
  <1>3. IsSeq(known)
    BY VivifiedExtends DEF IsBatch, Extends
  <1> HIDE DEF known, m
  <1> DEFINE S == {i \in 0..m : IsPlan(f[i], t, n)}
  <1>4. 0 \in S
    <2>1. f[0] = NoPlan
      BY <1>1, <1>2
    <2>2. IsAudit(<<>>) /\ AreMutations(<<>>, t, n)
      BY Tuples DEF IsAudit, AreMutations
    <2> QED
      BY <1>2, <2>1, <2>2 DEF NoPlan, IsPlan
  <1>5. ASSUME NEW i \in 1..m, i - 1 \in S PROVE i \in S
    <2>1. f[i] = PlanMore(f[i - 1], changes[i], ResolveActor(changes[i].target, known), t)
      BY <1>1, <1>2 DEF Planned
    <2>2. ResolveActor(changes[i].target, known) \in 0..n
      BY <1>3, ResolveIs DEF known
    <2> QED
      BY <1>2, <1>5, <2>1, <2>2, PlanMoreIs
  <1>6. m \in S
    <2> HIDE DEF S
    <2>1. 0..m \subseteq S
      BY <1>2, <1>4, <1>5, UpTo
    <2> QED
      BY <1>2, <2>1
  <1> QED
    BY <1>1, <1>6

-----------------------------------------------------------------------------
(* Writes keep the table typed                                             *)

\* Some rows of t are replaced by typed rows of the same ids.
Rewrites(new, t, hit, U, n) ==
    /\ hit \subseteq t
    /\ \A e \in hit : IsRow(U[e], n) /\ U[e].id = e.id
    /\ \A d \in new : d \in t \ hit \/ \E e \in hit : d = U[e]

LEMMA Rewritten ==
    ASSUME NEW t, NEW n, IsTable(t, n), NEW hit, NEW U, NEW new, Rewrites(new, t, hit, U, n)
    PROVE  /\ IsTable(new, n)
           /\ \A b : Below(t, b) => Below(new, b)
           /\ \A d \in new : \E e \in t : d.id = e.id /\ (d = e \/ (e \in hit /\ d = U[e]))
  <1> DEFINE Of(d, e) == d.id = e.id /\ ((d = e /\ e \notin hit) \/ (e \in hit /\ d = U[e]))
  <1>1. \A d \in new : \E e \in t : Of(d, e)
    BY DEF Rewrites
  <1>2. \A d \in new : IsRow(d, n)
    BY DEF IsTable, Rewrites
  <1>3. Keyed(new)
    <2> SUFFICES ASSUME NEW c \in new, NEW d \in new, c.id = d.id PROVE c = d
      BY DEF Keyed
    <2>1. PICK a \in t, b \in t : Of(c, a) /\ Of(d, b)
      BY <1>1
    <2>2. a.id = b.id
      BY <2>1
    <2>3. a = b
      BY <2>2 DEF IsTable, Keyed
    <2> QED
      BY <2>1, <2>3
  <1>4. \A b : Below(t, b) => Below(new, b)
    BY <1>1 DEF Below
  <1>5. IsTable(new, n)
    BY <1>2, <1>3, <1>4 DEF IsTable
  <1> QED
    BY <1>1, <1>4, <1>5

LEMMA Fewer ==
    ASSUME NEW t, NEW n, IsTable(t, n), NEW u, u \subseteq t
    PROVE  IsTable(u, n) /\ \A b : Below(t, b) => Below(u, b)
  BY DEF IsTable, Keyed, Below

Db(t, ok, next) == [entries |-> t, ok |-> ok, next |-> next]

LEMMA DbIs ==
    ASSUME NEW db, NEW n, IsDb(db, n)
    PROVE  /\ db = Db(db.entries, db.ok, db.next)
           /\ Failed(db) = Db(db.entries, FALSE, db.next)
           /\ \A u : [db EXCEPT !.entries = u] = Db(u, db.ok, db.next)
           /\ \A u, k : [db EXCEPT !.entries = u, !.next = k] = Db(u, db.ok, k)
  <1>1. PICK t, ok, next : db = Db(t, ok, next)
    BY DEF IsDb, Db
  <1>2. db.entries = t /\ db.ok = ok /\ db.next = next
    BY <1>1 DEF Db
  <1>3. Failed(db) = Db(t, FALSE, next)
    <2>1. ASSUME NEW ko PROVE [db EXCEPT !.ok = ko] = Db(t, ko, next)
      BY <1>1 DEF Db
    <2> QED
      BY <2>1, Zenon DEF Failed
  <1>4. ASSUME NEW u PROVE [db EXCEPT !.entries = u] = Db(u, ok, next)
    BY <1>1 DEF Db
  <1>5. ASSUME NEW u, NEW k PROVE [db EXCEPT !.entries = u, !.next = k] = Db(u, ok, k)
    <2>1. [db EXCEPT !.entries = u] = Db(u, ok, next)
      BY <1>4
    <2>2. [Db(u, ok, next) EXCEPT !.next = k] = Db(u, ok, k)
      BY DEF Db
    <2> QED
      BY <2>1, <2>2
  <1>6. /\ db = Db(db.entries, db.ok, db.next)
        /\ Failed(db) = Db(db.entries, FALSE, db.next)
    BY <1>1, <1>2, <1>3, Zenon
  <1>7. /\ \A u : [db EXCEPT !.entries = u] = Db(u, db.ok, db.next)
        /\ \A u, k : [db EXCEPT !.entries = u, !.next = k] = Db(u, db.ok, k)
    BY <1>2, <1>4, <1>5, Zenon
  <1> QED
    BY <1>6, <1>7

LEMMA InsertEntryIs ==
    ASSUME NEW db, NEW n, IsDb(db, n), NEW actor \in 0..n, NEW kind \in Kinds, NEW key, NEW cols, Fits(kind, cols)
    PROVE  LET after == InsertEntry(db, actor, kind, key, cols)
               new == Entry(db.next, actor, kind, key, cols)
           IN /\ IsDb(after, n)
              /\ \/ after.entries = db.entries /\ after.next = db.next /\ ~after.ok
                 \/ after.entries = db.entries \cup {new} /\ after.next = db.next + 1 /\ after.ok = db.ok
              /\ Collides(db.entries, actor, kind, key) <=> after.entries = db.entries
  <1> DEFINE after == InsertEntry(db, actor, kind, key, cols)
             new == Entry(db.next, actor, kind, key, cols)
             u == db.entries \cup {new}
  <1>1. new \notin db.entries /\ new.id = db.next
    BY EntryIs DEF IsDb, Below
  <1>2. CASE Collides(db.entries, actor, kind, key)
    <2>1. after = Db(db.entries, FALSE, db.next)
      BY <1>2, DbIs DEF InsertEntry
    <2> HIDE DEF after
    <2> QED
      BY <1>2, <2>1 DEF IsDb, Db, after
  <1>3. CASE ~Collides(db.entries, actor, kind, key)
    <2>1. after = Db(u, db.ok, db.next + 1)
      <3>1. after = [db EXCEPT !.entries = u, !.next = db.next + 1]
        BY <1>3 DEF InsertEntry, Entry
      <3>2. \A w, k : [db EXCEPT !.entries = w, !.next = k] = Db(w, db.ok, k)
        BY DbIs, Zenon
      <3> HIDE DEF after, u
      <3> QED
        BY <3>1, <3>2, Zenon
    <2>2. IsRow(new, n)
      BY EntryIs DEF IsRow, IsDb
    <2>3. Below(u, db.next + 1)
      <3> HIDE DEF new
      <3> QED
        BY <1>1 DEF Below, IsDb, IsTable, IsRow
    <2>4. Keyed(u)
      <3> HIDE DEF new
      <3> QED
        BY <1>1 DEF Keyed, Below, IsDb, IsTable, IsRow
    <2>5. IsTable(u, n) /\ db.next + 1 \in Nat \ {0}
      <3> HIDE DEF new
      <3> QED
        BY <2>2, <2>3, <2>4 DEF IsTable, IsDb
    <2>6. u # db.entries
      BY <1>1
    <2> HIDE DEF after, u, new
    <2>7. IsDb(after, n)
      BY <2>1, <2>3, <2>5 DEF IsDb, Db
    <2> QED
      BY <1>3, <2>1, <2>6, <2>7 DEF after, u, new, Db
  <1> QED
    BY <1>2, <1>3

\* A write that was planned against t: rows of t keep their ids, and whether
\* they are sequences or measurements.
SameFamily(k, j) == (k = "sequence" <=> j = "sequence") /\ (k = "measurement" <=> j = "measurement")
Follows(db, t, n) ==
    /\ IsTable(t, n) /\ IsDb(db, n) /\ Below(t, db.next)
    /\ \A d \in db.entries, e \in t : d.id = e.id => SameFamily(d.kind, e.kind)

Changed(e, m) ==
    CASE m.op = "value" -> [e EXCEPT !.cols.value = m.value]
      [] m.op = "kind" -> [e EXCEPT !.kind = m.kind]
      [] m.op = "measure" -> [e EXCEPT !.cols.num = IF m.num = NoNum THEN @ ELSE m.num,
                                       !.cols.lo = m.lo, !.cols.hi = m.hi]

LEMMA ChangedIs ==
    ASSUME NEW n, NEW e, IsRow(e, n), NEW m, m.op \in {"value", "kind", "measure"}
    PROVE  Changed(e, m) =
              Entry(e.id, e.actor, IF m.op = "kind" THEN m.kind ELSE e.kind, e.key,
                    Columns(IF m.op = "value" THEN m.value ELSE e.cols.value,
                            IF m.op = "measure" /\ m.num # NoNum THEN m.num ELSE e.cols.num,
                            IF m.op = "measure" THEN m.lo ELSE e.cols.lo,
                            IF m.op = "measure" THEN m.hi ELSE e.cols.hi))
  <1>1. e = Entry(e.id, e.actor, e.kind, e.key, Columns(e.cols.value, e.cols.num, e.cols.lo, e.cols.hi))
    BY DEF IsRow, Fits, IsCols
  <1>2. CASE m.op = "value"
    <2>1. Changed(e, m) = [e EXCEPT !.cols.value = m.value]
      BY <1>2 DEF Changed
    <2> QED
      BY <1>1, <1>2, <2>1 DEF Entry, Columns
  <1>3. CASE m.op = "kind"
    <2>1. Changed(e, m) = [e EXCEPT !.kind = m.kind]
      BY <1>3 DEF Changed
    <2> QED
      BY <1>1, <1>3, <2>1 DEF Entry, Columns
  <1>4. CASE m.op = "measure"
    <2> DEFINE num == IF m.num = NoNum THEN e.cols.num ELSE m.num
    <2>1. Changed(e, m) = [e EXCEPT !.cols.num = IF m.num = NoNum THEN @ ELSE m.num,
                                    !.cols.lo = m.lo, !.cols.hi = m.hi]
      BY <1>4 DEF Changed
    <2>2. Changed(e, m) = [e EXCEPT !.cols = [@ EXCEPT !.num = num, !.lo = m.lo, !.hi = m.hi]]
      BY <1>1, <2>1 DEF Entry, Columns
    <2>3. [e.cols EXCEPT !.num = num, !.lo = m.lo, !.hi = m.hi] = Columns(e.cols.value, num, m.lo, m.hi)
      <3>1. PICK v, x, lo, hi : e.cols = Columns(v, x, lo, hi) /\ v = e.cols.value
        BY DEF IsRow, Fits, IsCols
      <3> HIDE DEF num
      <3>2. [Columns(v, x, lo, hi) EXCEPT !.num = num] = Columns(v, num, lo, hi)
        BY DEF Columns
      <3>3. [Columns(v, num, lo, hi) EXCEPT !.lo = m.lo] = Columns(v, num, m.lo, hi)
        BY DEF Columns
      <3>4. [Columns(v, num, m.lo, hi) EXCEPT !.hi = m.hi] = Columns(v, num, m.lo, m.hi)
        BY DEF Columns
      <3> QED
        BY <3>1, <3>2, <3>3, <3>4
    <2> HIDE DEF num
    <2>4. Changed(e, m) = Entry(e.id, e.actor, e.kind, e.key, Columns(e.cols.value, num, m.lo, m.hi))
      BY <1>1, <2>2, <2>3 DEF Entry
    <2> QED
      BY <1>4, <2>4 DEF num
  <1> QED
    BY <1>2, <1>3, <1>4

\* What one statement of a plan does.
LEMMA PersistIs ==
    ASSUME NEW db, NEW m
    PROVE  LET hit == {e \in db.entries : e.id = m.id}
               others == db.entries \ hit
               after == Persist(db, m)
           IN /\ ~db.ok => after = db
              /\ db.ok /\ m.op = "insert" => after = InsertEntry(db, m.actor, m.kind, m.key, m.cols)
              /\ db.ok /\ m.op = "delete" => after = [db EXCEPT !.entries = others]
              /\ db.ok /\ m.op \in {"value", "kind", "measure"} =>
                    IF m.op = "kind" /\ \E e \in hit : Collides(others, e.actor, m.kind, e.key)
                    THEN after = Failed(db)
                    ELSE after = [db EXCEPT !.entries = others \cup {Changed(e, m) : e \in hit}]
  <1> DEFINE hit == {e \in db.entries : e.id = m.id}
             others == db.entries \ hit
             new == {Changed(e, m) : e \in hit}
             ko == m.op = "kind" /\ \E e \in hit : Collides(others, e.actor, m.kind, e.key)
  <1>1. Persist(db, m) =
           IF ~db.ok THEN db
           ELSE CASE m.op = "insert" -> InsertEntry(db, m.actor, m.kind, m.key, m.cols)
             [] m.op = "delete" -> [db EXCEPT !.entries = others]
             [] ko -> Failed(db)
             [] OTHER -> [db EXCEPT !.entries = others \cup new]
    BY DEF Persist, Changed
  <1>2. ko => m.op = "kind"
    OBVIOUS
  <1> HIDE DEF hit, others, new, ko
  <1>3. ~db.ok => Persist(db, m) = db
    BY <1>1
  <1>4. db.ok /\ m.op = "insert" => Persist(db, m) = InsertEntry(db, m.actor, m.kind, m.key, m.cols)
    BY <1>1, <1>2
  <1>5. db.ok /\ m.op = "delete" => Persist(db, m) = [db EXCEPT !.entries = others]
    BY <1>1, <1>2
  <1>6. db.ok /\ m.op \in {"value", "kind", "measure"} =>
           IF ko THEN Persist(db, m) = Failed(db)
           ELSE Persist(db, m) = [db EXCEPT !.entries = others \cup new]
    BY <1>1, <1>2
  <1> QED
    BY <1>3, <1>4, <1>5, <1>6 DEF hit, others, new, ko

LEMMA PersistFollows ==
    ASSUME NEW t, NEW n, NEW db, Follows(db, t, n), NEW m, IsMutation(m, t, n)
    PROVE  Follows(Persist(db, m), t, n)
  <1> DEFINE after == Persist(db, m)
             hit == {e \in db.entries : e.id = m.id}
             others == db.entries \ hit
             new == others \cup {Changed(e, m) : e \in hit}
  <1>0. /\ IsDb(db, n) /\ IsTable(db.entries, n) /\ IsTable(t, n) /\ Below(db.entries, db.next) /\ Below(t, db.next)
        /\ db.next \in Nat \ {0}
        /\ \A d \in db.entries, e \in t : d.id = e.id => SameFamily(d.kind, e.kind)
    BY DEF Follows, IsDb
  <1>1. CASE ~db.ok
    BY <1>1, PersistIs
  <1>2. CASE db.ok /\ m.op = "insert"
    <2> DEFINE row == Entry(db.next, m.actor, m.kind, m.key, m.cols)
    <2>1. m.actor \in 0..n /\ m.kind \in Kinds /\ Fits(m.kind, m.cols)
      BY <1>2 DEF IsMutation
    <2>2. /\ IsDb(after, n)
          /\ \/ after.entries = db.entries /\ after.next = db.next
             \/ after.entries = db.entries \cup {row} /\ after.next = db.next + 1
      BY <1>0, <1>2, <2>1, PersistIs, InsertEntryIs
    <2>3. row.id = db.next
      BY EntryIs
    <2> HIDE DEF after, row
    <2>4. Below(t, after.next)
      BY <1>0, <2>2 DEF Below, IsTable, IsRow
    <2>5. ASSUME NEW d \in after.entries, NEW e \in t, d.id = e.id
          PROVE  SameFamily(d.kind, e.kind)
      BY <1>0, <2>2, <2>3, <2>5 DEF Below
    <2> QED
      BY <2>2, <2>4, <2>5 DEF Follows, after
  <1>3. CASE db.ok /\ m.op = "delete"
    <2>1. after = Db(others, db.ok, db.next)
      <3>1. after = [db EXCEPT !.entries = others]
        BY <1>3, PersistIs
      <3>2. \A w : [db EXCEPT !.entries = w] = Db(w, db.ok, db.next)
        BY <1>0, DbIs
      <3> HIDE DEF others, after
      <3> QED
        BY <3>1, <3>2
    <2>2. IsTable(others, n) /\ Below(others, db.next)
      BY <1>0, Fewer
    <2>3. IsDb(after, n)
      BY <1>0, <2>1, <2>2 DEF IsDb, Db
    <2>4. after.entries \subseteq db.entries /\ after.next = db.next
      BY <2>1 DEF Db
    <2> HIDE DEF after
    <2> QED
      BY <1>0, <2>3, <2>4 DEF Follows, after
  <1>4. CASE db.ok /\ m.op \in {"value", "kind", "measure"}
    <2>1. CASE after = Failed(db)
      <3>1. after = Db(db.entries, FALSE, db.next)
        BY <1>0, <2>1, DbIs
      <3>2. after.entries = db.entries /\ after.next = db.next /\ IsDb(after, n)
        BY <1>0, <3>1 DEF IsDb, Db
      <3> HIDE DEF after
      <3> QED
        BY <1>0, <3>2 DEF Follows, after
    <2>2. CASE after = [db EXCEPT !.entries = new]
      <3>1. after = Db(new, db.ok, db.next)
        BY <1>0, <2>2, DbIs
      <3> DEFINE U == [e \in hit |-> Changed(e, m)]
      <3>2. ASSUME NEW e \in hit
            PROVE  /\ IsRow(U[e], n) /\ U[e].id = e.id
                   /\ SameFamily(U[e].kind, e.kind)
        <4> DEFINE kind == IF m.op = "kind" THEN m.kind ELSE e.kind
                   value == IF m.op = "value" THEN m.value ELSE e.cols.value
                   num == IF m.op = "measure" /\ m.num # NoNum THEN m.num ELSE e.cols.num
                   lo == IF m.op = "measure" THEN m.lo ELSE e.cols.lo
                   hi == IF m.op = "measure" THEN m.hi ELSE e.cols.hi
                   cols == Columns(value, num, lo, hi)
        <4>1. IsRow(e, n) /\ e.id = m.id
          BY <1>0 DEF IsTable
        <4>2. U[e] = Entry(e.id, e.actor, kind, e.key, cols)
          BY <1>4, <4>1, ChangedIs
        <4>3. kind \in Kinds /\ SameFamily(kind, e.kind)
          <5>1. m.op = "kind" => /\ m.kind \in {"variable", "condition"}
                                 /\ e.kind # "sequence" /\ e.kind # "measurement"
            BY <1>0, <1>4, <4>1 DEF IsMutation, SameFamily
          <5> QED
            BY <4>1, <5>1, KindsAre DEF IsRow, SameFamily
        <4>4. {num, lo, hi} \subseteq Num
          <5>1. m.op = "measure" => {m.num, m.lo, m.hi} \subseteq Num
            BY <1>4 DEF IsMutation
          <5> QED
            BY <4>1, <5>1 DEF IsRow, Fits, IsCols
        <4>5. e.kind = "sequence" => IsPayload(value)
          <5>1. m.op = "value" /\ e.kind = "sequence" => IsPayload(m.value)
            <6> SUFFICES ASSUME m.op = "value", e.kind = "sequence" PROVE IsPayload(m.value)
              OBVIOUS
            <6>1. PICK d \in t : d.id = m.id /\ (d.kind = "sequence" => IsPayload(m.value))
              BY MutationOfOp
            <6> QED
              BY <1>0, <4>1, <6>1 DEF SameFamily
          <5> QED
            BY <4>1, <5>1 DEF IsRow, Fits
        <4>6. e.kind # "measurement" => cols = TextColumns(value)
          <5>1. e.kind # "measurement" => m.op # "measure"
            BY <1>0, <1>4, <4>1 DEF IsMutation, SameFamily
          <5>2. e.kind # "measurement" => e.cols.num = NoNum /\ e.cols.lo = NoNum /\ e.cols.hi = NoNum
            BY <4>1, ColumnsAre DEF IsRow, Fits, TextColumns
          <5> QED
            BY <5>1, <5>2 DEF TextColumns
        <4>8. Fits(kind, cols)
          <5> HIDE DEF value, num, lo, hi, kind
          <5> QED
            BY <4>3, <4>4, <4>5, <4>6, ColumnsAre DEF Fits, SameFamily
        <4> HIDE DEF kind, cols, U
        <4>7. IsRow(U[e], n)
          BY <4>1, <4>2, <4>3, <4>8, EntryIs DEF IsRow
        <4> QED
          BY <4>2, <4>3, <4>7, EntryIs
      <3>3. new = others \cup {U[e] : e \in hit} /\ hit \subseteq db.entries
        OBVIOUS
      <3> HIDE DEF U, hit, new
      <3>4. /\ IsTable(new, n) /\ Below(new, db.next)
            /\ \A d \in new : \E e \in db.entries : d.id = e.id /\ (d = e \/ (e \in hit /\ d = U[e]))
        <4>1. \A e \in hit : IsRow(U[e], n) /\ U[e].id = e.id
          BY <3>2
        <4> DEFINE old == db.entries
        <4>2. \A d \in new : d \in old \ hit \/ \E e \in hit : d = U[e]
          BY <3>3
        <4>3. IsTable(old, n)
          BY <1>0
        <4>5. hit \subseteq old
          BY <3>3
        <4>6. Rewrites(new, old, hit, U, n)
          BY <4>1, <4>2, <4>5 DEF Rewrites
        <4> HIDE DEF others, old
        <4>4. /\ IsTable(new, n)
              /\ \A b : Below(old, b) => Below(new, b)
              /\ \A d \in new : \E e \in old : d.id = e.id /\ (d = e \/ (e \in hit /\ d = U[e]))
          BY <4>3, <4>6, Rewritten
        <4> QED
          BY <1>0, <4>4 DEF old
      <3>5. IsDb(after, n) /\ after.entries = new /\ after.next = db.next
        BY <1>0, <3>1, <3>4 DEF IsDb, Db
      <3>6. ASSUME NEW d \in new, NEW e \in t, d.id = e.id
            PROVE  SameFamily(d.kind, e.kind)
        BY <1>0, <3>2, <3>4, <3>6 DEF SameFamily
      <3> HIDE DEF after
      <3> QED
        BY <1>0, <3>5, <3>6 DEF Follows, after
    <2> QED
      BY <1>4, <2>1, <2>2, PersistIs
  <1> QED
    BY <1>1, <1>2, <1>3, <1>4 DEF IsMutation

LEMMA WrittenFollows ==
    ASSUME NEW t, NEW n, IsTable(t, n), NEW mutations, AreMutations(mutations, t, n)
    PROVE  Follows(Written(t, mutations), t, n)
  <1> DEFINE k == Len(mutations)
  <1>1. PICK f : /\ f = [i \in 0..k |-> IF i = 0 THEN Table(t) ELSE Persist(f[i - 1], mutations[i])]
                 /\ Written(t, mutations) = f[k]
    BY WrittenIs DEF AreMutations
  <1>2. k \in Nat /\ \A i \in 1..k : IsMutation(mutations[i], t, n)
    BY SeqIs DEF AreMutations, Range
  <1> HIDE DEF k
  <1> DEFINE S == {i \in 0..k : Follows(f[i], t, n)}
  <1>3. 0 \in S
    <2>1. f[0] = Table(t)
      BY <1>1, <1>2
    <2>2. IsDb(Table(t), n) /\ Table(t).entries = t
      BY TableIs
    <2>3. Follows(Table(t), t, n)
      BY <2>2 DEF Follows, IsDb, IsTable, Keyed, SameFamily
    <2> QED
      BY <1>2, <2>1, <2>3
  <1>4. ASSUME NEW i \in 1..k, i - 1 \in S PROVE i \in S
    BY <1>1, <1>2, <1>4, PersistFollows
  <1>5. k \in S
    <2> HIDE DEF S
    <2>1. 0..k \subseteq S
      BY <1>2, <1>3, <1>4, UpTo
    <2> QED
      BY <1>2, <2>1
  <1> QED
    BY <1>1, <1>5

-----------------------------------------------------------------------------
(* So do reverts                                                           *)

IsUndo(m, n) ==
    \/ m.op = "delete"
    \/ m.op = "restore" /\ (m.kind = "sequence" => IsPayload(m.value))
    \/ m.op = "measure" /\ m.actor \in 0..n /\ m.kind = "measurement" /\ IsCols(m.cols)
AreUndos(s, n) == IsSeq(s) /\ \A m \in Range(s) : IsUndo(m, n)

LEMMA PlanRevertChangeIs ==
    ASSUME NEW actors0, IsSeq(actors0), NEW c, IsAudited(c)
    PROVE  AreUndos(PlanRevertChange(c, actors0), Len(actors0))
  <1> DEFINE n == Len(actors0)
             a == ResolveActor(c.target, actors0)
             gone == DeleteByKey(a, c)
  <1>1. a \in 0..n
    BY ResolveIs
  <1> HIDE DEF a
  <1>2. IsUndo(gone, n)
    BY DEF DeleteByKey, IsUndo
  <1>3. c.prev # NoPrev /\ c.prev.kind = "measurement" => IsUndo(RestoreMeasurement(a, c), n)
    BY <1>1 DEF RestoreMeasurement, IsUndo, IsAudited, Fits
  <1>4. c.prev # NoPrev => IsUndo(Restore(a, c, c.prev.kind), n)
    BY DEF Restore, IsUndo, IsAudited, Fits
  <1> HIDE DEF gone, n
  <1>5. \A m : IsUndo(m, n) => AreUndos(<<m>>, n)
    BY Tuples DEF AreUndos
  <1>6. AreUndos(<<>>, n)
    BY Tuples DEF AreUndos
  <1>7. CASE c.prev # NoPrev /\ c.prev.kind # c.kind
    <2>1. AreUndos(RevertReplacedKind(a, c), n)
      BY <1>3, <1>4, <1>5, <1>6, <1>7 DEF RevertReplacedKind
    <2>2. AreUndos(<<gone>>, n)
      BY <1>2, <1>5
    <2>3. AreUndos(<<gone>> \o RevertReplacedKind(a, c), n)
      BY <2>1, <2>2, Joined DEF AreUndos
    <2> QED
      BY <1>7, <2>3 DEF PlanRevertChange, a, n, gone
  <1>8. CASE c.prev = NoPrev \/ c.prev.kind = c.kind
    <2>1. IsUndo(RevertSameKind(a, c), n)
      BY <1>2, <1>3, <1>4, <1>8 DEF RevertSameKind, gone
    <2>2. AreUndos(<<RevertSameKind(a, c)>>, n)
      BY <1>5, <2>1
    <2> QED
      BY <1>8, <2>2 DEF PlanRevertChange, a, n
  <1> QED
    BY <1>7, <1>8

LEMMA PlanRevertChangesIs ==
    ASSUME NEW actors0, IsSeq(actors0), NEW audit, IsAudit(audit)
    PROVE  AreUndos(PlanRevertChanges(audit, actors0), Len(actors0))
  <1> DEFINE n == Len(actors0)
             k == Len(audit)
  <1>1. PICK f : /\ f = [i \in 0..k |-> IF i = 0 THEN <<>>
                                        ELSE f[i - 1] \o PlanRevertChange(audit[k + 1 - i], actors0)]
                 /\ PlanRevertChanges(audit, actors0) = f[k]
    BY RevertPlanIs DEF IsAudit
  <1>2. k \in Nat /\ \A i \in 1..k : IsAudited(audit[i])
    BY SeqIs DEF IsAudit, Range
  <1> HIDE DEF k, n
  <1> DEFINE S == {i \in 0..k : AreUndos(f[i], n)}
  <1>3. 0 \in S
    BY <1>1, <1>2, Tuples DEF AreUndos
  <1>4. ASSUME NEW i \in 1..k, i - 1 \in S PROVE i \in S
    <2>1. f[i] = f[i - 1] \o PlanRevertChange(audit[k + 1 - i], actors0)
      BY <1>1, <1>2
    <2>2. k + 1 - i \in 1..k
      BY <1>2
    <2>3. AreUndos(PlanRevertChange(audit[k + 1 - i], actors0), n)
      BY <1>2, <2>2, PlanRevertChangeIs DEF n
    <2>4. AreUndos(f[i - 1], n)
      BY <1>4
    <2>5. AreUndos(f[i - 1] \o PlanRevertChange(audit[k + 1 - i], actors0), n)
      BY <2>3, <2>4, Joined DEF AreUndos
    <2>6. AreUndos(f[i], n)
      BY <2>1, <2>5, Zenon
    <2>7. i \in 0..k
      BY <1>2
    <2> QED
      BY <2>6, <2>7
  <1>5. k \in S
    <2> HIDE DEF S
    <2>1. 0..k \subseteq S
      BY <1>2, <1>3, <1>4, UpTo
    <2> QED
      BY <1>2, <2>1
  <1> QED
    BY <1>1, <1>5 DEF n

\* What a revert makes of a row it finds.
Undone(e, m) ==
    IF m.op = "restore" THEN [e EXCEPT !.cols.value = m.value] ELSE [e EXCEPT !.cols = m.cols]

LEMMA UndoneRowIs ==
    ASSUME NEW n, NEW e, IsRow(e, n), NEW m
    PROVE  Undone(e, m) =
              Entry(e.id, e.actor, e.kind, e.key,
                    IF m.op = "restore" THEN Columns(m.value, e.cols.num, e.cols.lo, e.cols.hi) ELSE m.cols)
  <1>1. e = Entry(e.id, e.actor, e.kind, e.key, Columns(e.cols.value, e.cols.num, e.cols.lo, e.cols.hi))
    BY DEF IsRow, Fits, IsCols
  <1>2. CASE m.op = "restore"
    BY <1>1, <1>2 DEF Undone, Entry, Columns
  <1>3. CASE m.op # "restore"
    BY <1>1, <1>3 DEF Undone, Entry
  <1> QED
    BY <1>2, <1>3

LEMMA PersistRevertIs ==
    ASSUME NEW s, NEW db, NEW m
    PROVE  LET hit == {e \in db.entries : SameRow(e, m)}
               others == db.entries \ hit
               after == PersistRevert(s, db, m)
               missing == m.op = "measure" /\ hit = {}
           IN /\ ~db.ok => after = db
              /\ db.ok /\ m.op = "delete" => after = [db EXCEPT !.entries = others]
              /\ db.ok /\ missing => after = IF s = "game" THEN InsertEntry(db, m.actor, m.kind, m.key, m.cols)
                                             ELSE Failed(db)
              /\ db.ok /\ m.op # "delete" /\ ~missing =>
                    after = [db EXCEPT !.entries = others \cup {Undone(e, m) : e \in hit}]
  <1> DEFINE hit == {e \in db.entries : SameRow(e, m)}
             others == db.entries \ hit
             new == {Undone(e, m) : e \in hit}
             missing == m.op = "measure" /\ hit = {}
  <1>1. PersistRevert(s, db, m) =
           IF ~db.ok THEN db
           ELSE CASE m.op = "delete" -> [db EXCEPT !.entries = others]
             [] missing -> IF s = "game" THEN InsertEntry(db, m.actor, m.kind, m.key, m.cols) ELSE Failed(db)
             [] OTHER -> [db EXCEPT !.entries = others \cup new]
    BY DEF PersistRevert, Undone
  <1>2. missing => m.op = "measure"
    OBVIOUS
  <1> HIDE DEF hit, others, new, missing
  <1>3. ~db.ok => PersistRevert(s, db, m) = db
    BY <1>1
  <1>4. db.ok /\ m.op = "delete" => PersistRevert(s, db, m) = [db EXCEPT !.entries = others]
    BY <1>1, <1>2
  <1>5. db.ok /\ missing => PersistRevert(s, db, m) = IF s = "game" THEN InsertEntry(db, m.actor, m.kind, m.key, m.cols)
                                                      ELSE Failed(db)
    BY <1>1, <1>2
  <1>6. db.ok /\ m.op # "delete" /\ ~missing => PersistRevert(s, db, m) = [db EXCEPT !.entries = others \cup new]
    BY <1>1, <1>2
  <1> QED
    BY <1>3, <1>4, <1>5, <1>6 DEF hit, others, new, missing

LEMMA PersistRevertKeeps ==
    ASSUME NEW s, NEW n, NEW db, IsDb(db, n), NEW m, IsUndo(m, n)
    PROVE  IsDb(PersistRevert(s, db, m), n)
  <1> DEFINE after == PersistRevert(s, db, m)
             hit == {e \in db.entries : SameRow(e, m)}
             others == db.entries \ hit
             new == others \cup {Undone(e, m) : e \in hit}
             missing == m.op = "measure" /\ hit = {}
  <1>0. /\ IsTable(db.entries, n) /\ Below(db.entries, db.next) /\ db.next \in Nat \ {0}
        /\ \A w : [db EXCEPT !.entries = w] = Db(w, db.ok, db.next)
        /\ Failed(db) = Db(db.entries, FALSE, db.next)
    BY DbIs DEF IsDb
  <1>1. CASE ~db.ok
    BY <1>1, PersistRevertIs
  <1>2. CASE db.ok /\ m.op = "delete"
    <2>1. after = Db(others, db.ok, db.next)
      <3>1. after = [db EXCEPT !.entries = others]
        BY <1>2, PersistRevertIs
      <3> HIDE DEF others, after
      <3> QED
        BY <1>0, <3>1
    <2>2. IsTable(others, n) /\ Below(others, db.next)
      BY <1>0, Fewer
    <2> HIDE DEF after, others
    <2>3. IsDb(after, n)
      BY <1>0, <2>1, <2>2 DEF IsDb, Db
    <2> QED
      BY <2>3 DEF after
  <1>3. CASE db.ok /\ missing
    <2>1. CASE s = "game"
      <3>1. after = InsertEntry(db, m.actor, m.kind, m.key, m.cols)
        BY <1>3, <2>1, PersistRevertIs
      <3>2. m.actor \in 0..n /\ m.kind \in Kinds /\ Fits(m.kind, m.cols)
        BY <1>3, KindsAre DEF IsUndo, Fits
      <3> QED
        BY <3>1, <3>2, InsertEntryIs
    <2>2. CASE s # "game"
      <3>1. after = Db(db.entries, FALSE, db.next)
        <4>1. after = Failed(db)
          BY <1>3, <2>2, PersistRevertIs
        <4> HIDE DEF after
        <4> QED
          BY <1>0, <4>1
      <3> HIDE DEF after
      <3>2. IsDb(after, n)
        BY <1>0, <3>1 DEF IsDb, Db
      <3> QED
        BY <3>2 DEF after
    <2> QED
      BY <2>1, <2>2
  <1>4. CASE db.ok /\ m.op # "delete" /\ ~missing
    <2>1. after = Db(new, db.ok, db.next)
      <3>1. after = [db EXCEPT !.entries = new]
        BY <1>4, PersistRevertIs
      <3> HIDE DEF new, after
      <3> QED
        BY <1>0, <3>1
    <2> DEFINE U == [e \in hit |-> Undone(e, m)]
    <2>2. ASSUME NEW e \in hit PROVE IsRow(U[e], n) /\ U[e].id = e.id
      <3> DEFINE cols == IF m.op = "restore" THEN Columns(m.value, e.cols.num, e.cols.lo, e.cols.hi) ELSE m.cols
      <3>1. IsRow(e, n) /\ e.kind = m.kind
        BY <1>0 DEF IsTable, SameRow
      <3>2. U[e] = Entry(e.id, e.actor, e.kind, e.key, cols)
        BY <3>1, UndoneRowIs
      <3>3. Fits(e.kind, cols)
        <4>1. CASE m.op = "restore"
          <5>1. {e.cols.num, e.cols.lo, e.cols.hi} \subseteq Num
            BY <3>1 DEF IsRow, Fits, IsCols
          <5>2. e.kind = "sequence" => IsPayload(m.value)
            BY <3>1, <4>1 DEF IsUndo
          <5>3. e.kind # "measurement" => cols = TextColumns(m.value)
            <6>1. e.kind # "measurement" => e.cols.num = NoNum /\ e.cols.lo = NoNum /\ e.cols.hi = NoNum
              BY <3>1, ColumnsAre DEF IsRow, Fits, TextColumns
            <6> QED
              BY <4>1, <6>1 DEF TextColumns
          <5> QED
            BY <4>1, <5>1, <5>2, <5>3, ColumnsAre DEF Fits
        <4>2. CASE m.op # "restore"
          BY <1>4, <3>1, <4>2 DEF IsUndo, Fits
        <4> QED
          BY <4>1, <4>2
      <3> HIDE DEF cols, U
      <3> QED
        BY <3>1, <3>2, <3>3, EntryIs DEF IsRow
    <2>3. \A d \in new : d \in db.entries \ hit \/ \E e \in hit : d = U[e]
      OBVIOUS
    <2>4. hit \subseteq db.entries
      OBVIOUS
    <2> HIDE DEF U, hit, new
    <2>5. Rewrites(new, db.entries, hit, U, n)
      BY <2>2, <2>3, <2>4 DEF Rewrites
    <2>6. IsTable(new, n) /\ Below(new, db.next)
      BY <1>0, <2>5, Rewritten
    <2> HIDE DEF after
    <2>7. IsDb(after, n)
      BY <1>0, <2>1, <2>6 DEF IsDb, Db
    <2> QED
      BY <2>7 DEF after
  <1> QED
    BY <1>1, <1>2, <1>3, <1>4

LEMMA RevertedIsTable ==
    ASSUME NEW s, NEW t, NEW actors0, IsSeq(actors0), IsTable(t, Len(actors0)), NEW audit, IsAudit(audit)
    PROVE  IsDb(RevertStateChanges(s, audit, actors0, t), Len(actors0))
  <1> DEFINE n == Len(actors0)
             plan == PlanRevertChanges(audit, actors0)
             k == Len(plan)
  <1>1. AreUndos(plan, n)
    BY PlanRevertChangesIs
  <1> HIDE DEF plan, n
  <1>2. PICK f : /\ f = [i \in 0..k |-> IF i = 0 THEN Table(t) ELSE PersistRevert(s, f[i - 1], plan[i])]
                 /\ Reverted(s, t, plan) = f[k]
    <2>1. IsSeq(plan)
      BY <1>1 DEF AreUndos
    <2> QED
      BY <2>1, RevertedIs
  <1>3. k \in Nat /\ \A i \in 1..k : IsUndo(plan[i], n)
    BY <1>1, SeqIs DEF AreUndos, Range
  <1> HIDE DEF k
  <1> DEFINE S == {i \in 0..k : IsDb(f[i], n)}
  <1>4. 0 \in S
    BY <1>2, <1>3, TableIs DEF n
  <1>5. ASSUME NEW i \in 1..k, i - 1 \in S PROVE i \in S
    BY <1>2, <1>3, <1>5, PersistRevertKeeps
  <1>6. k \in S
    <2> HIDE DEF S
    <2>1. 0..k \subseteq S
      BY <1>3, <1>4, <1>5, UpTo
    <2> QED
      BY <1>3, <2>1
  <1>7. RevertStateChanges(s, audit, actors0, t) = Reverted(s, t, plan)
    <2>1. {Reverted(s, t, p) : p \in {plan}} = {Reverted(s, t, plan)}
      OBVIOUS
    <2> QED
      BY <2>1, TheIs DEF RevertStateChanges, plan
  <1> QED
    BY <1>2, <1>6, <1>7 DEF n

-----------------------------------------------------------------------------
(* Turns                                                                   *)

Turn(audit, before, slots, intact) ==
    [audit |-> audit, before |-> before, slots |-> slots, intact |-> intact]
IsTurn(t) == t = Turn(t.audit, t.before, t.slots, t.intact) /\ IsAudit(t.audit)
AreTurns(s) == IsSeq(s) /\ \A i \in DOMAIN s : IsTurn(s[i])

LEMMA TurnIs ==
    ASSUME NEW audit, NEW before, NEW slots, NEW intact
    PROVE  LET t == Turn(audit, before, slots, intact)
           IN /\ t.audit = audit /\ t.before = before /\ t.slots = slots /\ t.intact = intact
              /\ IsAudit(audit) => IsTurn(t)
  BY DEF Turn, IsTurn

LEMMA NewTurnIs == IsTurn(NewTurn) /\ NewTurn.audit = <<>> /\ NewTurn.slots = {} /\ NewTurn.before = Visible(entries)
  <1>1. IsAudit(<<>>)
    BY Tuples DEF IsAudit
  <1>2. PICK x : NewTurn = Turn(<<>>, Visible(entries), {}, x)
    BY DEF NewTurn, Turn
  <1> QED
    BY <1>1, <1>2, TurnIs

\* A function over the first n numbers lists its values.
LEMMA Listed ==
    ASSUME NEW n \in Nat, NEW f, f = [i \in 1..n |-> f[i]]
    PROVE  IsSeq(f) /\ Len(f) = n /\ DOMAIN f = 1..n
  <1> DEFINE U == {f[i] : i \in 1..n}
  <1>1. f \in [1..n -> U]
    OBVIOUS
  <1> HIDE DEF U
  <1>2. f \in Seq(U) /\ Len(f) = n
    BY <1>1
  <1> QED
    BY <1>2 DEF IsSeq

LEMMA Part ==
    ASSUME NEW s, IsSeq(s), NEW m \in Nat \ {0}, NEW n \in 0..Len(s)
    PROVE  LET p == SubSeq(s, m, n)
           IN /\ IsSeq(p) /\ Len(p) = IF m <= n THEN n - m + 1 ELSE 0
              /\ DOMAIN p = 1..Len(p)
              /\ \A i \in DOMAIN p : m + i - 1 \in DOMAIN s /\ p[i] = s[m + i - 1]
  <1> DEFINE p == SubSeq(s, m, n)
  <1>1. PICK U : s \in Seq(U)
    BY DEF IsSeq
  <1>2. Len(s) \in Nat /\ DOMAIN s = 1..Len(s) /\ n \in Int /\ m \in Int
    BY SeqIs
  <1>3. \A i \in m..n : s[i] \in U
    BY <1>1, <1>2
  <1>4. /\ p \in Seq(U) /\ Len(p) = IF m <= n THEN n - m + 1 ELSE 0
        /\ \A i \in 1..n - m + 1 : p[i] = s[m + i - 1]
    BY <1>2, <1>3, SubSeqProperties
  <1> HIDE DEF p
  <1>5. IsSeq(p) /\ DOMAIN p = 1..Len(p)
    BY <1>4 DEF IsSeq
  <1>6. ASSUME NEW i \in DOMAIN p PROVE m + i - 1 \in DOMAIN s /\ p[i] = s[m + i - 1]
    BY <1>2, <1>4, <1>5
  <1> QED
    BY <1>4, <1>5, <1>6 DEF p

LEMMA PartOfTurns ==
    ASSUME NEW s, AreTurns(s), NEW m \in Nat \ {0}, NEW n \in 0..Len(s)
    PROVE  AreTurns(SubSeq(s, m, n))
  BY Part DEF AreTurns

LEMMA SpoiltIs ==
    ASSUME NEW all, AreTurns(all)
    PROVE  /\ AreTurns(Spoilt(all)) /\ Len(Spoilt(all)) = Len(all)
           /\ \A i \in DOMAIN all : Spoilt(all)[i] = Turn(all[i].audit, all[i].before, all[i].slots, FALSE)
  <1> DEFINE s == Spoilt(all)
             n == Len(all)
  <1>1. n \in Nat /\ DOMAIN all = 1..n
    BY SeqIs DEF AreTurns
  <1>2. s = [i \in 1..n |-> s[i]] /\ \A i \in 1..n : s[i] = [all[i] EXCEPT !.intact = FALSE]
    BY <1>1 DEF Spoilt
  <1>3. ASSUME NEW i \in 1..n
        PROVE  s[i] = Turn(all[i].audit, all[i].before, all[i].slots, FALSE) /\ IsTurn(s[i])
    <2>1. PICK a, b, c, d : all[i] = Turn(a, b, c, d) /\ IsAudit(a)
      BY <1>1 DEF AreTurns, IsTurn
    <2>2. \A x : [Turn(a, b, c, d) EXCEPT !.intact = x] = Turn(a, b, c, x)
      BY DEF Turn
    <2> DEFINE no == FALSE
    <2>3. s[i] = Turn(a, b, c, no)
      BY <1>2, <2>1, <2>2, Zenon
    <2> HIDE DEF s, no
    <2>4. /\ s[i].audit = a /\ IsTurn(s[i])
          /\ all[i].audit = a /\ all[i].before = b /\ all[i].slots = c
      BY <2>1, <2>3, TurnIs
    <2>5. s[i] = Turn(all[i].audit, all[i].before, all[i].slots, no)
      BY <2>3, <2>4
    <2> QED
      BY <2>4, <2>5 DEF no
  <1> HIDE DEF s, n
  <1>4. IsSeq(s) /\ Len(s) = n /\ DOMAIN s = 1..n
    BY <1>1, <1>2, Listed
  <1> QED
    BY <1>1, <1>3, <1>4 DEF AreTurns, s, n

LEMMA NoAudit ==
    ASSUME NEW all, AreTurns(all), NEW i \in DOMAIN all
    PROVE  LET after == [all EXCEPT ![i].audit = <<>>]
           IN /\ AreTurns(after) /\ Len(after) = Len(all)
              /\ after[i] = Turn(<<>>, all[i].before, all[i].slots, all[i].intact)
              /\ \A k \in DOMAIN all \ {i} : after[k] = all[k]
  <1> DEFINE s == [all EXCEPT ![i].audit = <<>>]
             n == Len(all)
  <1>1. n \in Nat /\ DOMAIN all = 1..n
    BY SeqIs DEF AreTurns
  <1>2. PICK a, b, c, d : all[i] = Turn(a, b, c, d)
    BY <1>1 DEF AreTurns, IsTurn
  <1>3. \A x : [Turn(a, b, c, d) EXCEPT !.audit = x] = Turn(x, b, c, d)
    BY DEF Turn
  <1>4. s[i] = Turn(<<>>, b, c, d)
    BY <1>2, <1>3
  <1>5. s = [k \in 1..n |-> s[k]] /\ \A k \in 1..n \ {i} : s[k] = all[k]
    BY <1>1
  <1>6. IsAudit(<<>>)
    BY Tuples DEF IsAudit
  <1> HIDE DEF s, n
  <1>7. IsSeq(s) /\ Len(s) = n /\ DOMAIN s = 1..n
    BY <1>1, <1>5, Listed
  <1>8. AreTurns(s)
    BY <1>1, <1>4, <1>5, <1>6, <1>7, TurnIs DEF AreTurns
  <1>9. s[i] = Turn(<<>>, all[i].before, all[i].slots, all[i].intact)
    BY <1>2, <1>4, TurnIs
  <1> QED
    BY <1>1, <1>5, <1>7, <1>8, <1>9 DEF s, n

-----------------------------------------------------------------------------
(* The invariant of the history                                            *)

\* Everything that a step reads is of its type: the requests of the batches,
\* the names, the rows, and what the audits of the turns remember.
HistoryInv ==
    /\ scope \in DOMAIN Batches
    /\ IsSeq(actors)
    /\ IsTable(entries, Len(actors))
    /\ AreTurns(turns)

LEMMA BatchIs ==
    ASSUME NEW s \in DOMAIN Batches, NEW batch \in Batches[s]
    PROVE  IsBatch(batch)
  BY BatchesAssumption DEF IsBatch, IsSeq

LEMMA Wider ==
    ASSUME NEW t, NEW n \in Nat, NEW m \in Nat, n <= m, IsTable(t, n)
    PROVE  IsTable(t, m)
  BY DEF IsTable, IsRow

\* What a batch leaves: the table, the names, and the audit.
LEMMA AppliedIs ==
    ASSUME NEW t, NEW actors0, IsSeq(actors0), IsTable(t, Len(actors0)), NEW batch, IsBatch(batch)
    PROVE  LET applied == ApplyStateChanges(batch, actors0, t)
               known == Vivified(batch, actors0)
               plan == PlanStateChanges(batch, actors0, t)
           IN /\ applied.actors = known /\ Extends(known, actors0)
              /\ IsTable(t, Len(known)) /\ IsPlan(plan, t, Len(known))
              /\ applied.table = Written(t, plan.mutations) /\ Follows(applied.table, t, Len(known))
              /\ applied.audit = plan.audit /\ IsAudit(applied.audit)
  <1> DEFINE applied == ApplyStateChanges(batch, actors0, t)
             known == Vivified(batch, actors0)
             plan == PlanStateChanges(batch, actors0, t)
             Outcomes(p) == [table |-> Written(t, p.mutations), actors |-> known, audit |-> p.audit]
  <1>1. Extends(known, actors0) /\ IsSeq(known) /\ Len(actors0) <= Len(known)
    BY VivifiedExtends DEF IsBatch, Extends
  <1>2. Len(actors0) \in Nat /\ Len(known) \in Nat
    BY <1>1, SeqIs
  <1>3. IsTable(t, Len(known))
    BY <1>1, <1>2, Wider
  <1>4. IsPlan(plan, t, Len(known))
    BY <1>3, PlanStateChangesIs
  <1>5. Follows(Written(t, plan.mutations), t, Len(known))
    BY <1>3, <1>4, WrittenFollows DEF IsPlan
  <1>6. applied = Outcomes(plan)
    <2>1. {Outcomes(p) : p \in {plan}} = {Outcomes(plan)}
      OBVIOUS
    <2>2. applied = The({Outcomes(p) : p \in {plan}})
      BY DEF ApplyStateChanges
    <2> HIDE DEF Outcomes, applied
    <2> QED
      BY <2>1, <2>2, TheIs
  <1>7. /\ applied.table = Written(t, plan.mutations) /\ applied.actors = known
        /\ applied.audit = plan.audit
    BY <1>6
  <1> HIDE DEF applied, known, plan
  <1> QED
    BY <1>1, <1>3, <1>4, <1>5, <1>7 DEF applied, known, plan, IsPlan

\* The turns after a batch of the i-th.
Put(all, i, after) == [k \in DOMAIN all \cup {i} |-> IF k = i THEN after ELSE all[k]]

LEMMA MoreTurns ==
    ASSUME NEW all, AreTurns(all), NEW i \in 1..Len(all) + 1, NEW after, IsTurn(after)
    PROVE  LET more == Put(all, i, after)
               n == IF i = Len(all) + 1 THEN i ELSE Len(all)
           IN /\ AreTurns(more) /\ Len(more) = n /\ DOMAIN more = 1..n /\ more[i] = after
              /\ \A k \in DOMAIN more \ {i} : k \in DOMAIN all /\ more[k] = all[k]
  <1> DEFINE more == Put(all, i, after)
             n == IF i = Len(all) + 1 THEN i ELSE Len(all)
  <1>1. Len(all) \in Nat /\ DOMAIN all = 1..Len(all)
    BY SeqIs DEF AreTurns
  <1>2. n \in Nat /\ DOMAIN all \cup {i} = 1..n /\ i \in 1..n
    BY <1>1
  <1>3. /\ more = [k \in 1..n |-> more[k]] /\ more[i] = after
        /\ \A k \in 1..n \ {i} : k \in DOMAIN all /\ more[k] = all[k]
    <2> HIDE DEF n
    <2> QED
      BY <1>2 DEF Put
  <1> HIDE DEF more, n
  <1>4. IsSeq(more) /\ Len(more) = n /\ DOMAIN more = 1..n
    BY <1>2, <1>3, Listed
  <1>5. AreTurns(more)
    BY <1>3, <1>4 DEF AreTurns
  <1> QED
    BY <1>3, <1>4, <1>5 DEF more, n

\* A turn after a batch.
After(turn, batch, applied) ==
    Turn(IF applied.table.ok THEN turn.audit \o applied.audit ELSE turn.audit, turn.before,
         turn.slots \cup SlotsOf(batch, applied.actors), turn.intact /\ applied.table.ok)

LEMMA ApplyIs ==
    ASSUME HistoryInv, NEW batch \in Batches[scope], NEW i \in 1..Len(turns) + 1, NEW turn, IsTurn(turn),
           Apply(batch, i, turn)
    PROVE  LET applied == ApplyStateChanges(batch, actors, entries)
           IN /\ entries' = applied.table.entries /\ actors' = applied.actors
              /\ turns' = Put(turns, i, After(turn, batch, applied))
              /\ IsTurn(After(turn, batch, applied))
              /\ UNCHANGED <<scope, renames>>
              /\ HistoryInv'
  <1> DEFINE applied == ApplyStateChanges(batch, actors, entries)
             ok == applied.table.ok
             after == [turn EXCEPT !.audit = IF ok THEN @ \o applied.audit ELSE @,
                                   !.slots = @ \cup SlotsOf(batch, applied.actors),
                                   !.intact = @ /\ ok]
  <1>1. /\ entries' = applied.table.entries /\ actors' = applied.actors
        /\ turns' = Put(turns, i, after)
        /\ UNCHANGED <<scope, renames>>
    BY DEF Apply, Put
  <1>2. /\ Extends(applied.actors, actors) /\ IsDb(applied.table, Len(applied.actors)) /\ IsAudit(applied.audit)
    BY BatchIs, AppliedIs DEF HistoryInv, Follows
  <1> HIDE DEF applied
  <1>3. after = After(turn, batch, applied)
    <2> DEFINE audit == IF ok THEN turn.audit \o applied.audit ELSE turn.audit
               slots == turn.slots \cup SlotsOf(batch, applied.actors)
               intact == turn.intact /\ ok
    <2>1. PICK a, b, c, d : turn = Turn(a, b, c, d) /\ a = turn.audit /\ b = turn.before
      BY DEF IsTurn
    <2>2. after = [turn EXCEPT !.audit = audit, !.slots = slots, !.intact = intact]
      BY <2>1 DEF Turn
    <2> HIDE DEF audit, slots, intact
    <2>3. [Turn(a, b, c, d) EXCEPT !.audit = audit] = Turn(audit, b, c, d)
      BY DEF Turn
    <2>4. [Turn(audit, b, c, d) EXCEPT !.slots = slots] = Turn(audit, b, slots, d)
      BY DEF Turn
    <2>5. \A x : [Turn(audit, b, slots, d) EXCEPT !.intact = x] = Turn(audit, b, slots, x)
      BY DEF Turn
    <2>6. after = Turn(audit, b, slots, intact)
      BY <2>1, <2>2, <2>3, <2>4, <2>5, Zenon
    <2> QED
      BY <2>1, <2>6 DEF After, audit, slots, intact
  <1> HIDE DEF after
  <1>4. IsTurn(After(turn, batch, applied))
    <2>1. IsAudit(IF applied.table.ok THEN turn.audit \o applied.audit ELSE turn.audit)
      BY <1>2, Joined DEF IsTurn, IsAudit
    <2> QED
      BY <2>1, TurnIs, Zenon DEF After
  <1>5. AreTurns(turns')
    <2>1. AreTurns(turns) /\ turns' = Put(turns, i, After(turn, batch, applied))
      BY <1>1, <1>3 DEF HistoryInv
    <2> QED
      BY <1>4, <2>1, MoreTurns
  <1>6. HistoryInv'
    BY <1>1, <1>2, <1>5 DEF HistoryInv, Extends, IsDb
  <1> QED
    BY <1>1, <1>3, <1>4, <1>6 DEF applied

LEMMA RegenerateIs ==
    ASSUME HistoryInv, NEW i, Regenerate(i)
    PROVE  LET reverted == RevertStateChanges(scope, turns[i].audit, actors, entries)
               after == IF reverted.ok THEN [turns EXCEPT ![i].audit = <<>>] ELSE turns
           IN /\ i \in DOMAIN turns
              /\ entries' = reverted.entries /\ IsDb(reverted, Len(actors))
              /\ AreTurns(after) /\ Len(after) = Len(turns)
              /\ turns' = IF reverted.ok /\ Tame(turns[i]) THEN after ELSE Spoilt(after)
              /\ UNCHANGED <<scope, actors, renames>>
              /\ HistoryInv'
  <1> DEFINE reverted == RevertStateChanges(scope, turns[i].audit, actors, entries)
             after == IF reverted.ok THEN [turns EXCEPT ![i].audit = <<>>] ELSE turns
  <1>1. /\ entries' = reverted.entries
        /\ turns' = IF reverted.ok /\ Tame(turns[i]) THEN after ELSE Spoilt(after)
        /\ UNCHANGED <<scope, actors, renames>>
    BY DEF Regenerate
  <1>2. i \in DOMAIN turns
    BY DEF Regenerate, Regenerable
  <1>3. AreTurns(turns) /\ IsAudit(turns[i].audit)
    BY <1>2 DEF HistoryInv, AreTurns, IsTurn
  <1>4. IsDb(reverted, Len(actors))
    BY <1>3, RevertedIsTable DEF HistoryInv
  <1>5. AreTurns(after) /\ Len(after) = Len(turns)
    <2> HIDE DEF reverted
    <2> QED
      BY <1>2, <1>3, NoAudit
  <1> HIDE DEF reverted, after
  <1>6. AreTurns(turns')
    BY <1>1, <1>5, SpoiltIs
  <1>7. HistoryInv'
    BY <1>1, <1>4, <1>6 DEF HistoryInv, IsDb
  <1> QED
    BY <1>1, <1>2, <1>4, <1>5, <1>7 DEF reverted, after

\* Every turn that a rewind undoes leaves a table.
LEMMA UndoTurnsIs ==
    ASSUME HistoryInv, NEW undone, AreTurns(undone)
    PROVE  IsTable(UndoTurns(undone).entries, Len(actors))
  <1> DEFINE k == Len(undone)
             n == Len(actors)
  <1>1. PICK f : /\ f = [i \in 0..k |-> IF i = 0 THEN Table(entries)
                                        ELSE UndoTurn(undone[k + 1 - i], f[i - 1])]
                 /\ UndoTurns(undone) = f[k]
    BY UndoneIs DEF AreTurns
  <1>2. k \in Nat /\ DOMAIN undone = 1..k /\ \A i \in 1..k : IsAudit(undone[i].audit)
    BY SeqIs DEF AreTurns, IsTurn
  <1> HIDE DEF k
  <1> DEFINE S == {i \in 0..k : IsTable(f[i].entries, n)}
  <1>3. 0 \in S
    <2>1. f[0].entries = entries
      BY <1>1, <1>2, TableIs DEF HistoryInv
    <2> QED
      BY <1>2, <2>1 DEF HistoryInv
  <1>4. ASSUME NEW i \in 1..k, i - 1 \in S PROVE i \in S
    <2>1. f[i] = UndoTurn(undone[k + 1 - i], f[i - 1])
      BY <1>1, <1>2
    <2>2. k + 1 - i \in 1..k
      BY <1>2
    <2>3. IsAudit(undone[k + 1 - i].audit)
      BY <1>2, <2>2
    <2>4. IsTable(f[i - 1].entries, n)
      BY <1>4
    <2>5. IsTable(f[i].entries, n)
      <3>1. CASE ~f[i - 1].ok
        BY <2>1, <2>4, <3>1 DEF UndoTurn
      <3>2. CASE f[i - 1].ok
        <4>1. f[i] = RevertStateChanges(scope, undone[k + 1 - i].audit, actors, f[i - 1].entries)
          BY <2>1, <3>2 DEF UndoTurn
        <4>2. IsDb(f[i], n)
          BY <2>3, <2>4, <4>1, RevertedIsTable DEF HistoryInv
        <4> QED
          BY <4>2 DEF IsDb
      <3> QED
        BY <3>1, <3>2
    <2>6. i \in 0..k
      BY <1>2
    <2> QED
      BY <2>5, <2>6
  <1>5. k \in S
    <2> HIDE DEF S
    <2>1. 0..k \subseteq S
      BY <1>2, <1>3, <1>4, UpTo
    <2> QED
      BY <1>2, <2>1
  <1> QED
    BY <1>1, <1>5

LEMMA RewindGameIs ==
    ASSUME HistoryInv, NEW i \in Nat, RewindGame(i)
    PROVE  LET undone == SubSeq(turns, i + 1, Len(turns))
               reverted == UndoTurns(undone)
               after == IF reverted.ok THEN SubSeq(turns, 1, i) ELSE turns
               tame == \A k \in i + 1..Len(turns) : Tame(turns[k])
           IN /\ i < Len(turns) /\ entries' = reverted.entries /\ AreTurns(undone) /\ AreTurns(after)
              /\ turns' = IF reverted.ok /\ tame THEN after ELSE Spoilt(after)
              /\ UNCHANGED <<scope, actors, renames>>
              /\ HistoryInv'
  <1> DEFINE undone == SubSeq(turns, i + 1, Len(turns))
             reverted == UndoTurns(undone)
             after == IF reverted.ok THEN SubSeq(turns, 1, i) ELSE turns
             tame == \A k \in i + 1..Len(turns) : Tame(turns[k])
  <1>1. /\ i < Len(turns) /\ entries' = reverted.entries
        /\ turns' = IF reverted.ok /\ tame THEN after ELSE Spoilt(after)
        /\ UNCHANGED <<scope, actors, renames>>
    BY DEF RewindGame
  <1>2. /\ AreTurns(turns) /\ Len(turns) \in Nat
        /\ i + 1 \in Nat \ {0} /\ i \in 0..Len(turns) /\ Len(turns) \in 0..Len(turns)
    BY <1>1, SeqIs DEF HistoryInv, AreTurns
  <1>3. AreTurns(undone) /\ AreTurns(SubSeq(turns, 1, i))
    BY <1>2, PartOfTurns
  <1> HIDE DEF undone
  <1>4. IsTable(reverted.entries, Len(actors))
    BY <1>3, UndoTurnsIs
  <1> HIDE DEF reverted, tame
  <1>5. AreTurns(after)
    BY <1>2, <1>3
  <1> HIDE DEF after
  <1>6. AreTurns(turns')
    BY <1>1, <1>5, SpoiltIs
  <1>7. HistoryInv'
    BY <1>1, <1>4, <1>6 DEF HistoryInv
  <1> QED
    BY <1>1, <1>3, <1>5, <1>7 DEF undone, reverted, after, tame

LEMMA RewindChatKeeps ==
    ASSUME HistoryInv, NEW i \in Nat, RewindChat(i)
    PROVE  HistoryInv'
  <1>1. /\ AreTurns(turns) /\ Len(turns) \in Nat /\ i \in 0..Len(turns)
    BY SeqIs DEF HistoryInv, AreTurns, RewindChat
  <1>2. AreTurns(SubSeq(turns, 1, i))
    BY <1>1, PartOfTurns
  <1>3. turns' \in {SubSeq(turns, 1, i), Spoilt(SubSeq(turns, 1, i))} /\ UNCHANGED <<scope, entries, actors>>
    BY DEF RewindChat
  <1>4. AreTurns(turns')
    BY <1>2, <1>3, SpoiltIs
  <1> QED
    BY <1>3, <1>4 DEF HistoryInv

LEMMA RenameActorKeeps ==
    ASSUME HistoryInv, NEW i \in DOMAIN actors, NEW name, RenameActor(i, name)
    PROVE  HistoryInv'
  <1> DEFINE named == [actors EXCEPT ![i] = name]
             n == Len(actors)
  <1>1. n \in Nat /\ DOMAIN actors = 1..n
    BY SeqIs DEF HistoryInv
  <1>2. actors' = named /\ UNCHANGED <<scope, entries, turns>>
    BY DEF RenameActor
  <1>3. named = [k \in 1..n |-> named[k]]
    BY <1>1
  <1> HIDE DEF named, n
  <1>4. IsSeq(named) /\ Len(named) = n
    BY <1>1, <1>3, Listed
  <1> QED
    BY <1>2, <1>4 DEF HistoryInv, n

LEMMA HistoryInit == Init => HistoryInv
  <1> SUFFICES ASSUME Init PROVE HistoryInv
    OBVIOUS
  <1>1. scope \in DOMAIN Batches /\ entries = {} /\ actors = <<"pc">> /\ turns = <<>>
    BY DEF Init
  <1>2. IsSeq(actors) /\ Len(actors) = 1
    BY <1>1, Tuples
  <1>3. IsTable(entries, Len(actors))
    <2>1. 0 \in Nat /\ Below({}, 0)
      BY DEF Below
    <2> QED
      BY <1>1, <2>1 DEF IsTable, Keyed
  <1>4. AreTurns(turns)
    <2>1. IsSeq(<<>>) /\ DOMAIN <<>> = {}
      BY Tuples
    <2> QED
      BY <1>1, <2>1 DEF AreTurns
  <1> QED
    BY <1>1, <1>2, <1>3, <1>4 DEF HistoryInv

LEMMA HistoryStep == HistoryInv /\ [Next]_vars => HistoryInv'
  <1> SUFFICES ASSUME HistoryInv, [Next]_vars PROVE HistoryInv'
    OBVIOUS
  <1>0. Len(turns) \in Nat /\ DOMAIN turns = 1..Len(turns)
    BY SeqIs DEF HistoryInv, AreTurns
  <1>1. ASSUME NEW batch \in Batches[scope], ApplyToNewTurn(batch) PROVE HistoryInv'
    <2>1. Apply(batch, Len(turns) + 1, NewTurn) /\ Len(turns) + 1 \in 1..Len(turns) + 1
      BY <1>0, <1>1 DEF ApplyToNewTurn
    <2> QED
      BY <2>1, NewTurnIs, ApplyIs
  <1>2. ASSUME NEW batch \in Batches[scope], NEW i \in 1..MaxTurns, ApplyToTurn(batch, i) PROVE HistoryInv'
    <2> DEFINE turn == IF turns[i].audit = <<>> /\ turns[i].intact THEN NewTurn ELSE turns[i]
    <2>1. Apply(batch, i, turn) /\ i \in DOMAIN turns
      BY <1>2 DEF ApplyToTurn, Regenerable
    <2>2. IsTurn(turn) /\ i \in 1..Len(turns) + 1
      BY <1>0, <2>1, NewTurnIs DEF HistoryInv, AreTurns
    <2> HIDE DEF turn
    <2> QED
      BY <2>1, <2>2, ApplyIs
  <1>3. ASSUME NEW i, Regenerate(i) PROVE HistoryInv'
    BY <1>3, RegenerateIs
  <1>4. ASSUME NEW i \in 0..MaxTurns, RewindGame(i) \/ RewindChat(i) PROVE HistoryInv'
    BY <1>4, RewindGameIs, RewindChatKeeps
  <1>5. ASSUME NEW i \in DOMAIN actors, NEW name, RenameActor(i, name) PROVE HistoryInv'
    BY <1>5, RenameActorKeeps
  <1>6. CASE UNCHANGED vars
    BY <1>6 DEF vars, HistoryInv
  <1> QED
    BY <1>1, <1>2, <1>3, <1>4, <1>5, <1>6 DEF Next, ApplyAny

LEMMA TypesFollow == HistoryInv => TypeOK
  <1> SUFFICES ASSUME HistoryInv PROVE TypeOK
    OBVIOUS
  <1>1. ASSUME NEW e \in entries
        PROVE  /\ e.id \in Nat \ {0}
               /\ e.actor \in 0..Len(actors)
               /\ e.kind \in DOMAIN KindRank
               /\ \A n \in {e.cols.num, e.cols.lo, e.cols.hi} : n = NoNum \/ n \in Int
               /\ e.kind = "sequence" => e.cols.value[2] \in 0..e.cols.value[1] - 1
    BY DEF HistoryInv, IsTable, IsRow, Fits, IsCols, IsPayload, Num, Kinds
  <1>2. \A d, e \in entries : d.id = e.id => d = e
    BY DEF HistoryInv, IsTable, Keyed
  <1>3. \A t \in Range(turns) : \A c \in Range(t.audit) : c.prev # NoPrev => c.prev.kind \in DOMAIN KindRank
    BY DEF HistoryInv, AreTurns, IsTurn, IsAudit, IsAudited, Range, Kinds
  <1> QED
    BY <1>1, <1>2, <1>3 DEF TypeOK

\* Whatever batches are applied, undone and rewound, and whoever is renamed, a
\* row keeps an id of its own and an actor that exists, a measurement its
\* numbers, and a sequence stays at one of its items.
THEOREM TypesAreKept == Spec => []TypeOK
  BY HistoryInit, HistoryStep, TypesFollow, PTL DEF Spec

-----------------------------------------------------------------------------
(* A revert stays in the slots of its turn                                 *)

\* The rows of no slot among these.
Outside(t, slots) == {e \in t : <<e.actor, e.key>> \notin slots}

\* The changes that a turn remembers, as long as no actor is renamed, name
\* actors that are still found, in slots that the turn addressed.
StaysIn(turn, names) ==
    \A c \in Range(turn.audit) :
        /\ c.target \in {"world"} \cup Range(names)
        /\ <<ResolveActor(c.target, names), c.key>> \in turn.slots

SlotsInv ==
    /\ renames \in Nat
    /\ "pc" \in Range(actors)
    /\ renames = 0 => \A i \in DOMAIN turns : StaysIn(turns[i], actors)

\* Every audited change is one of the batch.
LEMMA PlanAudits ==
    ASSUME NEW t, NEW actors0, NEW changes, IsSeq(changes)
    PROVE  LET audit == PlanStateChanges(changes, actors0, t).audit
           IN /\ IsSeq(audit)
              /\ \A c \in Range(audit) : \E d \in Range(changes) : c.target = d.target /\ c.key = d.key
  <1> DEFINE k == Len(changes)
             Of(audit) == \A c \in Range(audit) : \E d \in Range(changes) : c.target = d.target /\ c.key = d.key
  <1>1. PICK f : /\ f = [i \in 0..k |-> IF i = 0 THEN NoPlan
                                        ELSE Planned(f[i - 1], changes[i], Vivified(changes, actors0), t)]
                 /\ PlanStateChanges(changes, actors0, t) = f[k]
    BY PlanIs
  <1>2. k \in Nat /\ \A i \in 1..k : changes[i] \in Range(changes)
    BY SeqIs DEF Range
  <1> HIDE DEF k
  <1> DEFINE S == {i \in 0..k : IsSeq(f[i].audit) /\ Of(f[i].audit)}
  <1>3. 0 \in S
    <2>1. f[0] = NoPlan
      BY <1>1, <1>2
    <2>2. IsSeq(NoPlan.audit) /\ Range(NoPlan.audit) = {}
      BY Tuples DEF NoPlan
    <2> QED
      BY <1>2, <2>1, <2>2
  <1>4. ASSUME NEW i \in 1..k, i - 1 \in S PROVE i \in S
    <2> DEFINE p == f[i - 1]
               change == changes[i]
               actor == ResolveActor(change.target, Vivified(changes, actors0))
               e == Found(t, p.freed, actor, change.key)
    <2>1. f[i] = PlanMore(p, change, actor, t)
      BY <1>1, <1>2 DEF Planned
    <2>2. IsSeq(p.audit) /\ Of(p.audit)
      BY <1>4
    <2>3. f[i].audit = p.audit \/ f[i].audit = Append(p.audit, Audited(change, e))
      <3>1. CASE change.target # "world" /\ actor = World
        BY <2>1, <3>1 DEF PlanMore
      <3>2. CASE ~(change.target # "world" /\ actor = World)
        <4>1. {PlanStep(p, change, actor, d) : d \in {e}} = {PlanStep(p, change, actor, e)}
          OBVIOUS
        <4>2. f[i] = PlanStep(p, change, actor, e)
          BY <2>1, <3>2, <4>1, TheIs DEF PlanMore
        <4> QED
          BY <4>2 DEF PlanStep
      <3> QED
        BY <3>1, <3>2
    <2> DEFINE c == Audited(change, e)
    <2>4. c.target = change.target /\ c.key = change.key /\ change \in Range(changes)
      BY <1>2, AuditedIs
    <2> DEFINE before == p.audit
               after == f[i].audit
    <2>8. (after = before \/ after = Append(before, c)) /\ IsSeq(before)
      BY <2>2, <2>3
    <2> HIDE DEF c, before, after, p, e, change, actor
    <2>9. IsSeq(Append(before, c)) /\ Range(Append(before, c)) = Range(before) \cup {c}
      BY <2>8, Appended
    <2>5. IsSeq(f[i].audit) /\ Range(f[i].audit) \subseteq Range(p.audit) \cup {c}
      BY <2>8, <2>9 DEF before, after
    <2>6. Of(f[i].audit)
      BY <2>2, <2>4, <2>5
    <2>7. i \in 0..k
      BY <1>2
    <2> QED
      BY <2>5, <2>6, <2>7
  <1>5. k \in S
    <2> HIDE DEF S
    <2>1. 0..k \subseteq S
      BY <1>2, <1>3, <1>4, UpTo
    <2> QED
      BY <1>2, <2>1
  <1> QED
    BY <1>1, <1>5

LEMMA StaysInMore ==
    ASSUME NEW turn, NEW names, IsSeq(names), NEW more, Extends(more, names), StaysIn(turn, names)
    PROVE  StaysIn(turn, more)
  <1>1. Range(names) \subseteq Range(more)
    BY SeqIs DEF Range, Extends
  <1> QED
    BY <1>1, ResolveStays DEF StaysIn

LEMMA AfterStaysIn ==
    ASSUME HistoryInv, "pc" \in Range(actors), NEW turn, IsTurn(turn), StaysIn(turn, actors),
           NEW batch \in Batches[scope]
    PROVE  LET applied == ApplyStateChanges(batch, actors, entries)
           IN StaysIn(After(turn, batch, applied), applied.actors)
  <1> DEFINE applied == ApplyStateChanges(batch, actors, entries)
             known == applied.actors
             after == After(turn, batch, applied)
             audit == IF applied.table.ok THEN turn.audit \o applied.audit ELSE turn.audit
             slots == turn.slots \cup SlotsOf(batch, known)
  <1>1. IsBatch(batch)
    BY BatchIs DEF HistoryInv
  <1>2. /\ known = Vivified(batch, actors) /\ Extends(known, actors)
        /\ applied.audit = PlanStateChanges(batch, actors, entries).audit
    BY <1>1, AppliedIs DEF HistoryInv
  <1>3. /\ IsSeq(applied.audit)
        /\ \A c \in Range(applied.audit) : \E d \in Range(batch) : c.target = d.target /\ c.key = d.key
    BY <1>1, <1>2, PlanAudits DEF IsBatch
  <1>4. \A d \in Range(batch) : d.target \in {"world"} \cup Range(known)
    <2>1. "pc" \in Range(known)
      BY <1>2, SeqIs DEF HistoryInv, Extends, Range
    <2>2. \A k \in DOMAIN batch : batch[k].target \in {"world", "pc"} \cup Range(known)
      BY <1>1, <1>2, VivifiedExtends DEF HistoryInv, IsBatch
    <2> QED
      BY <2>1, <2>2 DEF Range
  <1> HIDE DEF applied
  <1>5. after.audit = audit /\ after.slots = slots
    BY TurnIs DEF After
  <1>6. Range(audit) \subseteq Range(turn.audit) \cup Range(applied.audit)
    BY <1>3, Joined DEF IsTurn, IsAudit
  <1>7. StaysIn(turn, known)
    BY <1>2, StaysInMore DEF HistoryInv
  <1>8. ASSUME NEW c \in Range(audit)
        PROVE  c.target \in {"world"} \cup Range(known) /\ <<ResolveActor(c.target, known), c.key>> \in slots
    <2>1. CASE c \in Range(turn.audit)
      BY <1>7, <2>1 DEF StaysIn
    <2>2. CASE c \in Range(applied.audit)
      <3>1. PICK d \in Range(batch) : c.target = d.target /\ c.key = d.key
        BY <1>3, <2>2
      <3>2. <<ResolveActor(d.target, known), d.key>> \in SlotsOf(batch, known)
        BY DEF SlotsOf
      <3> QED
        BY <1>4, <3>1, <3>2
    <2> QED
      BY <1>6, <2>1, <2>2
  <1> HIDE DEF after, audit, slots, known
  <1>9. StaysIn(after, known)
    BY <1>5, <1>8 DEF StaysIn
  <1> QED
    BY <1>9 DEF after, applied, known

\* The statements that undo a change are about its slot.
LEMMA PlanRevertChangeStays ==
    ASSUME NEW c, NEW names
    PROVE  LET plan == PlanRevertChange(c, names)
           IN /\ IsSeq(plan)
              /\ \A m \in Range(plan) : m.actor = ResolveActor(c.target, names) /\ m.key = c.key
  <1> DEFINE a == ResolveActor(c.target, names)
             Here(m) == m.actor = a /\ m.key = c.key
             gone == DeleteByKey(a, c)
  <1>1. /\ Here(gone) /\ Here(RestoreMeasurement(a, c)) /\ \A kind : Here(Restore(a, c, kind))
    BY DEF DeleteByKey, RestoreMeasurement, Restore
  <1>2. Here(RevertSameKind(a, c))
    <2> HIDE DEF Here
    <2> QED
      BY <1>1 DEF RevertSameKind
  <1>3. \A m : Here(m) => IsSeq(<<m>>) /\ \A x \in Range(<<m>>) : Here(x)
    <2> HIDE DEF Here
    <2> QED
      BY Tuples
  <1>4. IsSeq(<<>>) /\ \A x \in Range(<<>>) : Here(x)
    BY Tuples
  <1> HIDE DEF Here, a, gone
  <1>5. IsSeq(RevertReplacedKind(a, c)) /\ \A m \in Range(RevertReplacedKind(a, c)) : Here(m)
    BY <1>1, <1>3, <1>4 DEF RevertReplacedKind
  <1>6. /\ IsSeq(<<gone>> \o RevertReplacedKind(a, c))
        /\ \A m \in Range(<<gone>> \o RevertReplacedKind(a, c)) : Here(m)
    BY <1>1, <1>3, <1>5, Joined
  <1>7. IsSeq(<<RevertSameKind(a, c)>>) /\ \A m \in Range(<<RevertSameKind(a, c)>>) : Here(m)
    BY <1>2, <1>3
  <1>8. PlanRevertChange(c, names) \in {<<gone>> \o RevertReplacedKind(a, c), <<RevertSameKind(a, c)>>}
    BY DEF PlanRevertChange, a, gone
  <1>9. IsSeq(PlanRevertChange(c, names)) /\ \A m \in Range(PlanRevertChange(c, names)) : Here(m)
    BY <1>6, <1>7, <1>8
  <1> QED
    BY <1>9 DEF Here, a

LEMMA PlanRevertChangesStay ==
    ASSUME NEW names, NEW audit, IsSeq(audit), NEW slots,
           \A c \in Range(audit) : <<ResolveActor(c.target, names), c.key>> \in slots
    PROVE  LET plan == PlanRevertChanges(audit, names)
           IN IsSeq(plan) /\ \A m \in Range(plan) : <<m.actor, m.key>> \in slots
  <1> DEFINE k == Len(audit)
             In(plan) == IsSeq(plan) /\ \A m \in Range(plan) : <<m.actor, m.key>> \in slots
  <1>1. PICK f : /\ f = [i \in 0..k |-> IF i = 0 THEN <<>>
                                        ELSE f[i - 1] \o PlanRevertChange(audit[k + 1 - i], names)]
                 /\ PlanRevertChanges(audit, names) = f[k]
    BY RevertPlanIs
  <1>2. k \in Nat /\ \A i \in 1..k : audit[i] \in Range(audit)
    BY SeqIs DEF Range
  <1> HIDE DEF k
  <1> DEFINE S == {i \in 0..k : In(f[i])}
  <1>3. 0 \in S
    BY <1>1, <1>2, Tuples
  <1>4. ASSUME NEW i \in 1..k, i - 1 \in S PROVE i \in S
    <2> DEFINE c == audit[k + 1 - i]
               more == PlanRevertChange(c, names)
    <2>1. f[i] = f[i - 1] \o more
      BY <1>1, <1>2
    <2>2. c \in Range(audit)
      <3>1. k + 1 - i \in 1..k
        BY <1>2
      <3> QED
        BY <1>2, <3>1
    <2> HIDE DEF c
    <2>3. IsSeq(more) /\ \A m \in Range(more) : m.actor = ResolveActor(c.target, names) /\ m.key = c.key
      BY PlanRevertChangeStays
    <2> HIDE DEF more
    <2>4. In(more)
      BY <2>2, <2>3
    <2>5. In(f[i - 1])
      BY <1>4
    <2>6. In(f[i - 1] \o more)
      BY <2>4, <2>5, Joined
    <2>7. i \in 0..k
      BY <1>2
    <2> HIDE DEF In
    <2> QED
      BY <2>1, <2>6, <2>7, Zenon
  <1>5. k \in S
    <2> HIDE DEF S
    <2>1. 0..k \subseteq S
      BY <1>2, <1>3, <1>4, UpTo
    <2> QED
      BY <1>2, <2>1
  <1> QED
    BY <1>1, <1>5

LEMMA PersistRevertStays ==
    ASSUME NEW s, NEW n, NEW db, IsDb(db, n), NEW m, IsUndo(m, n), NEW slots, <<m.actor, m.key>> \in slots
    PROVE  Outside(PersistRevert(s, db, m).entries, slots) = Outside(db.entries, slots)
  <1> DEFINE after == PersistRevert(s, db, m)
             hit == {e \in db.entries : SameRow(e, m)}
             others == db.entries \ hit
             made == {Undone(e, m) : e \in hit}
             missing == m.op = "measure" /\ hit = {}
  <1>0. /\ IsTable(db.entries, n)
        /\ \A w : [db EXCEPT !.entries = w] = Db(w, db.ok, db.next)
        /\ Failed(db) = Db(db.entries, FALSE, db.next)
    BY DbIs DEF IsDb
  <1>1. \A e \in hit : <<e.actor, e.key>> \in slots
    BY DEF SameRow
  <1>2. ASSUME NEW d \in made PROVE <<d.actor, d.key>> \in slots
    <2>1. PICK e \in hit : d = Undone(e, m)
      OBVIOUS
    <2>2. d.actor = e.actor /\ d.key = e.key
      <3> DEFINE cols == IF m.op = "restore" THEN Columns(m.value, e.cols.num, e.cols.lo, e.cols.hi) ELSE m.cols
      <3>1. d = Entry(e.id, e.actor, e.kind, e.key, cols)
        BY <1>0, <2>1, UndoneRowIs DEF IsTable
      <3> HIDE DEF cols
      <3> QED
        BY <3>1, EntryIs
    <2> QED
      BY <1>1, <2>2
  <1>3. CASE ~db.ok
    BY <1>3, PersistRevertIs
  <1>4. CASE db.ok /\ m.op = "delete"
    <2>1. after.entries = others
      <3>1. after = [db EXCEPT !.entries = others]
        BY <1>4, PersistRevertIs
      <3> HIDE DEF others, after
      <3> QED
        BY <1>0, <3>1 DEF Db
    <2> QED
      BY <1>1, <2>1 DEF Outside
  <1>5. CASE db.ok /\ missing
    <2>1. after = InsertEntry(db, m.actor, m.kind, m.key, m.cols) \/ after = Failed(db)
      BY <1>5, PersistRevertIs
    <2> DEFINE new == Entry(db.next, m.actor, m.kind, m.key, m.cols)
    <2>2. new.actor = m.actor /\ new.key = m.key
      BY EntryIs
    <2>3. after.entries \in {db.entries, db.entries \cup {new}}
      <3>1. CASE after = Failed(db)
        <4> HIDE DEF after, new
        <4> QED
          BY <1>0, <3>1 DEF Db
      <3>2. CASE after = InsertEntry(db, m.actor, m.kind, m.key, m.cols)
        <4>1. m.actor \in 0..n /\ m.kind \in Kinds /\ Fits(m.kind, m.cols)
          BY <1>5, KindsAre DEF IsUndo, Fits
        <4> QED
          BY <3>2, <4>1, InsertEntryIs
      <3> QED
        BY <2>1, <3>1, <3>2
    <2> HIDE DEF new, after
    <2> QED
      BY <2>2, <2>3 DEF Outside, after
  <1>6. CASE db.ok /\ m.op # "delete" /\ ~missing
    <2>1. after.entries = others \cup made
      <3>1. after = [db EXCEPT !.entries = others \cup made]
        BY <1>6, PersistRevertIs
      <3> HIDE DEF others, made, after
      <3> QED
        BY <1>0, <3>1 DEF Db
    <2> HIDE DEF made, after
    <2> QED
      BY <1>1, <1>2, <2>1 DEF Outside, after
  <1> QED
    BY <1>3, <1>4, <1>5, <1>6

LEMMA RevertStays ==
    ASSUME NEW s, NEW t, NEW names, IsSeq(names), IsTable(t, Len(names)), NEW audit, IsAudit(audit),
           NEW slots, \A c \in Range(audit) : <<ResolveActor(c.target, names), c.key>> \in slots
    PROVE  Outside(RevertStateChanges(s, audit, names, t).entries, slots) = Outside(t, slots)
  <1> DEFINE n == Len(names)
             plan == PlanRevertChanges(audit, names)
             k == Len(plan)
  <1>1. AreUndos(plan, n)
    BY PlanRevertChangesIs
  <1>2. IsSeq(plan) /\ \A m \in Range(plan) : <<m.actor, m.key>> \in slots
    BY PlanRevertChangesStay DEF IsAudit
  <1>3. RevertStateChanges(s, audit, names, t) = Reverted(s, t, plan)
    <2>1. {Reverted(s, t, p) : p \in {plan}} = {Reverted(s, t, plan)}
      OBVIOUS
    <2> QED
      BY <2>1, TheIs DEF RevertStateChanges
  <1> HIDE DEF plan, n
  <1>4. PICK f : /\ f = [i \in 0..k |-> IF i = 0 THEN Table(t) ELSE PersistRevert(s, f[i - 1], plan[i])]
                 /\ Reverted(s, t, plan) = f[k]
    <2>1. IsSeq(plan)
      BY <1>2
    <2> QED
      BY <2>1, RevertedIs
  <1>5. k \in Nat /\ \A i \in 1..k : IsUndo(plan[i], n) /\ <<plan[i].actor, plan[i].key>> \in slots
    BY <1>1, <1>2, SeqIs DEF AreUndos, Range
  <1> HIDE DEF k
  <1> DEFINE S == {i \in 0..k : IsDb(f[i], n) /\ Outside(f[i].entries, slots) = Outside(t, slots)}
  <1>6. 0 \in S
    <2>1. f[0] = Table(t) /\ 0 \in 0..k
      BY <1>4, <1>5
    <2> QED
      BY <2>1, TableIs DEF n
  <1>7. ASSUME NEW i \in 1..k, i - 1 \in S PROVE i \in S
    <2>1. f[i] = PersistRevert(s, f[i - 1], plan[i])
      BY <1>4, <1>5
    <2>2. IsDb(f[i], n)
      BY <1>5, <1>7, <2>1, PersistRevertKeeps
    <2>3. Outside(f[i].entries, slots) = Outside(f[i - 1].entries, slots)
      <3> DEFINE db == f[i - 1]
                 m == plan[i]
      <3>1. IsDb(db, n) /\ IsUndo(m, n) /\ <<m.actor, m.key>> \in slots
        BY <1>5, <1>7
      <3> HIDE DEF db, m
      <3>2. Outside(PersistRevert(s, db, m).entries, slots) = Outside(db.entries, slots)
        BY <3>1, PersistRevertStays
      <3> QED
        BY <2>1, <3>2 DEF db, m
    <2>4. i \in 0..k
      BY <1>5
    <2> QED
      BY <1>7, <2>2, <2>3, <2>4
  <1>8. k \in S
    <2> HIDE DEF S
    <2>1. 0..k \subseteq S
      BY <1>5, <1>6, <1>7, UpTo
    <2> QED
      BY <1>5, <2>1
  <1> QED
    BY <1>3, <1>4, <1>8 DEF n

\* What is not in those slots looks as it did.
LEMMA OutsideLooks ==
    ASSUME NEW t, NEW u, NEW slots, Outside(t, slots) = Outside(u, slots), NEW slot, slot \notin slots
    PROVE  At(t, slot) = At(u, slot)
  <1>1. ASSUME NEW a, NEW b, Outside(a, slots) = Outside(b, slots), NEW x \in At(a, slot) PROVE x \in At(b, slot)
    <2>1. PICK e \in a : x = [actor |-> e.actor, kind |-> e.kind, key |-> e.key, cols |-> e.cols]
      BY DEF At, Visible
    <2>2. <<x.actor, x.key>> = slot
      BY DEF At
    <2>3. e \in Outside(a, slots)
      BY <2>1, <2>2 DEF Outside
    <2>4. e \in b
      BY <1>1, <2>3 DEF Outside
    <2>5. x \in Visible(b)
      BY <2>1, <2>4 DEF Visible
    <2> QED
      BY <2>2, <2>5 DEF At
  <1> QED
    BY <1>1

LEMMA RegenerateStays ==
    ASSUME HistoryInv, SlotsInv, NEW i, Regenerate(i), renames = 0, NEW slot, slot \notin turns[i].slots
    PROVE  At(entries, slot) = At(entries', slot)
  <1> DEFINE reverted == RevertStateChanges(scope, turns[i].audit, actors, entries)
  <1>1. i \in DOMAIN turns /\ entries' = reverted.entries
    BY RegenerateIs
  <1>2. StaysIn(turns[i], actors) /\ IsAudit(turns[i].audit)
    BY <1>1 DEF SlotsInv, HistoryInv, AreTurns, IsTurn
  <1>3. Outside(reverted.entries, turns[i].slots) = Outside(entries, turns[i].slots)
    BY <1>2, RevertStays DEF StaysIn, HistoryInv
  <1> QED
    BY <1>1, <1>3, OutsideLooks

\* Turns that remember and have addressed what others did.
LEMMA StaysInAlike ==
    ASSUME NEW s, NEW t, NEW names, StaysIn(t, names), s.slots = t.slots,
           s.audit = t.audit \/ s.audit = <<>>
    PROVE  StaysIn(s, names)
  BY Tuples DEF StaysIn

LEMMA SlotsInit == Init => SlotsInv
  <1> SUFFICES ASSUME Init PROVE SlotsInv
    OBVIOUS
  <1>1. actors = <<"pc">> /\ turns = <<>> /\ renames = 0
    BY DEF Init
  <1>2. "pc" \in Range(actors)
    BY <1>1, Tuples
  <1>3. DOMAIN turns = {}
    BY <1>1
  <1> QED
    BY <1>1, <1>2, <1>3 DEF SlotsInv

LEMMA SlotsApply ==
    ASSUME HistoryInv, SlotsInv, NEW batch \in Batches[scope], NEW i \in 1..Len(turns) + 1,
           NEW turn, IsTurn(turn), renames = 0 => StaysIn(turn, actors), Apply(batch, i, turn)
    PROVE  SlotsInv'
  <1> DEFINE applied == ApplyStateChanges(batch, actors, entries)
             after == After(turn, batch, applied)
  <1>1. /\ actors' = applied.actors /\ turns' = Put(turns, i, after) /\ IsTurn(after)
        /\ UNCHANGED <<scope, renames>> /\ HistoryInv'
    BY ApplyIs
  <1>2. Extends(actors', actors) /\ IsSeq(actors)
    BY <1>1, BatchIs, AppliedIs DEF HistoryInv
  <1>3. "pc" \in Range(actors')
    BY <1>2, SeqIs DEF SlotsInv, Extends, Range
  <1>4. renames = 0 => StaysIn(after, actors')
    BY <1>1, AfterStaysIn DEF SlotsInv
  <1>5. DOMAIN turns' = DOMAIN turns \cup {i} /\ turns'[i] = after
        /\ \A k \in DOMAIN turns' \ {i} : turns'[k] = turns[k]
    BY <1>1 DEF Put
  <1> HIDE DEF after
  <1>6. ASSUME renames' = 0, NEW k \in DOMAIN turns' PROVE StaysIn(turns'[k], actors')
    <2>1. CASE k = i
      BY <1>1, <1>4, <1>5, <1>6, <2>1
    <2>2. CASE k # i
      <3>1. k \in DOMAIN turns /\ turns'[k] = turns[k] /\ StaysIn(turns[k], actors)
        BY <1>1, <1>5, <1>6, <2>2 DEF SlotsInv
      <3> QED
        BY <1>2, <3>1, StaysInMore
    <2> QED
      BY <2>1, <2>2
  <1> QED
    BY <1>1, <1>3, <1>6 DEF SlotsInv

\* Turns that are spoilt, or that forget their audit, stay where they were.
LEMMA SpoiltStays ==
    ASSUME NEW all, AreTurns(all), NEW names, \A i \in DOMAIN all : StaysIn(all[i], names)
    PROVE  \A i \in DOMAIN Spoilt(all) : StaysIn(Spoilt(all)[i], names)
  <1> SUFFICES ASSUME NEW i \in DOMAIN Spoilt(all) PROVE StaysIn(Spoilt(all)[i], names)
    OBVIOUS
  <1>1. i \in DOMAIN all
    BY DEF Spoilt
  <1> DEFINE no == FALSE
             s == Spoilt(all)[i]
  <1>2. s = Turn(all[i].audit, all[i].before, all[i].slots, no)
    BY <1>1, SpoiltIs
  <1> HIDE DEF no, s
  <1>3. s.audit = all[i].audit /\ s.slots = all[i].slots
    BY <1>2, TurnIs
  <1>4. StaysIn(s, names)
    BY <1>1, <1>3, StaysInAlike
  <1> QED
    BY <1>4 DEF s

LEMMA NoAuditStays ==
    ASSUME NEW all, AreTurns(all), NEW i \in DOMAIN all, NEW names, \A k \in DOMAIN all : StaysIn(all[k], names)
    PROVE  LET after == [all EXCEPT ![i].audit = <<>>]
           IN \A k \in DOMAIN after : StaysIn(after[k], names)
  <1> DEFINE after == [all EXCEPT ![i].audit = <<>>]
  <1>1. /\ DOMAIN after = DOMAIN all
        /\ after[i] = Turn(<<>>, all[i].before, all[i].slots, all[i].intact)
        /\ \A k \in DOMAIN all \ {i} : after[k] = all[k]
    BY NoAudit
  <1> HIDE DEF after
  <1>2. after[i].audit = <<>> /\ after[i].slots = all[i].slots
    BY <1>1, TurnIs
  <1>3. StaysIn(after[i], names)
    BY <1>2, StaysInAlike
  <1>4. \A k \in DOMAIN after : StaysIn(after[k], names)
    BY <1>1, <1>3
  <1> QED
    BY <1>4 DEF after

LEMMA PartStays ==
    ASSUME NEW all, AreTurns(all), NEW names, \A k \in DOMAIN all : StaysIn(all[k], names),
           NEW n \in 0..Len(all)
    PROVE  \A k \in DOMAIN SubSeq(all, 1, n) : StaysIn(SubSeq(all, 1, n)[k], names)
  BY Part DEF AreTurns

LEMMA SlotsRegenerate ==
    ASSUME HistoryInv, SlotsInv, NEW i, Regenerate(i)
    PROVE  SlotsInv'
  <1> DEFINE reverted == RevertStateChanges(scope, turns[i].audit, actors, entries)
             after == IF reverted.ok THEN [turns EXCEPT ![i].audit = <<>>] ELSE turns
  <1>1. /\ i \in DOMAIN turns /\ AreTurns(after) /\ turns' \in {after, Spoilt(after)}
        /\ UNCHANGED <<scope, actors, renames>>
    BY RegenerateIs
  <1>2. AreTurns(turns)
    BY DEF HistoryInv
  <1>3. renames = 0 => \A k \in DOMAIN after : StaysIn(after[k], actors)
    <2> SUFFICES ASSUME renames = 0 PROVE \A k \in DOMAIN after : StaysIn(after[k], actors)
      OBVIOUS
    <2>1. \A k \in DOMAIN turns : StaysIn(turns[k], actors)
      BY DEF SlotsInv
    <2> HIDE DEF reverted
    <2>2. CASE reverted.ok
      BY <1>1, <1>2, <2>1, <2>2, NoAuditStays
    <2>3. CASE ~reverted.ok
      BY <2>1, <2>3
    <2> QED
      BY <2>2, <2>3
  <1> HIDE DEF after
  <1>4. renames = 0 => \A k \in DOMAIN turns' : StaysIn(turns'[k], actors)
    BY <1>1, <1>3, SpoiltStays
  <1> QED
    BY <1>1, <1>4 DEF SlotsInv

LEMMA SlotsRewind ==
    ASSUME HistoryInv, SlotsInv, NEW i \in Nat, RewindGame(i) \/ RewindChat(i)
    PROVE  SlotsInv'
  <1>1. /\ AreTurns(turns) /\ Len(turns) \in Nat /\ i \in 0..Len(turns)
    BY SeqIs DEF HistoryInv, AreTurns, RewindGame, RewindChat
  <1> DEFINE left == SubSeq(turns, 1, i)
  <1>2. turns' \in {left, Spoilt(left), turns, Spoilt(turns)} /\ UNCHANGED <<actors, renames>>
    <2>1. CASE RewindGame(i)
      BY <2>1, RewindGameIs
    <2>2. CASE RewindChat(i)
      BY <2>2 DEF RewindChat
    <2> QED
      BY <2>1, <2>2
  <1>3. AreTurns(left)
    BY <1>1, PartOfTurns
  <1>4. renames = 0 => /\ \A k \in DOMAIN turns : StaysIn(turns[k], actors)
                       /\ \A k \in DOMAIN left : StaysIn(left[k], actors)
    BY <1>1, PartStays DEF SlotsInv
  <1> HIDE DEF left
  <1>5. renames = 0 => \A k \in DOMAIN turns' : StaysIn(turns'[k], actors)
    BY <1>1, <1>2, <1>3, <1>4, SpoiltStays
  <1> QED
    BY <1>2, <1>5 DEF SlotsInv

LEMMA SlotsRename ==
    ASSUME HistoryInv, SlotsInv, NEW i \in DOMAIN actors, NEW name, RenameActor(i, name)
    PROVE  SlotsInv'
  <1>1. actors[i] # "pc" /\ actors' = [actors EXCEPT ![i] = name] /\ renames' = renames + 1
    BY DEF RenameActor
  <1>2. PICK k \in DOMAIN actors : actors[k] = "pc"
    BY DEF SlotsInv, Range
  <1>3. k \in DOMAIN actors' /\ actors'[k] = "pc"
    BY <1>1, <1>2
  <1>4. "pc" \in Range(actors')
    BY <1>3 DEF Range
  <1>5. renames' \in Nat /\ renames' # 0
    BY <1>1 DEF SlotsInv
  <1> QED
    BY <1>4, <1>5 DEF SlotsInv

LEMMA SlotsStep == HistoryInv /\ SlotsInv /\ [Next]_vars => SlotsInv'
  <1> SUFFICES ASSUME HistoryInv, SlotsInv, [Next]_vars PROVE SlotsInv'
    OBVIOUS
  <1>0. Len(turns) \in Nat /\ DOMAIN turns = 1..Len(turns)
    BY SeqIs DEF HistoryInv, AreTurns
  <1>1. IsTurn(NewTurn) /\ StaysIn(NewTurn, actors)
    BY NewTurnIs, Tuples DEF StaysIn
  <1>2. ASSUME NEW batch \in Batches[scope], ApplyToNewTurn(batch) PROVE SlotsInv'
    <2>1. Apply(batch, Len(turns) + 1, NewTurn) /\ Len(turns) + 1 \in 1..Len(turns) + 1
      BY <1>0, <1>2 DEF ApplyToNewTurn
    <2> QED
      BY <1>1, <2>1, SlotsApply
  <1>3. ASSUME NEW batch \in Batches[scope], NEW i \in 1..MaxTurns, ApplyToTurn(batch, i) PROVE SlotsInv'
    <2> DEFINE turn == IF turns[i].audit = <<>> /\ turns[i].intact THEN NewTurn ELSE turns[i]
    <2>1. Apply(batch, i, turn) /\ i \in DOMAIN turns
      BY <1>3 DEF ApplyToTurn, Regenerable
    <2>2. IsTurn(turn) /\ (renames = 0 => StaysIn(turn, actors)) /\ i \in 1..Len(turns) + 1
      BY <1>0, <1>1, <2>1 DEF HistoryInv, AreTurns, SlotsInv
    <2> HIDE DEF turn
    <2> QED
      BY <2>1, <2>2, SlotsApply
  <1>4. ASSUME NEW i, Regenerate(i) PROVE SlotsInv'
    BY <1>4, SlotsRegenerate
  <1>5. ASSUME NEW i \in 0..MaxTurns, RewindGame(i) \/ RewindChat(i) PROVE SlotsInv'
    BY <1>5, SlotsRewind
  <1>6. ASSUME NEW i \in DOMAIN actors, NEW name, RenameActor(i, name) PROVE SlotsInv'
    BY <1>6, SlotsRename
  <1>7. CASE UNCHANGED vars
    BY <1>7 DEF vars, SlotsInv
  <1> QED
    BY <1>2, <1>3, <1>4, <1>5, <1>6, <1>7 DEF Next, ApplyAny

\* As long as no actor is renamed, regenerating a turn leaves every entry whose
\* slot none of its batches addressed as it is, whatever else the table, its
\* actors and the other turns went through.
THEOREM RegeneratesStayInTheirSlots == Spec => RegenerateStaysInItsSlots
  <1>1. HistoryInv /\ SlotsInv /\ [Next]_vars =>
            [\A i \in 1..MaxTurns : Regenerate(i) /\ renames = 0 =>
                \A slot \in Slots(entries \cup entries') \ turns[i].slots :
                   At(entries, slot) = At(entries', slot)]_vars
    BY RegenerateStays
  <1> QED
    BY <1>1, HistoryInit, HistoryStep, SlotsInit, SlotsStep, PTL DEF Spec, RegenerateStaysInItsSlots


-----------------------------------------------------------------------------
(* The last change of a batch. Planned at once, it finds what it would find after the   *)
(* others were written: their statements stay in their own slots, and it has another.   *)

LEMMA BatchParts ==
    ASSUME NEW b, IsSeq(b), b # <<>>
    PROVE  /\ Len(b) \in Nat \ {0} /\ IsSeq(Front(b)) /\ Len(Front(b)) = Len(b) - 1
           /\ \A i \in 1..Len(b) - 1 : Front(b)[i] = b[i] /\ b[i] \in Range(Front(b))
           /\ Range(Front(b)) \subseteq Range(b) /\ Last(b) \in Range(b)
  <1>1. Len(b) \in Nat \ {0} /\ DOMAIN b = 1..Len(b)
    BY SeqIs DEF IsSeq
  <1> DEFINE f == Front(b)
  <1>2. /\ IsSeq(f) /\ Len(f) = Len(b) - 1 /\ DOMAIN f = 1..Len(b) - 1
        /\ \A i \in DOMAIN f : 1 + i - 1 \in DOMAIN b /\ f[i] = b[1 + i - 1]
    <2>1. 1 \in Nat \ {0} /\ Len(b) - 1 \in 0..Len(b)
      BY <1>1
    <2>2. LET p == SubSeq(b, 1, Len(b) - 1)
          IN /\ IsSeq(p) /\ Len(p) = IF 1 <= Len(b) - 1 THEN Len(b) - 1 - 1 + 1 ELSE 0
             /\ DOMAIN p = 1..Len(p)
             /\ \A i \in DOMAIN p : 1 + i - 1 \in DOMAIN b /\ p[i] = b[1 + i - 1]
      BY <2>1, Part
    <2> QED
      BY <1>1, <2>2 DEF Front
  <1>3. \A i \in 1..Len(b) - 1 : f[i] = b[i] /\ i \in DOMAIN b
    BY <1>1, <1>2
  <1> HIDE DEF f
  <1>4. Range(f) \subseteq Range(b) /\ \A i \in 1..Len(b) - 1 : b[i] \in Range(f)
    BY <1>2, <1>3 DEF Range
  <1>5. Last(b) \in Range(b)
    BY <1>1 DEF Last, Range
  <1> QED
    BY <1>1, <1>2, <1>3, <1>4, <1>5 DEF f

LEMMA VivifiedMore ==
    ASSUME NEW b, IsSeq(b), b # <<>>, NEW names, IsSeq(names)
    PROVE  /\ Vivified(b, names) = Vivified(<<Last(b)>>, Vivified(Front(b), names))
           /\ Extends(Vivified(b, names), Vivified(Front(b), names))
           /\ Extends(Vivified(Front(b), names), names)
  <1> DEFINE k == Len(b)
             front == Front(b)
             c == Last(b)
             More(known, change) == IF change.target \in {"world", "pc"} \cup Range(known)
                                    THEN known ELSE Append(known, change.target)
  <1>1. /\ k \in Nat \ {0} /\ IsSeq(front) /\ Len(front) = k - 1 /\ c = b[k]
        /\ \A i \in 1..k - 1 : front[i] = b[i]
    BY BatchParts DEF Last
  <1>2. IsSeq(<<c>>) /\ Len(<<c>>) = 1 /\ <<c>>[1] = c
    BY Tuples
  <1>3. PICK f : /\ f = [i \in 0..k |-> IF i = 0 THEN names ELSE More(f[i - 1], b[i])]
                 /\ Vivified(b, names) = f[k]
    BY VivifiedIs
  <1> DEFINE j == Len(front)
  <1>4. PICK g : /\ g = [i \in 0..j |-> IF i = 0 THEN names ELSE More(g[i - 1], front[i])]
                 /\ Vivified(front, names) = g[j]
    <2> HIDE DEF front
    <2> QED
      BY <1>1, VivifiedIs
  <1> DEFINE known == Vivified(front, names)
  <1> DEFINE one == <<c>>
             last == Len(one)
  <1>5. PICK h : /\ h = [i \in 0..last |-> IF i = 0 THEN known ELSE More(h[i - 1], one[i])]
                 /\ Vivified(one, known) = h[last]
    <2>1. IsSeq(one)
      BY <1>2
    <2> HIDE DEF one, known
    <2> QED
      BY <2>1, VivifiedIs
  <1>0. j = k - 1 /\ last = 1
    BY <1>1, <1>2
  <1> HIDE DEF More, k, front, c, j, last
  <1> DEFINE S == {i \in 0..k - 1 : f[i] = g[i]}
  <1>6. 0 \in S
    BY <1>0, <1>1, <1>3, <1>4
  <1>7. ASSUME NEW i \in 1..k - 1, i - 1 \in S PROVE i \in S
    <2>1. f[i] = More(f[i - 1], b[i]) /\ g[i] = More(g[i - 1], front[i]) /\ front[i] = b[i]
      BY <1>0, <1>1, <1>3, <1>4
    <2> QED
      BY <1>1, <1>7, <2>1
  <1>8. k - 1 \in S
    <2> HIDE DEF S
    <2>1. k - 1 \in Nat
      BY <1>1
    <2>2. 0..k - 1 \subseteq S
      BY <1>6, <1>7, <2>1, UpTo
    <2> QED
      BY <2>1, <2>2
  <1>9. f[k] = More(f[k - 1], b[k]) /\ f[k - 1] = known
    <2>1. k \in 0..k /\ k # 0
      BY <1>1
    <2> QED
      BY <1>0, <1>3, <1>4, <1>8, <2>1
  <1>10. h[1] = More(known, c)
    <2>1. h[0] = known /\ h[1] = More(h[0], one[1])
      BY <1>0, <1>5
    <2> QED
      BY <1>2, <2>1
  <1>11. Vivified(b, names) = Vivified(<<c>>, known)
    BY <1>0, <1>1, <1>3, <1>5, <1>9, <1>10
  <1>12. IsSeq(known) /\ Extends(known, names)
    BY <1>1, VivifiedExtends DEF Extends
  <1>13. Extends(Vivified(<<c>>, known), known)
    BY <1>2, <1>12, VivifiedExtends
  <1> QED
    BY <1>11, <1>12, <1>13 DEF c, front

\* The names a batch speaks of are all known once it is planned.
LEMMA TargetsKnown ==
    ASSUME NEW b, IsSeq(b), NEW names, IsSeq(names), "pc" \in Range(names)
    PROVE  /\ IsSeq(Vivified(b, names)) /\ "pc" \in Range(Vivified(b, names))
           /\ \A c \in Range(b) : c.target \in {"world"} \cup Range(Vivified(b, names))
  <1> DEFINE known == Vivified(b, names)
  <1>1. /\ Extends(known, names) /\ IsSeq(known)
        /\ \A k \in DOMAIN b : b[k].target \in {"world", "pc"} \cup Range(known)
    BY VivifiedExtends DEF Extends
  <1>2. "pc" \in Range(known)
    BY <1>1, SeqIs DEF Extends, Range
  <1> QED
    BY <1>1, <1>2 DEF Range

LEMMA ResolveDiffers ==
    ASSUME NEW names, IsSeq(names), NEW x \in {"world"} \cup Range(names),
           NEW y \in {"world"} \cup Range(names), x # y
    PROVE  ResolveActor(x, names) # ResolveActor(y, names)
  <1> DEFINE a == ResolveActor(x, names)
             c == ResolveActor(y, names)
  <1>1. x = "world" => a = World
    BY ResolveIs
  <1>2. y = "world" => c = World
    BY ResolveIs
  <1>3. x # "world" => a # World /\ names[a] = x
    BY ResolveIs
  <1>4. y # "world" => c # World /\ names[c] = y
    BY ResolveIs
  <1> QED
    BY <1>1, <1>2, <1>3, <1>4

LEMMA Behind ==
    /\ \A x, y : <<x>> \o <<y>> = <<x, y>>
    /\ \A s : IsSeq(s) => /\ s \o <<>> = s /\ <<>> \o s = s
                          /\ \A x : s \o <<x>> = Append(s, x)
                          /\ \A x, y : s \o <<x, y>> = Append(Append(s, x), y)
  <1>1. ASSUME NEW x, NEW y PROVE Append(<<x>>, y) = <<x, y>>
    <2> DEFINE V == {x, y}
               s == Append(<<x>>, y)
               p == <<x, y>>
    <2>1. <<x>> \in Seq(V) /\ p \in Seq(V) /\ Len(p) = 2 /\ p[1] = x /\ p[2] = y
      OBVIOUS
    <2>2. s \in Seq(V) /\ Len(s) = 2 /\ s[1] = x /\ s[2] = y
      BY <2>1, AppendProperties
    <2> HIDE DEF s, p, V
    <2>3. \A i \in 1..Len(s) : s[i] = p[i]
      BY <2>1, <2>2
    <2>4. s = p
      BY <2>1, <2>2, <2>3, SeqEqual
    <2> QED
      BY <2>4 DEF s, p
  <1>2. ASSUME NEW s, IsSeq(s), NEW x PROVE s \o <<x>> = Append(s, x)
    <2>1. PICK U : s \in Seq(U)
      BY <1>2 DEF IsSeq
    <2>2. s \in Seq(U \cup {x}) /\ x \in U \cup {x}
      BY <2>1
    <2> QED
      BY <2>2, AppendIsConcat
  <1>3. ASSUME NEW x, NEW y PROVE <<x>> \o <<y>> = <<x, y>>
    BY <1>1, <1>2, Tuples
  <1>4. ASSUME NEW s, IsSeq(s) PROVE s \o <<>> = s /\ <<>> \o s = s
    BY <1>4, ConcatEmptySeq DEF IsSeq
  <1>5. ASSUME NEW s, IsSeq(s), NEW x, NEW y PROVE s \o <<x, y>> = Append(Append(s, x), y)
    <2>1. PICK U : s \in Seq(U)
      BY <1>5 DEF IsSeq
    <2> DEFINE V == U \cup {x, y}
    <2>2. s \in Seq(V) /\ <<x>> \in Seq(V) /\ <<y>> \in Seq(V)
      BY <2>1
    <2>3. (s \o <<x>>) \o <<y>> = s \o (<<x>> \o <<y>>)
      BY <2>2, ConcatAssociative
    <2>4. s \o <<x>> = Append(s, x) /\ IsSeq(Append(s, x))
      BY <1>2, <1>5, Appended
    <2>5. Append(s, x) \o <<y>> = Append(Append(s, x), y)
      BY <1>2, <2>4
    <2> QED
      BY <1>3, <2>3, <2>4, <2>5
  <1> QED
    BY <1>2, <1>3, <1>4, <1>5

\* The plan of a batch is that of its front, with its last change planned behind it.
LEMMA PlanBehind ==
    ASSUME NEW b, IsSeq(b), b # <<>>, NEW names, IsSeq(names), "pc" \in Range(names), NEW t
    PROVE  PlanStateChanges(b, names, t)
             = Planned(PlanStateChanges(Front(b), names, t), Last(b), Vivified(b, names), t)
  <1> DEFINE k == Len(b)
             front == Front(b)
             j == Len(front)
             known == Vivified(b, names)
             less == Vivified(front, names)
  <1>1. /\ k \in Nat \ {0} /\ IsSeq(front) /\ j = k - 1 /\ Last(b) = b[k]
        /\ \A i \in 1..k - 1 : front[i] = b[i] /\ b[i] \in Range(front)
    BY BatchParts DEF Last
  <1>2. PICK f : /\ f = [i \in 0..k |-> IF i = 0 THEN NoPlan ELSE Planned(f[i - 1], b[i], known, t)]
                 /\ PlanStateChanges(b, names, t) = f[k]
    BY PlanIs
  <1>3. PICK g : /\ g = [i \in 0..j |-> IF i = 0 THEN NoPlan ELSE Planned(g[i - 1], front[i], less, t)]
                 /\ PlanStateChanges(front, names, t) = g[j]
    <2>1. IsSeq(front)
      BY <1>1
    <2> HIDE DEF front
    <2> QED
      BY <2>1, PlanIs
  <1>4. ASSUME NEW i \in 1..k - 1, NEW p PROVE Planned(p, b[i], known, t) = Planned(p, b[i], less, t)
    <2>1. IsSeq(less) /\ b[i].target \in {"world"} \cup Range(less)
      <3> HIDE DEF front
      <3> QED
        BY <1>1, TargetsKnown
    <2>2. Extends(known, less)
      BY VivifiedMore
    <2> HIDE DEF known, less
    <2>3. ResolveActor(b[i].target, known) = ResolveActor(b[i].target, less)
      BY <2>1, <2>2, ResolveStays
    <2> QED
      BY <2>3 DEF Planned
  <1> HIDE DEF k, front, j, known, less
  <1> DEFINE S == {i \in 0..k - 1 : f[i] = g[i]}
  <1>5. 0 \in S
    BY <1>1, <1>2, <1>3
  <1>6. ASSUME NEW i \in 1..k - 1, i - 1 \in S PROVE i \in S
    <2>1. /\ f[i] = Planned(f[i - 1], b[i], known, t) /\ g[i] = Planned(g[i - 1], front[i], less, t)
          /\ front[i] = b[i]
      BY <1>1, <1>2, <1>3
    <2>2. i - 1 \in 0..k - 1 /\ f[i - 1] = g[i - 1]
      BY <1>6
    <2> QED
      BY <1>4, <2>1, <2>2
  <1>7. k - 1 \in S
    <2> HIDE DEF S
    <2>1. k - 1 \in Nat
      BY <1>1
    <2>2. 0..k - 1 \subseteq S
      BY <1>5, <1>6, <2>1, UpTo
    <2> QED
      BY <2>1, <2>2
  <1>8. f[k] = Planned(f[k - 1], b[k], known, t) /\ f[k - 1] = g[j]
    <2>1. k \in 0..k /\ k # 0
      BY <1>1
    <2> QED
      BY <1>1, <1>2, <1>7, <2>1
  <1> QED
    BY <1>1, <1>2, <1>3, <1>8 DEF known, front

\* What a mutation is for: the slot it inserts into, or a row found there.
ForSlot(m, actor, key, e) ==
    IF m.op = "insert" THEN m.actor = actor /\ m.key = key ELSE e # NoPrev /\ m.id = e.id

LEMMA PlanNewShape ==
    ASSUME NEW change, NEW actor, NEW e
    PROVE  LET s == PlanNew(change, actor, e)
           IN \/ s = <<>>
              \/ \E m : s = <<m>> /\ ForSlot(m, actor, change.key, e) /\ (m.op = "insert" => e = NoPrev)
  <1> DEFINE One(s) == \/ s = <<>>
                       \/ \E m : s = <<m>> /\ ForSlot(m, actor, change.key, e) /\ (m.op = "insert" => e = NoPrev)
  <1>1. ASSUME NEW m, ForSlot(m, actor, change.key, e), m.op = "insert" => e = NoPrev PROVE One(<<m>>)
    BY <1>1
  <1>2. One(<<>>)
    OBVIOUS
  <1>3. ASSUME NEW kind, NEW cols, e = NoPrev PROVE One(Insert(actor, change, kind, cols))
    <2> DEFINE m == [op |-> "insert", actor |-> actor, kind |-> kind, key |-> change.key, cols |-> cols]
    <2>1. ForSlot(m, actor, change.key, e) /\ m.op = "insert" /\ Insert(actor, change, kind, cols) = <<m>>
      BY DEF ForSlot, Insert
    <2> HIDE DEF m, One
    <2> QED
      BY <1>1, <1>3, <2>1
  <1>4. ASSUME e # NoPrev PROVE One(Delete(e))
    <2> DEFINE m == [op |-> "delete", id |-> e.id]
    <2>1. ForSlot(m, actor, change.key, e) /\ m.op # "insert" /\ Delete(e) = <<m>>
      BY <1>4 DEF ForSlot, Delete
    <2> HIDE DEF m, One
    <2> QED
      BY <1>1, <2>1
  <1>5. ASSUME e # NoPrev, NEW value PROVE One(Write(e, value))
    <2> DEFINE m == [op |-> "value", id |-> e.id, value |-> value]
    <2>1. ForSlot(m, actor, change.key, e) /\ m.op # "insert" /\ Write(e, value) = <<m>>
      BY <1>5 DEF ForSlot, Write
    <2> HIDE DEF m, One
    <2> QED
      BY <1>1, <2>1
  <1>6. ASSUME e # NoPrev, NEW num, NEW lo, NEW hi
        PROVE  One(<<[op |-> "measure", id |-> e.id, num |-> num, lo |-> lo, hi |-> hi]>>)
    <2> DEFINE m == [op |-> "measure", id |-> e.id, num |-> num, lo |-> lo, hi |-> hi]
    <2>1. ForSlot(m, actor, change.key, e) /\ m.op # "insert"
      BY <1>6 DEF ForSlot
    <2> HIDE DEF m, One
    <2>2. One(<<m>>)
      BY <1>1, <2>1
    <2> QED
      BY <2>2 DEF m
  <1> HIDE DEF One
  <1>7. One(DeleteIfAny(e))
    BY <1>2, <1>4 DEF DeleteIfAny
  <1>8. One(PlanText(change, actor, e))
    BY <1>3, <1>5, <1>7 DEF PlanText
  <1>9. One(PlanMeasurement(change, actor, e))
    BY <1>3, <1>6, <1>7 DEF PlanMeasurement
  <1>10. One(PlanSequence(change, actor, e))
    BY <1>2, <1>3, <1>5, <1>7 DEF PlanSequence
  <1>11. One(PlanNew(change, actor, e))
    BY <1>8, <1>9, <1>10 DEF PlanNew
  <1> QED
    BY <1>11 DEF One

\* At most two statements, and none behind an insert.
LEMMA PlanChangeShape ==
    ASSUME NEW change, NEW actor, NEW e
    PROVE  LET s == PlanChange(change, actor, e)
               Of(m) == ForSlot(m, actor, change.key, e)
           IN \/ s = <<>>
              \/ \E m : s = <<m>> /\ Of(m)
              \/ \E m1, m2 : s = <<m1, m2>> /\ Of(m1) /\ Of(m2) /\ m1.op # "insert"
  <1> DEFINE Of(m) == ForSlot(m, actor, change.key, e)
             Two(s) == \/ s = <<>>
                       \/ \E m : s = <<m>> /\ Of(m)
                       \/ \E m1, m2 : s = <<m1, m2>> /\ Of(m1) /\ Of(m2) /\ m1.op # "insert"
  <1>1. CASE Clashes(change, e)
    <2> DEFINE m == [op |-> "delete", id |-> e.id]
               more == PlanNew(change, actor, NoPrev)
    <2>1. PlanChange(change, actor, e) = <<m>> \o more
      BY <1>1 DEF PlanChange, Delete
    <2>2. Of(m) /\ m.op # "insert"
      BY <1>1 DEF Clashes, ForSlot
    <2>3. more = <<>> \/ \E m2 : more = <<m2>> /\ ForSlot(m2, actor, change.key, NoPrev)
      BY PlanNewShape
    <2> HIDE DEF m, more
    <2>4. CASE more = <<>>
      <3>1. <<m>> \o <<>> = <<m>>
        OBVIOUS
      <3> QED
        BY <2>1, <2>2, <2>4, <3>1
    <2>5. CASE \E m2 : more = <<m2>> /\ ForSlot(m2, actor, change.key, NoPrev)
      <3>1. PICK m2 : more = <<m2>> /\ ForSlot(m2, actor, change.key, NoPrev)
        BY <2>5
      <3>2. Of(m2)
        BY <3>1 DEF ForSlot
      <3>3. <<m>> \o <<m2>> = <<m, m2>>
        BY Behind
      <3> QED
        BY <2>1, <2>2, <3>1, <3>2, <3>3
    <2> QED
      BY <2>3, <2>4, <2>5
  <1>2. CASE ~Clashes(change, e)
    <2> DEFINE s == PlanNew(change, actor, e)
               r == Rekind(change, e)
    <2>1. PlanChange(change, actor, e) = s \o r
      BY <1>2 DEF PlanChange
    <2>2. s = <<>> \/ \E m : s = <<m>> /\ Of(m) /\ (m.op = "insert" => e = NoPrev)
      BY PlanNewShape
    <2>3. r = <<>> \/ \E m : r = <<m>> /\ Of(m) /\ e # NoPrev
      <3> DEFINE m == [op |-> "kind", id |-> e.id, kind |-> change.kind]
      <3>1. e # NoPrev => Of(m)
        BY DEF ForSlot
      <3>2. r = <<>> \/ (r = <<m>> /\ e # NoPrev)
        BY DEF Rekind
      <3> HIDE DEF m, Of, r
      <3> QED
        BY <3>1, <3>2
    <2> HIDE DEF s, r, Of
    <2>4. CASE s = <<>> /\ r = <<>>
      <3>1. <<>> \o <<>> = <<>>
        OBVIOUS
      <3> QED
        BY <2>1, <2>4, <3>1
    <2>5. ASSUME NEW m, s = <<m>>, Of(m), r = <<>> PROVE Two(PlanChange(change, actor, e))
      <3>1. <<m>> \o <<>> = <<m>>
        OBVIOUS
      <3> QED
        BY <2>1, <2>5, <3>1
    <2>6. ASSUME NEW m, r = <<m>>, Of(m), s = <<>> PROVE Two(PlanChange(change, actor, e))
      <3>1. <<>> \o <<m>> = <<m>>
        OBVIOUS
      <3> QED
        BY <2>1, <2>6, <3>1
    <2>7. ASSUME NEW m1, s = <<m1>>, Of(m1), m1.op = "insert" => e = NoPrev,
                 NEW m2, r = <<m2>>, Of(m2), e # NoPrev
          PROVE  Two(PlanChange(change, actor, e))
      <3>1. <<m1>> \o <<m2>> = <<m1, m2>>
        BY Behind
      <3> QED
        BY <2>1, <2>7, <3>1
    <2> QED
      BY <2>2, <2>3, <2>4, <2>5, <2>6, <2>7 DEF Of
  <1> QED
    BY <1>1, <1>2

LEMMA PlanMoreCases ==
    ASSUME NEW p, NEW change, NEW actor, NEW t
    PROVE  PlanMore(p, change, actor, t) =
              IF change.target # "world" /\ actor = World THEN p
              ELSE PlanStep(p, change, actor, Found(t, p.freed, actor, change.key))
  <1> DEFINE e == Found(t, p.freed, actor, change.key)
  <1>1. {PlanStep(p, change, actor, d) : d \in {e}} = {PlanStep(p, change, actor, e)}
    OBVIOUS
  <1> QED
    BY <1>1, TheIs DEF PlanMore

ForSlots(m, t, slots) ==
    IF m.op = "insert" THEN <<m.actor, m.key>> \in slots
    ELSE \E e \in t : m.id = e.id /\ <<e.actor, e.key>> \in slots

AreForSlots(s, t, slots) == \A m \in Range(s) : ForSlots(m, t, slots)

LEMMA PlanChangeStays ==
    ASSUME NEW t, NEW slots, NEW change, NEW actor, NEW e,
           e = NoPrev \/ (e \in t /\ e.actor = actor /\ e.key = change.key),
           <<actor, change.key>> \in slots
    PROVE  IsSeq(PlanChange(change, actor, e)) /\ AreForSlots(PlanChange(change, actor, e), t, slots)
  <1> DEFINE s == PlanChange(change, actor, e)
             Of(m) == ForSlot(m, actor, change.key, e)
  <1>1. ASSUME NEW m, Of(m) PROVE ForSlots(m, t, slots)
    BY <1>1 DEF ForSlot, ForSlots
  <1>2. \/ s = <<>>
        \/ \E m : s = <<m>> /\ Of(m)
        \/ \E m1, m2 : s = <<m1, m2>> /\ Of(m1) /\ Of(m2) /\ m1.op # "insert"
    BY PlanChangeShape
  <1> HIDE DEF s, Of
  <1>3. CASE s = <<>>
    BY <1>3, Tuples DEF AreForSlots, s
  <1>4. ASSUME NEW m, s = <<m>>, Of(m) PROVE IsSeq(s) /\ AreForSlots(s, t, slots)
    BY <1>1, <1>4, Tuples DEF AreForSlots
  <1>5. ASSUME NEW m1, NEW m2, s = <<m1, m2>>, Of(m1), Of(m2) PROVE IsSeq(s) /\ AreForSlots(s, t, slots)
    <2>1. s = <<m1>> \o <<m2>>
      BY <1>5, Behind
    <2>2. IsSeq(s) /\ Range(s) = {m1} \cup {m2}
      <3>1. IsSeq(<<m1>>) /\ IsSeq(<<m2>>) /\ Range(<<m1>>) = {m1} /\ Range(<<m2>>) = {m2}
        BY Tuples
      <3>2. IsSeq(<<m1>> \o <<m2>>) /\ Range(<<m1>> \o <<m2>>) = Range(<<m1>>) \cup Range(<<m2>>)
        BY <3>1, Joined
      <3> QED
        BY <2>1, <3>1, <3>2
    <2> QED
      BY <1>1, <1>5, <2>2 DEF AreForSlots
  <1> QED
    BY <1>2, <1>3, <1>4, <1>5 DEF s

\* The statements of a batch and the slots it frees are those it addresses.
LEMMA PlanStays ==
    ASSUME NEW b, IsBatch(b), NEW names, IsSeq(names), NEW t, IsTable(t, Len(Vivified(b, names))), NEW slots,
           \A c \in Range(b) : <<ResolveActor(c.target, Vivified(b, names)), c.key>> \in slots
    PROVE  LET p == PlanStateChanges(b, names, t)
           IN p.freed \subseteq slots /\ IsSeq(p.mutations) /\ AreForSlots(p.mutations, t, slots)
  <1> DEFINE k == Len(b)
             known == Vivified(b, names)
             Stays(p) == p.freed \subseteq slots /\ IsSeq(p.mutations) /\ AreForSlots(p.mutations, t, slots)
  <1>1. PICK f : /\ f = [i \in 0..k |-> IF i = 0 THEN NoPlan ELSE Planned(f[i - 1], b[i], known, t)]
                 /\ PlanStateChanges(b, names, t) = f[k]
    BY PlanIs DEF IsBatch
  <1>2. k \in Nat /\ \A i \in 1..k : b[i] \in Range(b)
    BY SeqIs DEF IsBatch, Range
  <1>3. ASSUME NEW p, Stays(p), NEW c \in Range(b)
        PROVE  Stays(PlanMore(p, c, ResolveActor(c.target, known), t))
    <2> DEFINE actor == ResolveActor(c.target, known)
               e == Found(t, p.freed, actor, c.key)
               more == PlanChange(c, actor, e)
               step == PlanStep(p, c, actor, e)
    <2>1. e = NoPrev \/ (e \in t /\ e.actor = actor /\ e.key = c.key)
      BY FoundIs
    <2>2. <<actor, c.key>> \in slots
      OBVIOUS
    <2>3. PlanMore(p, c, actor, t) \in {p, step}
      BY PlanMoreCases
    <2> HIDE DEF actor, e
    <2>4. IsSeq(more) /\ AreForSlots(more, t, slots)
      BY <2>1, <2>2, PlanChangeStays
    <2> HIDE DEF more
    <2>5. step.mutations = p.mutations \o more /\ step.freed \subseteq p.freed \cup {<<actor, c.key>>}
      BY DEF PlanStep, more
    <2>6. IsSeq(p.mutations \o more) /\ AreForSlots(p.mutations \o more, t, slots)
      BY <1>3, <2>4, Joined DEF AreForSlots
    <2> HIDE DEF step
    <2>7. Stays(step)
      BY <1>3, <2>2, <2>5, <2>6
    <2> HIDE DEF Stays
    <2> QED
      BY <1>3, <2>3, <2>7 DEF actor
  <1> HIDE DEF k, known, Stays
  <1> DEFINE S == {i \in 0..k : Stays(f[i])}
  <1>4. 0 \in S
    <2>1. f[0] = NoPlan
      BY <1>1, <1>2
    <2>2. Stays(NoPlan)
      BY Tuples DEF NoPlan, Stays, AreForSlots
    <2> QED
      BY <1>2, <2>1, <2>2
  <1>5. ASSUME NEW i \in 1..k, i - 1 \in S PROVE i \in S
    <2>1. f[i] = PlanMore(f[i - 1], b[i], ResolveActor(b[i].target, known), t)
      BY <1>1, <1>2 DEF Planned
    <2> QED
      BY <1>2, <1>3, <1>5, <2>1
  <1>6. k \in S
    <2> HIDE DEF S
    <2>1. 0..k \subseteq S
      BY <1>2, <1>4, <1>5, UpTo
    <2> QED
      BY <1>2, <2>1
  <1> QED
    BY <1>1, <1>6 DEF Stays

\* What a statement leaves of the rows, and what it makes.
LEMMA PersistRows ==
    ASSUME NEW t, NEW n, NEW db, Follows(db, t, n), NEW m, IsMutation(m, t, n)
    PROVE  LET after == Persist(db, m)
           IN /\ \A d \in after.entries :
                    \/ d \in db.entries
                    \/ m.op = "insert" /\ d = Entry(db.next, m.actor, m.kind, m.key, m.cols)
                    \/ /\ m.op # "insert"
                       /\ \E e \in db.entries :
                            e.id = m.id /\ d.id = e.id /\ d.actor = e.actor /\ d.key = e.key
              /\ \A e \in db.entries : e \in after.entries \/ (m.op # "insert" /\ e.id = m.id)
  <1> DEFINE after == Persist(db, m)
             hit == {e \in db.entries : e.id = m.id}
             others == db.entries \ hit
             made == {Changed(e, m) : e \in hit}
  <1>0. /\ IsDb(db, n) /\ IsTable(db.entries, n)
        /\ \A w : [db EXCEPT !.entries = w] = Db(w, db.ok, db.next)
        /\ Failed(db) = Db(db.entries, FALSE, db.next)
    BY DbIs DEF Follows, IsDb
  <1>1. CASE ~db.ok
    BY <1>1, PersistIs
  <1>2. CASE db.ok /\ m.op = "insert"
    <2> DEFINE row == Entry(db.next, m.actor, m.kind, m.key, m.cols)
    <2>1. m.actor \in 0..n /\ m.kind \in Kinds /\ Fits(m.kind, m.cols)
      BY <1>2 DEF IsMutation
    <2>2. after.entries = db.entries \/ after.entries = db.entries \cup {row}
      BY <1>0, <1>2, <2>1, PersistIs, InsertEntryIs
    <2> HIDE DEF after, row
    <2> QED
      BY <1>2, <2>2 DEF after, row
  <1>3. CASE db.ok /\ m.op = "delete"
    <2>1. after = [db EXCEPT !.entries = others]
      BY <1>3, PersistIs
    <2> HIDE DEF others, after
    <2>2. after.entries = others
      BY <1>0, <2>1 DEF Db
    <2> QED
      BY <1>3, <2>2 DEF others, after
  <1>4. CASE db.ok /\ m.op \in {"value", "kind", "measure"}
    <2>1. after = Failed(db) \/ after = [db EXCEPT !.entries = others \cup made]
      BY <1>4, PersistIs
    <2>2. ASSUME NEW d \in made
          PROVE  \E e \in db.entries : e.id = m.id /\ d.id = e.id /\ d.actor = e.actor /\ d.key = e.key
      <3>1. PICK e \in hit : d = Changed(e, m)
        OBVIOUS
      <3> DEFINE kind == IF m.op = "kind" THEN m.kind ELSE e.kind
                 cols == Columns(IF m.op = "value" THEN m.value ELSE e.cols.value,
                                 IF m.op = "measure" /\ m.num # NoNum THEN m.num ELSE e.cols.num,
                                 IF m.op = "measure" THEN m.lo ELSE e.cols.lo,
                                 IF m.op = "measure" THEN m.hi ELSE e.cols.hi)
      <3>2. IsRow(e, n)
        BY <1>0 DEF IsTable
      <3>3. d = Entry(e.id, e.actor, kind, e.key, cols)
        BY <1>4, <3>1, <3>2, ChangedIs
      <3> HIDE DEF kind, cols
      <3> QED
        BY <3>3, EntryIs
    <2> HIDE DEF made, after
    <2>3. after.entries = db.entries \/ after.entries = others \cup made
      <3> DEFINE new == others \cup made
      <3>1. after = Failed(db) \/ after = [db EXCEPT !.entries = new]
        BY <2>1
      <3> HIDE DEF new
      <3> DEFINE no == FALSE
      <3>2. Failed(db) = Db(db.entries, no, db.next)
        BY <1>0
      <3> HIDE DEF no
      <3>3. after = Db(db.entries, no, db.next) \/ after = Db(new, db.ok, db.next)
        BY <1>0, <3>1, <3>2
      <3>4. after.entries = db.entries \/ after.entries = new
        BY <3>3 DEF Db
      <3> QED
        BY <3>4 DEF new
    <2> QED
      BY <1>4, <2>2, <2>3 DEF after
  <1> QED
    BY <1>1, <1>2, <1>3, <1>4 DEF IsMutation

\* The rows a database still has of a table are where they were.
SameSlots(db, t) == \A d \in db.entries, e \in t : d.id = e.id => d.actor = e.actor /\ d.key = e.key

LEMMA PersistStays ==
    ASSUME NEW t, NEW n, NEW db, Follows(db, t, n), SameSlots(db, t),
           NEW m, IsMutation(m, t, n), NEW slots, ForSlots(m, t, slots)
    PROVE  /\ SameSlots(Persist(db, m), t)
           /\ Outside(Persist(db, m).entries, slots) = Outside(db.entries, slots)
  <1> DEFINE after == Persist(db, m)
             row == Entry(db.next, m.actor, m.kind, m.key, m.cols)
             Of(d) == \E e \in db.entries : e.id = m.id /\ d.id = e.id /\ d.actor = e.actor /\ d.key = e.key
  <1>1. /\ \A d \in after.entries :
              d \in db.entries \/ (m.op = "insert" /\ d = row) \/ (m.op # "insert" /\ Of(d))
        /\ \A e \in db.entries : e \in after.entries \/ (m.op # "insert" /\ e.id = m.id)
    BY PersistRows
  <1>2. row.id = db.next /\ row.actor = m.actor /\ row.key = m.key
    BY EntryIs
  <1>3. \A e \in t : e.id # db.next
    BY DEF Follows, Below, IsTable, IsRow, IsDb
  <1>4. \A d \in db.entries : m.op # "insert" /\ d.id = m.id => <<d.actor, d.key>> \in slots
    BY DEF ForSlots, SameSlots
  <1>5. m.op = "insert" => <<row.actor, row.key>> \in slots
    BY <1>2 DEF ForSlots
  <1> HIDE DEF after, row
  <1>6. SameSlots(after, t)
    <2> SUFFICES ASSUME NEW d \in after.entries, NEW e \in t, d.id = e.id PROVE d.actor = e.actor /\ d.key = e.key
      BY DEF SameSlots
    <2>1. CASE d \in db.entries
      BY <2>1 DEF SameSlots
    <2>2. CASE m.op = "insert" /\ d = row
      BY <1>2, <1>3, <2>2
    <2>3. CASE Of(d)
      BY <2>3 DEF SameSlots
    <2> QED
      BY <1>1, <2>1, <2>2, <2>3
  <1>7. \A d \in after.entries : d \in db.entries \/ <<d.actor, d.key>> \in slots
    <2> SUFFICES ASSUME NEW d \in after.entries, d \notin db.entries PROVE <<d.actor, d.key>> \in slots
      OBVIOUS
    <2>1. CASE m.op = "insert" /\ d = row
      BY <1>5, <2>1
    <2>2. CASE m.op # "insert" /\ Of(d)
      BY <1>4, <2>2
    <2> QED
      BY <1>1, <2>1, <2>2
  <1>8. \A e \in db.entries : e \in after.entries \/ <<e.actor, e.key>> \in slots
    BY <1>1, <1>4
  <1> QED
    BY <1>6, <1>7, <1>8 DEF Outside, after

LEMMA WrittenStays ==
    ASSUME NEW t, NEW n, IsTable(t, n), NEW s, AreMutations(s, t, n), NEW slots, AreForSlots(s, t, slots)
    PROVE  Outside(Written(t, s).entries, slots) = Outside(t, slots)
  <1> DEFINE k == Len(s)
  <1>1. PICK f : /\ f = [i \in 0..k |-> IF i = 0 THEN Table(t) ELSE Persist(f[i - 1], s[i])]
                 /\ Written(t, s) = f[k]
    BY WrittenIs DEF AreMutations
  <1>2. k \in Nat /\ \A i \in 1..k : IsMutation(s[i], t, n) /\ ForSlots(s[i], t, slots)
    BY SeqIs DEF AreMutations, AreForSlots, Range
  <1> HIDE DEF k
  <1> DEFINE Stays(db) == Follows(db, t, n) /\ SameSlots(db, t) /\ Outside(db.entries, slots) = Outside(t, slots)
             S == {i \in 0..k : Stays(f[i])}
  <1>3. 0 \in S
    <2>1. f[0] = Table(t)
      BY <1>1, <1>2
    <2>2. IsDb(Table(t), n) /\ Table(t).entries = t
      BY TableIs
    <2>3. Stays(Table(t))
      BY <2>2 DEF Follows, IsDb, IsTable, Keyed, SameSlots, SameFamily
    <2> HIDE DEF Stays
    <2> QED
      BY <1>2, <2>1, <2>3
  <1>4. ASSUME NEW i \in 1..k, i - 1 \in S PROVE i \in S
    <2> DEFINE db == f[i - 1]
               m == s[i]
    <2>1. Stays(db) /\ IsMutation(m, t, n) /\ ForSlots(m, t, slots) /\ f[i] = Persist(db, m)
      BY <1>1, <1>2, <1>4
    <2> HIDE DEF db, m
    <2>2. Stays(Persist(db, m))
      BY <2>1, PersistFollows, PersistStays
    <2> HIDE DEF Stays
    <2> QED
      BY <1>2, <2>1, <2>2
  <1>5. k \in S
    <2> HIDE DEF S
    <2>1. 0..k \subseteq S
      BY <1>2, <1>3, <1>4, UpTo
    <2> QED
      BY <1>2, <2>1
  <1> QED
    BY <1>1, <1>5

\* The entry of a slot depends on the rows of the slot.
Top(here) ==
    LET Precedes(d, e) == \/ KindRank[d.kind] < KindRank[e.kind]
                          \/ d.kind = e.kind /\ d.id <= e.id
    IN IF here = {} THEN NoPrev ELSE CHOOSE e \in here : \A d \in here : Precedes(d, e)

LEMMA EntryAtStays ==
    ASSUME NEW t, NEW u, NEW slots, Outside(t, slots) = Outside(u, slots),
           NEW actor, NEW key, <<actor, key>> \notin slots
    PROVE  EntryAt(t, actor, key) = EntryAt(u, actor, key)
  <1> DEFINE Here(x) == {e \in x : e.actor = actor /\ e.key = key}
  <1>1. EntryAt(t, actor, key) = Top(Here(t)) /\ EntryAt(u, actor, key) = Top(Here(u))
    BY DEF EntryAt, Top
  <1>2. \A x : Here(x) = {e \in Outside(x, slots) : e.actor = actor /\ e.key = key}
    BY DEF Outside
  <1>3. Here(t) = Here(u)
    BY <1>2
  <1> HIDE DEF Here
  <1> QED
    BY <1>1, <1>3

LEMMA WrittenBehind ==
    ASSUME NEW t, NEW s, IsSeq(s), NEW m
    PROVE  Written(t, Append(s, m)) = Persist(Written(t, s), m)
  <1> DEFINE more == Append(s, m)
             k == Len(s)
             j == Len(more)
  <1>1. /\ k \in Nat /\ IsSeq(more) /\ j = k + 1 /\ more[k + 1] = m
        /\ \A i \in 1..k : more[i] = s[i]
    BY SeqIs, Appended
  <1>2. PICK g : /\ g = [i \in 0..k |-> IF i = 0 THEN Table(t) ELSE Persist(g[i - 1], s[i])]
                 /\ Written(t, s) = g[k]
    BY WrittenIs
  <1>3. PICK f : /\ f = [i \in 0..j |-> IF i = 0 THEN Table(t) ELSE Persist(f[i - 1], more[i])]
                 /\ Written(t, more) = f[j]
    <2>1. IsSeq(more)
      BY <1>1
    <2> HIDE DEF more
    <2> QED
      BY <2>1, WrittenIs
  <1> HIDE DEF more, k, j
  <1> DEFINE S == {i \in 0..k : f[i] = g[i]}
  <1>4. 0 \in S
    BY <1>1, <1>2, <1>3
  <1>5. ASSUME NEW i \in 1..k, i - 1 \in S PROVE i \in S
    <2>1. f[i] = Persist(f[i - 1], more[i]) /\ g[i] = Persist(g[i - 1], s[i]) /\ more[i] = s[i]
      BY <1>1, <1>2, <1>3
    <2> QED
      BY <1>1, <1>5, <2>1
  <1>6. k \in S
    <2> HIDE DEF S
    <2>1. 0..k \subseteq S
      BY <1>1, <1>4, <1>5, UpTo
    <2> QED
      BY <1>1, <2>1
  <1>7. f[k + 1] = Persist(f[k], m)
    <2>1. k + 1 \in 0..j /\ k + 1 # 0 /\ k + 1 - 1 = k
      BY <1>1
    <2> QED
      BY <1>1, <1>3, <2>1
  <1> QED
    BY <1>1, <1>2, <1>3, <1>6, <1>7 DEF more

LEMMA WrittenNone ==
    ASSUME NEW t
    PROVE  Written(t, <<>>) = Table(t)
  <1> DEFINE s == <<>>
             k == Len(s)
  <1>1. IsSeq(s) /\ k = 0
    BY Tuples
  <1>2. PICK f : /\ f = [i \in 0..k |-> IF i = 0 THEN Table(t) ELSE Persist(f[i - 1], s[i])]
                 /\ Written(t, s) = f[k]
    <2> HIDE DEF s
    <2> QED
      BY <1>1, WrittenIs
  <1> QED
    BY <1>1, <1>2

\* Two databases with the same rows. Their next ids may differ: AUTOINCREMENT goes on
\* where the batch stopped, or behind the rows that are left.
Alike(c, d) == c.entries = d.entries /\ (c.ok <=> d.ok)

LEMMA PersistAlike ==
    ASSUME NEW n, NEW c, IsDb(c, n), NEW d, IsDb(d, n), Alike(c, d),
           NEW m, m.op \in {"insert", "delete", "value", "kind", "measure"},
           m.op = "insert" => m.actor \in 0..n /\ m.kind \in Kinds /\ Fits(m.kind, m.cols)
    PROVE  /\ m.op # "insert" => Alike(Persist(c, m), Persist(d, m))
           /\ Visible(Persist(c, m).entries) = Visible(Persist(d, m).entries)
  <1> DEFINE t == c.entries
             hit == {e \in t : e.id = m.id}
             others == t \ hit
             new == others \cup {Changed(e, m) : e \in hit}
             a == Persist(c, m)
             b == Persist(d, m)
  <1>0. /\ t = d.entries /\ (c.ok <=> d.ok)
        /\ \A w : [c EXCEPT !.entries = w] = Db(w, c.ok, c.next) /\ [d EXCEPT !.entries = w] = Db(w, d.ok, d.next)
        /\ Failed(c) = Db(t, FALSE, c.next) /\ Failed(d) = Db(t, FALSE, d.next)
    BY DbIs DEF Alike
  <1>1. CASE ~c.ok
    <2>1. a = c /\ b = d
      BY <1>0, <1>1, PersistIs
    <2> QED
      BY <1>0, <2>1
  <1>2. CASE c.ok /\ m.op = "insert"
    <2> DEFINE row == Entry(c.next, m.actor, m.kind, m.key, m.cols)
               mine == Entry(d.next, m.actor, m.kind, m.key, m.cols)
               Shown(e) == [actor |-> e.actor, kind |-> e.kind, key |-> e.key, cols |-> e.cols]
    <2>1. /\ a.entries = t \/ a.entries = t \cup {row}
          /\ Collides(t, m.actor, m.kind, m.key) <=> a.entries = t
      BY <1>2, PersistIs, InsertEntryIs
    <2>2. /\ b.entries = t \/ b.entries = t \cup {mine}
          /\ Collides(t, m.actor, m.kind, m.key) <=> b.entries = t
      BY <1>0, <1>2, PersistIs, InsertEntryIs
    <2>3. Shown(row) = Shown(mine)
      BY EntryIs
    <2> HIDE DEF a, b, row, mine, t
    <2>4. \A x : Visible(x) = {Shown(e) : e \in x}
      BY DEF Visible
    <2> HIDE DEF Shown
    <2>5. Visible(t \cup {row}) = Visible(t \cup {mine})
      <3>1. \A r : Visible(t \cup {r}) = Visible(t) \cup {Shown(r)}
        BY <2>4
      <3> QED
        BY <2>3, <3>1
    <2>6. Visible(a.entries) = Visible(b.entries)
      BY <2>1, <2>2, <2>5
    <2> QED
      BY <1>2, <2>6 DEF a, b
  <1>3. CASE c.ok /\ m.op = "delete"
    <2>1. a = [c EXCEPT !.entries = others] /\ b = [d EXCEPT !.entries = others]
      BY <1>0, <1>3, PersistIs
    <2> HIDE DEF others, a, b
    <2>2. a = Db(others, c.ok, c.next) /\ b = Db(others, d.ok, d.next)
      BY <1>0, <2>1
    <2>3. a.entries = b.entries /\ a.ok = c.ok /\ b.ok = d.ok
      BY <2>2 DEF Db
    <2> QED
      BY <1>0, <2>3 DEF a, b, Alike
  <1>4. CASE c.ok /\ m.op \in {"value", "kind", "measure"}
    <2> DEFINE clash == m.op = "kind" /\ \E e \in hit : Collides(others, e.actor, m.kind, e.key)
    <2>1. IF clash THEN a = Failed(c) ELSE a = [c EXCEPT !.entries = new]
      BY <1>4, PersistIs
    <2>2. IF clash THEN b = Failed(d) ELSE b = [d EXCEPT !.entries = new]
      <3> DEFINE u == d.entries
                 at == {e \in u : e.id = m.id}
                 rest == u \ at
      <3>1. IF m.op = "kind" /\ \E e \in at : Collides(rest, e.actor, m.kind, e.key)
            THEN b = Failed(d) ELSE b = [d EXCEPT !.entries = rest \cup {Changed(e, m) : e \in at}]
        BY <1>0, <1>4, PersistIs
      <3>2. u = t
        BY <1>0
      <3>3. at = hit /\ rest = others
        BY <3>2
      <3> HIDE DEF u, at, rest, b
      <3> QED
        BY <3>1, <3>3
    <2> HIDE DEF clash, new, a, b
    <2>3. CASE clash
      <3>1. a = Db(t, FALSE, c.next) /\ b = Db(t, FALSE, d.next)
        BY <1>0, <2>1, <2>2, <2>3
      <3> DEFINE no == FALSE
      <3>2. a = Db(t, no, c.next) /\ b = Db(t, no, d.next)
        BY <3>1
      <3> HIDE DEF no
      <3>3. a.entries = b.entries /\ a.ok = b.ok
        BY <3>2 DEF Db
      <3> QED
        BY <3>3 DEF a, b, Alike
    <2>4. CASE ~clash
      <3>1. a = Db(new, c.ok, c.next) /\ b = Db(new, d.ok, d.next)
        BY <1>0, <2>1, <2>2, <2>4
      <3>2. a.entries = b.entries /\ a.ok = c.ok /\ b.ok = d.ok
        BY <3>1 DEF Db
      <3> QED
        BY <1>0, <3>2 DEF a, b, Alike
    <2> QED
      BY <2>3, <2>4
  <1> QED
    BY <1>1, <1>2, <1>3, <1>4

\* What the last change of a batch finds and asks for, alone or behind the others.
LastIsPlannedAlike(b, names, t) ==
    LET first == ApplyStateChanges(Front(b), names, t)
        c == Last(b)
        known == Vivified(b, names)
        actor == ResolveActor(c.target, known)
        more == PlanChange(c, actor, EntryAt(t, actor, c.key))
    IN /\ Vivified(<<c>>, first.actors) = known
       /\ PlanStateChanges(b, names, t).mutations
            = PlanStateChanges(Front(b), names, t).mutations \o more
       /\ PlanStateChanges(<<c>>, first.actors, first.table.entries).mutations = more

LEMMA LastChange ==
    ASSUME NEW t, NEW names, IsSeq(names), "pc" \in Range(names), IsTable(t, Len(names)),
           NEW b, IsBatch(b), b # <<>>, OnceEach(b)
    PROVE  LastIsPlannedAlike(b, names, t)
  <1> DEFINE front == Front(b)
             c == Last(b)
             one == <<c>>
             less == Vivified(front, names)
             known == Vivified(b, names)
             actor == ResolveActor(c.target, known)
             e == EntryAt(t, actor, c.key)
             more == PlanChange(c, actor, e)
             p == PlanStateChanges(front, names, t)
             first == ApplyStateChanges(front, names, t)
             u == first.table.entries
             slots == {<<ResolveActor(d.target, known), d.key>> : d \in Range(front)}
  <1>1. /\ IsSeq(b) /\ IsSeq(front) /\ Range(front) \subseteq Range(b) /\ c \in Range(b)
        /\ Len(b) \in Nat \ {0} /\ Len(front) = Len(b) - 1 /\ c = b[Len(b)]
        /\ \A i \in 1..Len(b) - 1 : front[i] = b[i]
    BY BatchParts DEF IsBatch, Last
  <1>2. IsBatch(front)
    <2> HIDE DEF front
    <2> QED
      BY <1>1 DEF IsBatch
  <1>3. known = Vivified(one, less) /\ Extends(known, less) /\ IsSeq(less)
    BY <1>1, VivifiedMore DEF Extends
  <1>4. /\ first.actors = less /\ first.table = Written(t, p.mutations)
        /\ IsPlan(p, t, Len(less)) /\ IsTable(t, Len(less))
    <2> HIDE DEF front
    <2> QED
      BY <1>2, AppliedIs
  <1>5. /\ IsSeq(known) /\ "pc" \in Range(known)
        /\ \A d \in Range(b) : d.target \in {"world"} \cup Range(known)
    BY <1>1, TargetsKnown
  <1>6. \A d \in Range(front) :
           /\ d.target \in {"world"} \cup Range(less)
           /\ ResolveActor(d.target, known) = ResolveActor(d.target, less)
    <2>1. \A d \in Range(front) : d.target \in {"world"} \cup Range(less)
      <3> HIDE DEF front
      <3> QED
        BY <1>1, TargetsKnown
    <2> HIDE DEF front, less, known
    <2> QED
      BY <1>3, <2>1, ResolveStays
  <1>7. <<actor, c.key>> \notin slots
    <2> SUFFICES ASSUME NEW d \in Range(front), ResolveActor(d.target, known) = actor, d.key = c.key
                 PROVE  FALSE
      OBVIOUS
    <2>1. PICK i \in 1..Len(b) - 1 : d = b[i]
      <3>1. DOMAIN front = 1..Len(b) - 1
        <4> HIDE DEF front
        <4> QED
          BY <1>1, SeqIs
      <3> HIDE DEF front
      <3> QED
        BY <1>1, <3>1 DEF Range
    <2>2. d.target = c.target
      <3>1. d.target \in {"world"} \cup Range(known) /\ c.target \in {"world"} \cup Range(known)
        BY <1>1, <1>5
      <3> HIDE DEF front, c, known
      <3> QED
        BY <1>5, <3>1, ResolveDiffers DEF actor
    <2>3. ChangeSlot(b[i]) = ChangeSlot(b[Len(b)])
      <3>1. ChangeSlot(d) = ChangeSlot(c)
        BY <2>2 DEF ChangeSlot
      <3> QED
        BY <1>1, <2>1, <3>1
    <2>4. i \in DOMAIN b /\ Len(b) \in DOMAIN b /\ i # Len(b)
      BY <1>1, SeqIs
    <2> QED
      BY <2>3, <2>4 DEF OnceEach
  <1>8. p.freed \subseteq slots /\ AreForSlots(p.mutations, t, slots) /\ AreMutations(p.mutations, t, Len(less))
    <2>1. \A d \in Range(front) : <<ResolveActor(d.target, less), d.key>> \in slots
      BY <1>6
    <2> HIDE DEF front, slots
    <2>2. p.freed \subseteq slots /\ AreForSlots(p.mutations, t, slots)
      BY <1>2, <1>4, <2>1, PlanStays
    <2> QED
      BY <1>4, <2>2 DEF IsPlan
  <1>9. Outside(u, slots) = Outside(t, slots)
    <2> HIDE DEF p, slots, less
    <2> QED
      BY <1>4, <1>8, WrittenStays
  <1>10. EntryAt(u, actor, c.key) = e
    <2> HIDE DEF u, slots, actor, c
    <2> QED
      BY <1>7, <1>9, EntryAtStays
  <1>11. ~(c.target # "world" /\ actor = World)
    <2>1. c.target \in {"world"} \cup Range(known)
      BY <1>1, <1>5
    <2> HIDE DEF known, c
    <2> QED
      BY <1>5, <2>1, ResolveIs DEF actor
  <1>12. PlanStateChanges(b, names, t).mutations = p.mutations \o more
    <2>1. PlanStateChanges(b, names, t) = PlanMore(p, c, actor, t)
      BY <1>1, PlanBehind DEF Planned
    <2>2. Found(t, p.freed, actor, c.key) = e
      <3> HIDE DEF p, slots, actor, c
      <3> QED
        BY <1>7, <1>8 DEF Found
    <2> HIDE DEF p, actor, c, e
    <2>3. PlanMore(p, c, actor, t) = PlanStep(p, c, actor, e)
      BY <1>11, <2>2, PlanMoreCases
    <2> QED
      BY <2>1, <2>3 DEF PlanStep
  <1>13. PlanStateChanges(one, less, u).mutations = more
    <2>1. IsSeq(one) /\ Len(one) = 1 /\ one[1] = c
      BY Tuples
    <2> HIDE DEF one, u, less, known, c
    <2> DEFINE k == Len(one)
               same == Vivified(one, less)
    <2>0. IsSeq(one)
      BY <2>1
    <2>2. PICK f : /\ f = [i \in 0..k |-> IF i = 0 THEN NoPlan ELSE Planned(f[i - 1], one[i], same, u)]
                   /\ PlanStateChanges(one, less, u) = f[k]
      BY <2>0, PlanIs
    <2>3. f[0] = NoPlan /\ f[1] = Planned(f[0], one[1], known, u)
      BY <1>3, <2>1, <2>2
    <2>4. PlanStateChanges(one, less, u) = PlanMore(NoPlan, c, actor, u)
      BY <2>1, <2>2, <2>3 DEF Planned
    <2>5. Found(u, NoPlan.freed, actor, c.key) = e
      BY <1>10 DEF Found, NoPlan
    <2> HIDE DEF actor, e
    <2>6. PlanMore(NoPlan, c, actor, u) = PlanStep(NoPlan, c, actor, e)
      BY <1>11, <2>5, PlanMoreCases
    <2>7. PlanStep(NoPlan, c, actor, e).mutations = <<>> \o PlanChange(c, actor, e)
      BY DEF PlanStep, NoPlan
    <2>8. IsSeq(PlanChange(c, actor, e))
      <3>1. /\ e = NoPrev \/ (e \in t /\ e.actor = actor /\ e.key = c.key)
        <4> DEFINE here == {d \in t : d.actor = actor /\ d.key = c.key}
        <4>1. (here = {} => e = NoPrev) /\ (here # {} => e \in here)
          BY <1>4, EntryAtIs DEF e
        <4> QED
          BY <4>1
      <3>2. <<actor, c.key>> \in {<<actor, c.key>>}
        OBVIOUS
      <3> QED
        BY <3>1, <3>2, PlanChangeStays
    <2>9. <<>> \o PlanChange(c, actor, e) = PlanChange(c, actor, e)
      BY <2>8, Behind
    <2> QED
      BY <2>4, <2>6, <2>7, <2>9
  <1>14. /\ Vivified(one, first.actors) = known /\ PlanStateChanges(b, names, t).mutations = p.mutations \o more
         /\ PlanStateChanges(one, first.actors, u).mutations = more
    <2> HIDE DEF p, more, known, less, u, one, first
    <2> QED
      BY <1>3, <1>4, <1>12, <1>13
  <1> QED
    BY <1>14 DEF LastIsPlannedAlike

LEMMA MutationOps ==
    ASSUME NEW t, NEW n, NEW m, IsMutation(m, t, n)
    PROVE  /\ m.op \in {"insert", "delete", "value", "kind", "measure"}
           /\ m.op = "insert" => m.actor \in 0..n /\ m.kind \in Kinds /\ Fits(m.kind, m.cols)
  BY DEF IsMutation

\* The same statements on top of the same rows show the same table.
LEMMA SameStatements ==
    ASSUME NEW t, NEW n, IsTable(t, n), NEW s, IsSeq(s), NEW more, AreMutations(s \o more, t, n),
           NEW u, u = Written(t, s).entries, Written(t, s).ok, AreMutations(more, u, n),
           NEW change, NEW actor, NEW e, more = PlanChange(change, actor, e)
    PROVE  Visible(Written(t, s \o more).entries) = Visible(Written(u, more).entries)
  <1> DEFINE db == Written(t, s)
             new == Table(u)
  <1>0. AreMutations(s, t, n) /\ \A m \in Range(more) : IsMutation(m, t, n) /\ IsMutation(m, u, n)
    <2>1. IsSeq(more)
      BY DEF AreMutations
    <2>2. Range(s \o more) = Range(s) \cup Range(more)
      BY <2>1, Joined
    <2> QED
      BY <2>2 DEF AreMutations
  <1>1. Follows(db, t, n)
    BY <1>0, WrittenFollows
  <1>2. IsDb(db, n) /\ IsTable(u, n)
    BY <1>1 DEF Follows, IsDb
  <1>3. IsDb(new, n) /\ new.entries = u /\ new.ok
    BY <1>2, TableIs
  <1>4. Alike(db, new)
    BY <1>3 DEF Alike
  <1>5. CASE more = <<>>
    <2>1. s \o more = s /\ Written(u, more) = new
      BY <1>5, Behind, WrittenNone
    <2> QED
      BY <1>3, <2>1
  <1>6. Written(u, <<>>) = new
    BY WrittenNone
  <1>7. ASSUME NEW m PROVE Written(u, <<m>>) = Persist(new, m)
    <2>1. IsSeq(<<>>) /\ Append(<<>>, m) = <<m>>
      BY Tuples
    <2> DEFINE none == <<>>
    <2>2. IsSeq(none) /\ Append(none, m) = <<m>> /\ Written(u, none) = new
      BY <1>6, <2>1
    <2> HIDE DEF none, new
    <2>3. Written(u, Append(none, m)) = Persist(Written(u, none), m)
      BY <2>2, WrittenBehind
    <2> QED
      BY <2>2, <2>3
  <1>8. ASSUME NEW m, more = <<m>>
        PROVE  Visible(Written(t, s \o more).entries) = Visible(Written(u, more).entries)
    <2>1. Written(t, s \o more) = Persist(db, m)
      <3>1. s \o more = Append(s, m)
        BY <1>8, Behind
      <3>2. Written(t, Append(s, m)) = Persist(db, m)
        BY WrittenBehind
      <3> QED
        BY <3>1, <3>2
    <2>2. IsMutation(m, t, n)
      <3>1. m \in Range(more)
        BY <1>8, Tuples
      <3> QED
        BY <1>0, <3>1
    <2> HIDE DEF db, new
    <2>3. Visible(Persist(db, m).entries) = Visible(Persist(new, m).entries)
      BY <1>2, <1>3, <1>4, <2>2, MutationOps, PersistAlike
    <2> QED
      BY <1>7, <1>8, <2>1, <2>3
  <1>9. ASSUME NEW m1, NEW m2, more = <<m1, m2>>, m1.op # "insert"
        PROVE  Visible(Written(t, s \o more).entries) = Visible(Written(u, more).entries)
    <2>1. /\ <<m1>> \o <<m2>> = <<m1, m2>> /\ IsSeq(<<m1>>) /\ IsSeq(<<m2>>)
          /\ Range(<<m1>>) = {m1} /\ Range(<<m2>>) = {m2}
      BY Behind, Tuples
    <2>2. Range(more) = {m1} \cup {m2} /\ Append(<<m1>>, m2) = <<m1, m2>>
      <3> DEFINE x == <<m1>>
                 y == <<m2>>
      <3>1. IsSeq(x) /\ IsSeq(y) /\ Range(x) = {m1} /\ Range(y) = {m2} /\ more = x \o y
        BY <1>9, <2>1
      <3>2. x \o <<m2>> = Append(x, m2)
        <4> HIDE DEF x
        <4> QED
          BY <3>1, Behind
      <3> HIDE DEF x, y
      <3>3. Range(more) = {m1} \cup {m2}
        BY <3>1, Joined
      <3> QED
        BY <2>1, <3>2, <3>3 DEF x
    <2>3. IsMutation(m1, t, n) /\ IsMutation(m2, t, n) /\ IsMutation(m1, u, n)
      BY <1>0, <2>2
    <2>4. Written(t, s \o more) = Persist(Persist(db, m1), m2)
      <3>1. s \o more = Append(Append(s, m1), m2) /\ IsSeq(Append(s, m1))
        BY <1>9, Behind, Appended
      <3>2. Written(t, Append(s, m1)) = Persist(db, m1)
        BY WrittenBehind
      <3> QED
        BY <3>1, <3>2, WrittenBehind
    <2>5. Written(u, more) = Persist(Persist(new, m1), m2)
      <3> DEFINE x == <<m1>>
      <3>1. IsSeq(x) /\ more = Append(x, m2) /\ Written(u, x) = Persist(new, m1)
        BY <1>7, <1>9, <2>1, <2>2
      <3> HIDE DEF x
      <3>2. Written(u, Append(x, m2)) = Persist(Written(u, x), m2)
        BY <3>1, WrittenBehind
      <3> QED
        BY <3>1, <3>2
    <2> DEFINE a == Persist(db, m1)
               b == Persist(new, m1)
    <2>6. IsDb(a, n)
      BY <1>1, <2>3, PersistFollows DEF Follows
    <2>7. IsDb(b, n)
      <3>1. Follows(new, u, n)
        BY <1>2, <1>3 DEF Follows, IsDb, IsTable, Keyed, SameFamily
      <3> HIDE DEF new
      <3> QED
        BY <2>3, <3>1, PersistFollows DEF Follows
    <2>8. Alike(a, b)
      <3> HIDE DEF db, new
      <3> QED
        BY <1>2, <1>3, <1>4, <1>9, <2>3, MutationOps, PersistAlike
    <2> HIDE DEF a, b
    <2>9. Visible(Persist(a, m2).entries) = Visible(Persist(b, m2).entries)
      BY <2>3, <2>6, <2>7, <2>8, MutationOps, PersistAlike
    <2> QED
      BY <2>4, <2>5, <2>9 DEF a, b
  <1> QED
    BY <1>5, <1>8, <1>9, PlanChangeShape

\* A batch whose changes have slots of their own does, planned at once against the table
\* before it, what its last change would do after the others were written, as long as
\* these do not fail; whatever actors it adds, kinds it replaces and rows it removes,
\* and whatever the history made of the table by then.
THEOREM BatchesAreSequential == Spec => []BatchIsSequential
  <1>1. HistoryInv /\ SlotsInv => BatchIsSequential
    <2> SUFFICES ASSUME HistoryInv, SlotsInv, NEW b \in Batches[scope], b # <<>>, OnceEach(b),
                        ApplyStateChanges(Front(b), actors, entries).table.ok
                 PROVE  LET first == ApplyStateChanges(Front(b), actors, entries)
                        IN Outcome(ApplyStateChanges(b, actors, entries))
                             = Outcome(ApplyStateChanges(<<Last(b)>>, first.actors, first.table.entries))
      BY DEF BatchIsSequential
    <2> DEFINE front == Front(b)
               c == Last(b)
               one == <<c>>
               first == ApplyStateChanges(front, actors, entries)
               u == first.table.entries
               less == first.actors
               known == Vivified(b, actors)
               n == Len(known)
               actor == ResolveActor(c.target, known)
               e == EntryAt(entries, actor, c.key)
               more == PlanChange(c, actor, e)
               s == PlanStateChanges(front, actors, entries).mutations
               all == ApplyStateChanges(b, actors, entries)
               last == ApplyStateChanges(one, less, u)
    <2>1. IsBatch(b) /\ IsSeq(actors) /\ IsTable(entries, Len(actors)) /\ "pc" \in Range(actors)
      BY BatchIs DEF HistoryInv, SlotsInv
    <2>2. IsBatch(front) /\ IsBatch(one)
      <3>1. IsSeq(front) /\ Range(front) \subseteq Range(b) /\ c \in Range(b)
        BY <2>1, BatchParts DEF IsBatch
      <3>2. IsSeq(one) /\ Range(one) = {c}
        BY Tuples
      <3> HIDE DEF front, one, c
      <3> QED
        BY <2>1, <3>1, <3>2 DEF IsBatch
    <2>3. /\ Vivified(one, less) = known
          /\ PlanStateChanges(b, actors, entries).mutations = s \o more
          /\ PlanStateChanges(one, less, u).mutations = more
      <3>1. LastIsPlannedAlike(b, actors, entries)
        BY <2>1, LastChange
      <3> QED
        BY <3>1 DEF LastIsPlannedAlike
    <2>4. /\ less = Vivified(front, actors) /\ Extends(less, actors)
          /\ first.table = Written(entries, s) /\ Follows(first.table, entries, Len(less))
          /\ IsPlan(PlanStateChanges(front, actors, entries), entries, Len(less))
      <3> HIDE DEF front
      <3> QED
        BY <2>1, <2>2, AppliedIs
    <2>5. IsSeq(less) /\ IsTable(u, Len(less)) /\ IsSeq(s)
      <3> HIDE DEF front, first
      <3> QED
        BY <2>4 DEF Extends, Follows, IsDb, IsPlan, AreMutations
    <2>6. /\ all.actors = known /\ all.table = Written(entries, s \o more)
          /\ AreMutations(s \o more, entries, n) /\ IsTable(entries, n)
      <3>1. /\ all.actors = known /\ IsTable(entries, n)
            /\ IsPlan(PlanStateChanges(b, actors, entries), entries, n)
            /\ all.table = Written(entries, PlanStateChanges(b, actors, entries).mutations)
        BY <2>1, AppliedIs
      <3> HIDE DEF s, more, all, known
      <3> QED
        BY <2>3, <3>1 DEF IsPlan
    <2>7. last.actors = known /\ last.table = Written(u, more) /\ AreMutations(more, u, n)
      <3> HIDE DEF one, less, u, more, known
      <3> QED
        BY <2>2, <2>3, <2>5, AppliedIs DEF IsPlan
    <2> HIDE DEF front, one, u, s, known, actor, e, all, last, c
    <2>8. u = Written(entries, s).entries /\ Written(entries, s).ok
      BY <2>4 DEF u, front
    <2> HIDE DEF more, first
    <2>9. Visible(Written(entries, s \o more).entries) = Visible(Written(u, more).entries)
      BY <2>5, <2>6, <2>7, <2>8, SameStatements DEF more
    <2>10. Outcome(all) = Outcome(last)
      BY <2>6, <2>7, <2>9 DEF Outcome
    <2> QED
      BY <2>10 DEF all, last, first, u, one, front, c, less
  <1> QED
    BY <1>1, HistoryInit, HistoryStep, SlotsInit, SlotsStep, PTL DEF Spec
-----------------------------------------------------------------------------
(* What the audit of a turn remembers of a slot. The kinds are enough to follow what a  *)
(* turn does in it and what a revert undoes: only the oldest of its changes says what   *)
(* the turn found.                                                                      *)

Here(shown, slot) == {v \in shown : <<v.actor, v.key>> = slot}
Shown(slot, kind, cols) == [actor |-> slot[1], kind |-> kind, key |-> slot[2], cols |-> cols]
KindsOf(rows) == {v.kind : v \in rows}
Single(rows) == \A v, w \in rows : v = w

\* Undoable, of a scope that is a parameter.
CanUndo(s, c) ==
    \/ c.prev = NoPrev
    \/ c.op # "remove" /\ c.kind = c.prev.kind /\ (c.kind = "measurement" => c.prev.cols.num # NoNum)
    \/ s = "game" /\ c.prev.kind = "measurement" /\ c.prev.cols.num # NoNum

\* The rows of its kind that a change makes go when it is undone.
Deletes(c) == c.prev = NoPrev \/ c.prev.kind # c.kind
Gone(A, I) == {A[i].kind : i \in {j \in I : Deletes(A[j])}}
FoundBefore(c, slot) == IF c.prev = NoPrev THEN {} ELSE {Shown(slot, c.prev.kind, c.prev.cols)}

\* A slot whose rows no change that can be undone removes: it had one, and no measurement.
Lasting(s, was) == s # "game" \/ \E v \in was : v.kind # "measurement"

\* The changes I of an audit are those of a slot that showed was and shows now: the first
\* of them found what was there, and a kind is there because it was or because one of them
\* made it. What a change found in a slot that lasts is still of that kind.
Remembers(s, A, I, was, now, slot) ==
    /\ I = {} => now = was
    /\ \A i \in I : (\A j \in I : i <= j) => was = FoundBefore(A[i], slot)
    /\ KindsOf(now) \subseteq KindsOf(was) \cup Gone(A, I)
    /\ \A i \in I : A[i].prev # NoPrev =>
          /\ A[i].prev.kind \in KindsOf(was) \cup Gone(A, {j \in I : j < i})
          /\ Lasting(s, was) => /\ A[i].prev.kind \in KindsOf(now)
                                /\ \A j \in I : i < j => A[j].prev # NoPrev

LEMMA UndoableIs == \A c : Undoable(c) <=> CanUndo(scope, c)
  BY DEF Undoable, CanUndo, MeasurementComesBack

LEMMA CanUndoCases ==
    ASSUME NEW s, NEW c, CanUndo(s, c), c.prev # NoPrev
    PROVE  /\ c.kind = c.prev.kind \/ (s = "game" /\ c.prev.kind = "measurement")
           /\ c.prev.kind = "measurement" => c.prev.cols.num # NoNum
           /\ c.op = "remove" => s = "game" /\ c.prev.kind = "measurement"
  BY DEF CanUndo

\* The same of a slot with at most one row, when the changes can be undone.
Tracks(s, A, I, was, now, slot) ==
    /\ I \subseteq Nat /\ \A i \in I : CanUndo(s, A[i])
    /\ Single(was)
    /\ Remembers(s, A, I, was, now, slot)

\* No measurement comes to a slot that lasts.
LEMMA NoMeasurement ==
    ASSUME NEW s, NEW A, NEW I, NEW was, NEW now, NEW slot,
           Tracks(s, A, I, was, now, slot), s = "game", Lasting(s, was)
    PROVE  "measurement" \notin KindsOf(was) \cup Gone(A, I)
  <1>0. /\ I \subseteq Nat /\ \A i \in I : CanUndo(s, A[i])
        /\ Single(was) /\ Remembers(s, A, I, was, now, slot)
    BY DEF Tracks
  <1>1. PICK v \in was : v.kind # "measurement"
    BY DEF Lasting
  <1>2. "measurement" \notin KindsOf(was)
    BY <1>0, <1>1 DEF KindsOf, Single
  <1>3. ASSUME "measurement" \in Gone(A, I) PROVE FALSE
    <2>1. PICK j \in I : Deletes(A[j]) /\ A[j].kind = "measurement"
      BY <1>3 DEF Gone
    <2>2. A[j].prev = NoPrev
      BY <1>0, <2>1, CanUndoCases DEF Deletes
    <2>3. PICK i \in I : \A k \in I : i <= k
      BY <1>0, <2>1, LeastIs
    <2>4. was = FoundBefore(A[i], slot)
      BY <1>0, <2>3 DEF Remembers
    <2>5. A[i].prev # NoPrev
      BY <1>1, <2>4 DEF FoundBefore
    <2>6. i < j
      <3>1. i \in Nat /\ j \in Nat /\ i <= j /\ i # j
        BY <1>0, <2>1, <2>2, <2>3, <2>5
      <3> QED
        BY <3>1
    <2> QED
      BY <1>0, <2>1, <2>2, <2>5, <2>6 DEF Remembers
  <1> QED
    BY <1>2, <1>3

LEMMA GoneGrows ==
    ASSUME NEW A, NEW I, NEW J, I \subseteq J
    PROVE  Gone(A, I) \subseteq Gone(A, J)
  BY DEF Gone

\* So what changes found in it they changed in place.
LEMMA LastingInPlace ==
    ASSUME NEW s, NEW A, NEW I, NEW was, NEW now, NEW slot,
           Tracks(s, A, I, was, now, slot), Lasting(s, was)
    PROVE  \A i \in I : A[i].prev # NoPrev => A[i].prev.kind = A[i].kind
  <1> SUFFICES ASSUME NEW i \in I, A[i].prev # NoPrev, A[i].prev.kind # A[i].kind PROVE FALSE
    OBVIOUS
  <1>1. s = "game" /\ A[i].prev.kind = "measurement"
    BY CanUndoCases DEF Tracks
  <1>2. "measurement" \in KindsOf(was) \cup Gone(A, {j \in I : j < i})
    BY <1>1 DEF Tracks, Remembers
  <1>3. Gone(A, {j \in I : j < i}) \subseteq Gone(A, I)
    BY GoneGrows
  <1> QED
    BY <1>1, <1>2, <1>3, NoMeasurement

\* One more change, that found nothing.
LEMMA NewRemembered ==
    ASSUME NEW s, NEW A, NEW I, I \subseteq Nat, NEW n \in Nat, \A i \in I : i < n,
           NEW was, NEW now, NEW then, NEW slot, Remembers(s, A, I, was, now, slot),
           A[n].prev = NoPrev,
           KindsOf(now) \subseteq KindsOf(then), KindsOf(then) \subseteq KindsOf(now) \cup {A[n].kind},
           I = {} => was = {}, Lasting(s, was) => \A i \in I : A[i].prev = NoPrev
    PROVE  Remembers(s, A, I \cup {n}, was, then, slot)
  <1> DEFINE J == I \cup {n}
  <1>1. Gone(A, J) = Gone(A, I) \cup {A[n].kind}
    BY DEF Gone, Deletes
  <1>2. \A i \in J : (\A j \in J : i <= j) => was = FoundBefore(A[i], slot)
    <2> SUFFICES ASSUME NEW i \in J, \A j \in J : i <= j PROVE was = FoundBefore(A[i], slot)
      OBVIOUS
    <2>1. CASE i \in I
      BY <2>1 DEF Remembers
    <2>2. CASE i \notin I
      <3>1. i = n
        BY <2>2
      <3>2. I = {}
        <4> SUFFICES ASSUME NEW j \in I PROVE FALSE
          OBVIOUS
        <4>1. j < n /\ n <= j /\ j \in Nat
          BY <3>1
        <4> QED
          BY <4>1
      <3> QED
        BY <3>1, <3>2 DEF FoundBefore
    <2> QED
      BY <2>1, <2>2
  <1>3. KindsOf(then) \subseteq KindsOf(was) \cup Gone(A, J)
    BY <1>1 DEF Remembers
  <1>4. ASSUME NEW i \in J, A[i].prev # NoPrev
        PROVE  /\ A[i].prev.kind \in KindsOf(was) \cup Gone(A, {j \in J : j < i})
               /\ Lasting(s, was) => /\ A[i].prev.kind \in KindsOf(then)
                                     /\ \A j \in J : i < j => A[j].prev # NoPrev
    <2>1. i \in I /\ i \in Nat /\ i < n
      BY <1>4
    <2>2. {j \in J : j < i} = {j \in I : j < i}
      BY <2>1
    <2>3. A[i].prev.kind \in KindsOf(was) \cup Gone(A, {j \in I : j < i})
      BY <1>4, <2>1 DEF Remembers
    <2> QED
      BY <1>4, <2>1, <2>2, <2>3
  <1>5. J # {}
    OBVIOUS
  <1> QED
    BY <1>2, <1>3, <1>4, <1>5 DEF Remembers

\* One more change, of what it found.
LEMMA FoundRemembered ==
    ASSUME NEW s, NEW A, NEW I, I \subseteq Nat, NEW n \in Nat, \A i \in I : i < n,
           NEW was, NEW now, NEW then, NEW slot, Remembers(s, A, I, was, now, slot),
           A[n].prev # NoPrev,
           KindsOf(then) \subseteq KindsOf(now) \cup (IF Deletes(A[n]) THEN {A[n].kind} ELSE {}),
           I = {} => was = FoundBefore(A[n], slot),
           A[n].prev.kind \in KindsOf(was) \cup Gone(A, I),
           Lasting(s, was) => KindsOf(now) \cup {A[n].prev.kind} \subseteq KindsOf(then)
    PROVE  Remembers(s, A, I \cup {n}, was, then, slot)
  <1> DEFINE J == I \cup {n}
  <1>1. Gone(A, J) = Gone(A, I) \cup (IF Deletes(A[n]) THEN {A[n].kind} ELSE {})
    BY DEF Gone
  <1>2. \A i \in J : (\A j \in J : i <= j) => was = FoundBefore(A[i], slot)
    <2> SUFFICES ASSUME NEW i \in J, \A j \in J : i <= j PROVE was = FoundBefore(A[i], slot)
      OBVIOUS
    <2>1. CASE i \in I
      BY <2>1 DEF Remembers
    <2>2. CASE i \notin I
      <3>1. i = n
        BY <2>2
      <3>2. I = {}
        <4> SUFFICES ASSUME NEW j \in I PROVE FALSE
          OBVIOUS
        <4>1. j < n /\ n <= j /\ j \in Nat
          BY <3>1
        <4> QED
          BY <4>1
      <3> QED
        BY <3>1, <3>2
    <2> QED
      BY <2>1, <2>2
  <1>3. KindsOf(then) \subseteq KindsOf(was) \cup Gone(A, J)
    BY <1>1 DEF Remembers
  <1>4. ASSUME NEW i \in J, A[i].prev # NoPrev
        PROVE  /\ A[i].prev.kind \in KindsOf(was) \cup Gone(A, {j \in J : j < i})
               /\ Lasting(s, was) => /\ A[i].prev.kind \in KindsOf(then)
                                     /\ \A j \in J : i < j => A[j].prev # NoPrev
    <2>1. CASE i = n
      <3>1. {j \in J : j < n} = I
        <4>1. ~(n < n)
          OBVIOUS
        <4> QED
          BY <4>1
      <3>2. \A j \in J : ~(n < j)
        <4> SUFFICES ASSUME NEW j \in J PROVE ~(n < j)
          OBVIOUS
        <4>1. j \in Nat /\ (j < n \/ j = n)
          OBVIOUS
        <4> QED
          BY <4>1
      <3> QED
        BY <2>1, <3>1, <3>2
    <2>2. CASE i # n
      <3>1. i \in I /\ i \in Nat /\ i < n
        BY <2>2
      <3>2. {j \in J : j < i} = {j \in I : j < i}
        BY <3>1
      <3>3. /\ A[i].prev.kind \in KindsOf(was) \cup Gone(A, {j \in I : j < i})
            /\ Lasting(s, was) => /\ A[i].prev.kind \in KindsOf(now)
                                  /\ \A j \in I : i < j => A[j].prev # NoPrev
        BY <1>4, <3>1 DEF Remembers
      <3> QED
        BY <3>1, <3>2, <3>3
    <2> QED
      BY <2>1, <2>2
  <1>5. J # {}
    OBVIOUS
  <1> QED
    BY <1>2, <1>3, <1>4, <1>5 DEF Remembers

\* What undoing a change leaves of the rows of its slot.
UndoneRows(rows, c, slot) ==
    IF c.prev = NoPrev THEN {v \in rows : v.kind # c.kind}
    ELSE {v \in rows : v.kind \notin {c.kind, c.prev.kind}} \cup
         (IF c.prev.kind = "measurement" \/ c.prev.kind \in KindsOf(rows)
          THEN {Shown(slot, c.prev.kind, c.prev.cols)} ELSE {})

LEMMA UndoneKinds ==
    ASSUME NEW rows, NEW c, NEW slot
    PROVE  /\ c.prev = NoPrev => KindsOf(UndoneRows(rows, c, slot)) = KindsOf(rows) \ {c.kind}
           /\ c.prev # NoPrev => KindsOf(UndoneRows(rows, c, slot))
                 = (KindsOf(rows) \ {c.kind, c.prev.kind}) \cup
                   (IF c.prev.kind = "measurement" \/ c.prev.kind \in KindsOf(rows) THEN {c.prev.kind} ELSE {})
  <1>1. \A k, cols : Shown(slot, k, cols).kind = k
    BY DEF Shown
  <1>2. CASE c.prev = NoPrev
    BY <1>2 DEF UndoneRows, KindsOf
  <1>3. CASE c.prev # NoPrev
    <2> DEFINE back == c.prev.kind = "measurement" \/ c.prev.kind \in KindsOf(rows)
               rest == {v \in rows : v.kind \notin {c.kind, c.prev.kind}}
               row == Shown(slot, c.prev.kind, c.prev.cols)
    <2>1. KindsOf(rest) = KindsOf(rows) \ {c.kind, c.prev.kind}
      BY DEF KindsOf
    <2>2. row.kind = c.prev.kind
      BY <1>1
    <2>3. UndoneRows(rows, c, slot) = rest \cup (IF back THEN {row} ELSE {})
      BY <1>3 DEF UndoneRows
    <2> HIDE DEF rest, row, back
    <2>4. KindsOf(UndoneRows(rows, c, slot)) = KindsOf(rest) \cup (IF back THEN {c.prev.kind} ELSE {})
      BY <2>2, <2>3 DEF KindsOf
    <2> QED
      BY <1>3, <2>1, <2>4 DEF back
  <1> QED
    BY <1>2, <1>3

LEMMA UndoneRemembered ==
    ASSUME NEW s, NEW A, NEW I, NEW n \in I, \A i \in I : i <= n,
           NEW was, NEW now, NEW slot, Tracks(s, A, I, was, now, slot)
    PROVE  Tracks(s, A, I \ {n}, was, UndoneRows(now, A[n], slot), slot)
  <1>a. I \subseteq Nat /\ Remembers(s, A, I, was, now, slot)
    BY DEF Tracks
  <1> DEFINE J == I \ {n}
             c == A[n]
             then == UndoneRows(now, c, slot)
  <1>0. n \in Nat /\ \A i \in J : i \in Nat /\ i < n
    BY <1>a
  <1>1. Gone(A, I) = Gone(A, J) \cup (IF Deletes(c) THEN {c.kind} ELSE {})
    BY DEF Gone
  <1>2. {j \in I : j < n} = J
    <2>1. ~(n < n)
      BY <1>0
    <2> QED
      BY <1>0, <2>1
  <1>3. KindsOf(now) \subseteq KindsOf(was) \cup Gone(A, I)
    BY <1>a DEF Remembers
  <1>4. c.prev # NoPrev => c.prev.kind \in KindsOf(was) \cup Gone(A, J)
    BY <1>a, <1>2 DEF Remembers
  <1> HIDE DEF then
  <1>5. KindsOf(then) \subseteq KindsOf(was) \cup Gone(A, J)
    <2>1. CASE c.prev = NoPrev
      <3>1. KindsOf(then) = KindsOf(now) \ {c.kind}
        BY <2>1, UndoneKinds DEF then
      <3>2. Deletes(c)
        BY <2>1 DEF Deletes
      <3> HIDE DEF c, J
      <3> QED
        BY <1>1, <1>3, <3>1, <3>2
    <2>2. CASE c.prev # NoPrev
      <3>1. KindsOf(then) \subseteq (KindsOf(now) \ {c.kind, c.prev.kind}) \cup {c.prev.kind}
        BY <2>2, UndoneKinds DEF then
      <3> QED
        BY <1>1, <1>3, <1>4, <2>2, <3>1
    <2> QED
      BY <2>1, <2>2
  <1>6. \A i \in J : (\A j \in J : i <= j) => was = FoundBefore(A[i], slot)
    <2> SUFFICES ASSUME NEW i \in J, \A j \in J : i <= j PROVE was = FoundBefore(A[i], slot)
      OBVIOUS
    <2>1. \A j \in I : i <= j
      BY <1>0
    <2> QED
      BY <1>a, <2>1 DEF Remembers
  <1>7. ASSUME NEW i \in J, A[i].prev # NoPrev
        PROVE  /\ A[i].prev.kind \in KindsOf(was) \cup Gone(A, {j \in J : j < i})
               /\ Lasting(s, was) => /\ A[i].prev.kind \in KindsOf(then)
                                     /\ \A j \in J : i < j => A[j].prev # NoPrev
    <2>1. {j \in J : j < i} = {j \in I : j < i}
      BY <1>0
    <2>2. A[i].prev.kind \in KindsOf(was) \cup Gone(A, {j \in I : j < i})
      BY <1>a, <1>7 DEF Remembers
    <2>3. ASSUME Lasting(s, was)
          PROVE  A[i].prev.kind \in KindsOf(then) /\ \A j \in J : i < j => A[j].prev # NoPrev
      <3>1. A[i].prev.kind \in KindsOf(now) /\ \A j \in I : i < j => A[j].prev # NoPrev
        BY <1>a, <1>7, <2>3 DEF Remembers
      <3>2. c.prev # NoPrev
        BY <1>0, <3>1
      <3>3. c.prev.kind = c.kind /\ c.prev.kind \in KindsOf(now)
        <4>1. c.prev.kind = c.kind
          <5>1. \A k \in I : A[k].prev # NoPrev => A[k].prev.kind = A[k].kind
            BY <2>3, LastingInPlace
          <5> QED
            BY <3>2, <5>1
        <4>2. c.prev.kind \in KindsOf(now)
          BY <1>a, <2>3, <3>2 DEF Remembers
        <4> QED
          BY <4>1, <4>2
      <3>4. KindsOf(now) \subseteq KindsOf(then)
        BY <3>2, <3>3, UndoneKinds DEF then
      <3> QED
        BY <3>1, <3>4
    <2> QED
      BY <2>1, <2>2, <2>3
  <1>8. J = {} => then = was
    <2> SUFFICES ASSUME J = {} PROVE then = was
      OBVIOUS
    <2>1. was = FoundBefore(c, slot)
      <3>1. \A j \in I : n <= j
        BY <1>0
      <3> QED
        BY <1>a, <3>1 DEF Remembers
    <2>2. Gone(A, J) = {}
      BY DEF Gone
    <2>3. CASE c.prev = NoPrev
      <3>1. was = {} /\ KindsOf(was) = {}
        BY <2>1, <2>3 DEF FoundBefore, KindsOf
      <3>2. KindsOf(then) = {}
        BY <1>5, <2>2, <3>1
      <3>3. then = {}
        BY <3>2 DEF KindsOf
      <3> QED
        BY <3>1, <3>3
    <2>4. CASE c.prev # NoPrev
      <3> DEFINE row == Shown(slot, c.prev.kind, c.prev.cols)
      <3>1. was = {row} /\ row.kind = c.prev.kind
        BY <2>1, <2>4 DEF FoundBefore, Shown
      <3>2. KindsOf(was) = {c.prev.kind}
        BY <3>1 DEF KindsOf
      <3>3. KindsOf(now) \subseteq {c.kind, c.prev.kind}
        BY <1>1, <1>3, <2>2, <3>2
      <3>4. c.prev.kind = "measurement" \/ c.prev.kind \in KindsOf(now)
        <4>1. c.prev.kind # "measurement" => Lasting(s, was)
          BY <3>1 DEF Lasting
        <4> QED
          BY <1>a, <2>4, <4>1 DEF Remembers
      <3>5. {v \in now : v.kind \notin {c.kind, c.prev.kind}} = {}
        BY <3>3 DEF KindsOf
      <3>6. then = {row}
        BY <2>4, <3>4, <3>5 DEF then, UndoneRows
      <3> QED
        BY <3>1, <3>6
    <2> QED
      BY <2>3, <2>4
  <1> QED
    BY <1>a, <1>5, <1>6, <1>7, <1>8 DEF Tracks, Remembers, then
-----------------------------------------------------------------------------
(* Undoing one change                                                        *)

LEMMA RevertedBehind ==
    ASSUME NEW s, NEW t, NEW p, IsSeq(p), NEW m
    PROVE  Reverted(s, t, Append(p, m)) = PersistRevert(s, Reverted(s, t, p), m)
  <1> DEFINE more == Append(p, m)
             k == Len(p)
             j == Len(more)
  <1>1. /\ k \in Nat /\ IsSeq(more) /\ j = k + 1 /\ more[k + 1] = m
        /\ \A i \in 1..k : more[i] = p[i]
    BY SeqIs, Appended
  <1>2. PICK g : /\ g = [i \in 0..k |-> IF i = 0 THEN Table(t) ELSE PersistRevert(s, g[i - 1], p[i])]
                 /\ Reverted(s, t, p) = g[k]
    BY RevertedIs
  <1>3. PICK f : /\ f = [i \in 0..j |-> IF i = 0 THEN Table(t) ELSE PersistRevert(s, f[i - 1], more[i])]
                 /\ Reverted(s, t, more) = f[j]
    <2>1. IsSeq(more)
      BY <1>1
    <2> HIDE DEF more
    <2> QED
      BY <2>1, RevertedIs
  <1> HIDE DEF more, k, j
  <1> DEFINE S == {i \in 0..k : f[i] = g[i]}
  <1>4. 0 \in S
    BY <1>1, <1>2, <1>3
  <1>5. ASSUME NEW i \in 1..k, i - 1 \in S PROVE i \in S
    <2>1. f[i] = PersistRevert(s, f[i - 1], more[i]) /\ g[i] = PersistRevert(s, g[i - 1], p[i]) /\ more[i] = p[i]
      BY <1>1, <1>2, <1>3
    <2> QED
      BY <1>1, <1>5, <2>1
  <1>6. k \in S
    <2> HIDE DEF S
    <2>1. 0..k \subseteq S
      BY <1>1, <1>4, <1>5, UpTo
    <2> QED
      BY <1>1, <2>1
  <1>7. f[k + 1] = PersistRevert(s, f[k], m)
    <2>1. k + 1 \in 0..j /\ k + 1 # 0 /\ k + 1 - 1 = k
      BY <1>1
    <2> QED
      BY <1>1, <1>3, <2>1
  <1> QED
    BY <1>1, <1>2, <1>3, <1>6, <1>7 DEF more

LEMMA RevertedNone ==
    ASSUME NEW s, NEW t
    PROVE  Reverted(s, t, <<>>) = Table(t)
  <1> DEFINE p == <<>>
             k == Len(p)
  <1>1. IsSeq(p) /\ k = 0
    BY Tuples
  <1>2. PICK f : /\ f = [i \in 0..k |-> IF i = 0 THEN Table(t) ELSE PersistRevert(s, f[i - 1], p[i])]
                 /\ Reverted(s, t, p) = f[k]
    <2> HIDE DEF p
    <2> QED
      BY <1>1, RevertedIs
  <1> QED
    BY <1>1, <1>2

\* The rows of a slot, as a prompt shows them.
LEMMA AtIs ==
    ASSUME NEW t, NEW a, NEW k
    PROVE  LET slot == <<a, k>>
               here == {e \in t : e.actor = a /\ e.key = k}
           IN /\ At(t, slot) = {Shown(slot, e.kind, e.cols) : e \in here}
              /\ KindsOf(At(t, slot)) = {e.kind : e \in here}
  <1> DEFINE slot == <<a, k>>
             here == {e \in t : e.actor = a /\ e.key = k}
             Look(e) == [actor |-> e.actor, kind |-> e.kind, key |-> e.key, cols |-> e.cols]
  <1>1. \A kind, cols : Shown(slot, kind, cols) = [actor |-> a, kind |-> kind, key |-> k, cols |-> cols]
    BY DEF Shown
  <1>2. \A e \in here : Shown(slot, e.kind, e.cols) = Look(e)
    BY <1>1
  <1>3. At(t, slot) = {Look(e) : e \in here}
    <2>1. \A e : (<<Look(e).actor, Look(e).key>> = slot) <=> (e.actor = a /\ e.key = k)
      OBVIOUS
    <2>2. At(t, slot) = {v \in {Look(e) : e \in t} : <<v.actor, v.key>> = slot}
      BY DEF At, Visible
    <2> HIDE DEF Look, slot
    <2> QED
      BY <2>1, <2>2
  <1>4. At(t, slot) = {Shown(slot, e.kind, e.cols) : e \in here}
    <2> HIDE DEF Look, slot, here
    <2> QED
      BY <1>2, <1>3
  <1>5. \A e : Shown(slot, e.kind, e.cols).kind = e.kind
    BY DEF Shown
  <1>6. KindsOf(At(t, slot)) = {e.kind : e \in here}
    <2> HIDE DEF slot, here
    <2> QED
      BY <1>4, <1>5 DEF KindsOf
  <1> QED
    BY <1>4, <1>6

\* The rows of a slot that are of a kind, and those that are not.
OfKind(t, a, k, kind) == {e \in t : e.actor = a /\ e.key = k /\ e.kind = kind}
NotOfKind(t, a, k, kind) == {e \in t : e.actor = a /\ e.key = k /\ e.kind # kind}

\* A slot of two tables whose rows differ in one kind at most.
LEMMA AtBut ==
    ASSUME NEW t, NEW u, NEW a, NEW k, NEW kind, NotOfKind(u, a, k, kind) = NotOfKind(t, a, k, kind)
    PROVE  At(u, <<a, k>>) = {v \in At(t, <<a, k>>) : v.kind # kind}
              \cup {Shown(<<a, k>>, kind, e.cols) : e \in OfKind(u, a, k, kind)}
  <1> DEFINE slot == <<a, k>>
             Of(x) == {e \in x : e.actor = a /\ e.key = k}
             same == NotOfKind(u, a, k, kind)
             new == OfKind(u, a, k, kind)
  <1>1. /\ At(t, slot) = {Shown(slot, e.kind, e.cols) : e \in Of(t)}
        /\ At(u, slot) = {Shown(slot, e.kind, e.cols) : e \in Of(u)}
    BY AtIs
  <1>2. \A j, cols : Shown(slot, j, cols).kind = j
    BY DEF Shown
  <1>3. same = {e \in Of(t) : e.kind # kind} /\ Of(u) = same \cup new /\ \A e \in new : e.kind = kind
    BY DEF OfKind, NotOfKind
  <1> HIDE DEF slot, Of, same, new
  <1>4. {v \in At(t, slot) : v.kind # kind} = {Shown(slot, e.kind, e.cols) : e \in same}
    BY <1>1, <1>2, <1>3
  <1>5. At(u, slot) = {v \in At(t, slot) : v.kind # kind} \cup {Shown(slot, kind, e.cols) : e \in new}
    BY <1>1, <1>3, <1>4
  <1> QED
    BY <1>5 DEF slot, new

Without(rows, kind) == {v \in rows : v.kind # kind}

\* A statement left these rows in a slot, and the others alone.
Leaves(after, db, n, slot, rows) ==
    /\ IsDb(after, n) /\ after.ok
    /\ At(after.entries, slot) = rows
    /\ \A other : other # slot => At(after.entries, other) = At(db.entries, other)

\* What a statement of a revert does to its slot, and when it does not fail.
UndoesHere(s, db, m, after, n, slot, rows) ==
    /\ m.op = "delete" => Leaves(after, db, n, slot, Without(rows, m.kind))
    /\ m.op = "restore" /\ m.kind # "measurement" =>
          Leaves(after, db, n, slot, Without(rows, m.kind) \cup
              (IF m.kind \in KindsOf(rows) THEN {Shown(slot, m.kind, TextColumns(m.value))} ELSE {}))
    /\ m.op = "measure" /\ (m.kind \in KindsOf(rows) \/ s = "game") =>
          Leaves(after, db, n, slot, Without(rows, m.kind) \cup {Shown(slot, m.kind, m.cols)})

LEMMA UndoHere ==
    ASSUME NEW s, NEW n, NEW db, IsDb(db, n), db.ok, NEW m, IsUndo(m, n), NEW slot, slot = <<m.actor, m.key>>
    PROVE  UndoesHere(s, db, m, PersistRevert(s, db, m), n, slot, At(db.entries, slot))
  <1> DEFINE after == PersistRevert(s, db, m)
             a == m.actor
             k == m.key
             t == db.entries
             u == after.entries
             rows == At(t, slot)
             others == Without(rows, m.kind)
             hit == {e \in t : SameRow(e, m)}
             rest == t \ hit
             missing == m.op = "measure" /\ hit = {}
             Others(x) == NotOfKind(x, a, k, m.kind)
             New(x) == OfKind(x, a, k, m.kind)
  <1>0. slot = <<a, k>>
    OBVIOUS
  <1>1. IsDb(after, n)
    BY PersistRevertKeeps
  <1>2. \A other : other # slot => At(u, other) = At(t, other)
    <2>1. Outside(u, {slot}) = Outside(t, {slot})
      <3> DEFINE slots == {slot}
      <3>1. <<m.actor, m.key>> \in slots
        OBVIOUS
      <3> HIDE DEF slots
      <3> QED
        BY <3>1, PersistRevertStays
    <2> HIDE DEF u, t
    <2> QED
      BY <2>1, OutsideLooks
  <1>3. (m.kind \in KindsOf(rows)) <=> hit # {}
    <2>1. KindsOf(rows) = {e.kind : e \in {d \in t : d.actor = a /\ d.key = k}}
      BY <1>0, AtIs
    <2>2. hit = {e \in t : e.actor = a /\ e.kind = m.kind /\ e.key = k}
      BY DEF SameRow
    <2> HIDE DEF rows, hit, t, a, k
    <2> QED
      BY <2>1, <2>2
  <1>4. ASSUME Others(u) = Others(t)
        PROVE  At(u, slot) = others \cup {Shown(slot, m.kind, e.cols) : e \in New(u)}
    BY <1>0, <1>4, AtBut DEF Without
  <1>5. /\ \A e \in rest : ~(e.actor = a /\ e.key = k /\ e.kind = m.kind)
        /\ Others(rest) = Others(t) /\ New(rest) = {}
    BY DEF SameRow, OfKind, NotOfKind
  <1>6. /\ IsTable(t, n)
        /\ \A w : [db EXCEPT !.entries = w] = Db(w, db.ok, db.next)
    BY DbIs DEF IsDb
  <1>7. \A w : Db(w, db.ok, db.next).entries = w /\ (Db(w, db.ok, db.next).ok <=> db.ok)
    BY DEF Db
  <1>8. ASSUME m.op = "delete" PROVE after.ok /\ At(u, slot) = others
    <2>1. after = Db(rest, db.ok, db.next)
      <3>1. after = [db EXCEPT !.entries = rest]
        BY <1>8, PersistRevertIs
      <3> HIDE DEF rest, after
      <3> QED
        BY <1>6, <3>1
    <2>2. u = rest /\ after.ok
      <3> HIDE DEF after, rest
      <3> QED
        BY <1>7, <2>1
    <2>3. Others(u) = Others(t) /\ New(u) = {}
      BY <1>5, <2>2
    <2> HIDE DEF u, New, Others, others
    <2>4. At(u, slot) = others \cup {Shown(slot, m.kind, e.cols) : e \in New(u)}
      BY <1>4, <2>3
    <2> QED
      BY <2>2, <2>3, <2>4
  \* Rows that are found get the same columns.
  <1>9. ASSUME m.op # "delete", ~missing, NEW cols,
               \A e \in hit : Undone(e, m).cols = cols
        PROVE  /\ after.ok
               /\ At(u, slot) = others \cup (IF hit # {} THEN {Shown(slot, m.kind, cols)} ELSE {})
    <2> DEFINE made == {Undone(e, m) : e \in hit}
    <2>1. after = Db(rest \cup made, db.ok, db.next)
      <3>1. after = [db EXCEPT !.entries = rest \cup made]
        BY <1>9, PersistRevertIs
      <3> HIDE DEF rest, made, after
      <3> QED
        BY <1>6, <3>1
    <2>2. u = rest \cup made /\ after.ok
      <3> HIDE DEF after, rest, made
      <3> QED
        BY <1>7, <2>1
    <2>3. ASSUME NEW d \in made PROVE d.actor = a /\ d.key = k /\ d.kind = m.kind /\ d.cols = cols
      <3>1. PICK e \in hit : d = Undone(e, m)
        OBVIOUS
      <3> DEFINE c == IF m.op = "restore" THEN Columns(m.value, e.cols.num, e.cols.lo, e.cols.hi) ELSE m.cols
      <3>2. d = Entry(e.id, e.actor, e.kind, e.key, c)
        BY <1>6, <3>1, UndoneRowIs DEF IsTable
      <3> HIDE DEF c
      <3>3. d.actor = e.actor /\ d.kind = e.kind /\ d.key = e.key
        BY <3>2, EntryIs
      <3>4. e.actor = a /\ e.key = k /\ e.kind = m.kind
        BY DEF SameRow
      <3> QED
        BY <1>9, <3>1, <3>3, <3>4
    <2>4. Others(u) = Others(t) /\ New(u) = made
      <3> HIDE DEF made, rest, u, t, hit, a, k
      <3> QED
        BY <1>5, <2>2, <2>3 DEF OfKind, NotOfKind
    <2>5. At(u, slot) = others \cup {Shown(slot, m.kind, e.cols) : e \in made}
      <3> HIDE DEF u, New, Others, others, made
      <3> QED
        BY <1>4, <2>4
    <2>6. made = {} <=> hit = {}
      OBVIOUS
    <2> HIDE DEF made, u, others, hit
    <2>7. {Shown(slot, m.kind, e.cols) : e \in made} = IF hit # {} THEN {Shown(slot, m.kind, cols)} ELSE {}
      BY <2>3, <2>6
    <2> QED
      BY <2>2, <2>5, <2>7
  <1>10. ASSUME m.op = "restore", m.kind # "measurement"
         PROVE  /\ after.ok
                /\ At(u, slot) = others \cup
                      (IF m.kind \in KindsOf(rows) THEN {Shown(slot, m.kind, TextColumns(m.value))} ELSE {})
    <2>1. ASSUME NEW e \in hit PROVE Undone(e, m).cols = TextColumns(m.value)
      <3>1. e \in t /\ e.kind = m.kind
        BY DEF SameRow
      <3>2. IsRow(e, n)
        BY <1>6, <3>1 DEF IsTable
      <3>3. e.cols = TextColumns(e.cols.value)
        BY <1>10, <3>1, <3>2 DEF IsRow, Fits
      <3>4. e.cols.num = NoNum /\ e.cols.lo = NoNum /\ e.cols.hi = NoNum
        <4> DEFINE v == e.cols.value
        <4>1. e.cols = Columns(v, NoNum, NoNum, NoNum)
          BY <3>3 DEF TextColumns
        <4> HIDE DEF v
        <4> QED
          BY <4>1, ColumnsAre
      <3>5. Undone(e, m) = Entry(e.id, e.actor, e.kind, e.key, TextColumns(m.value))
        BY <1>10, <3>2, <3>4, UndoneRowIs DEF TextColumns
      <3> QED
        BY <3>5, EntryIs
    <2>2. m.op # "delete" /\ ~missing
      BY <1>10
    <2> HIDE DEF after, u, others, hit, missing
    <2> QED
      BY <1>3, <1>9, <2>1, <2>2
  <1>11. ASSUME m.op = "measure", m.kind \in KindsOf(rows) \/ s = "game"
         PROVE  after.ok /\ At(u, slot) = others \cup {Shown(slot, m.kind, m.cols)}
    <2>1. CASE hit # {}
      <3>1. ASSUME NEW e \in hit PROVE Undone(e, m).cols = m.cols
        <4>1. IsRow(e, n)
          BY <1>6 DEF IsTable
        <4>2. Undone(e, m) = Entry(e.id, e.actor, e.kind, e.key, m.cols)
          BY <1>11, <4>1, UndoneRowIs
        <4> QED
          BY <4>2, EntryIs
      <3>2. m.op # "delete" /\ ~missing
        BY <1>11, <2>1
      <3> HIDE DEF after, u, others, hit, missing
      <3> QED
        BY <1>9, <2>1, <3>1, <3>2
    <2>2. CASE hit = {}
      <3> DEFINE new == Entry(db.next, a, m.kind, k, m.cols)
      <3>1. m.actor \in 0..n /\ m.kind \in Kinds /\ Fits(m.kind, m.cols)
        BY <1>11, KindsAre DEF IsUndo, Fits
      <3>2. after = InsertEntry(db, m.actor, m.kind, m.key, m.cols)
        <4>1. s = "game"
          BY <1>3, <1>11, <2>2
        <4> QED
          BY <1>11, <2>2, <4>1, PersistRevertIs
      <3>3. ~Collides(t, m.actor, m.kind, m.key)
        BY <2>2 DEF Collides, SameRow
      <3>4. u = t \cup {new} /\ after.ok
        BY <3>1, <3>2, <3>3, InsertEntryIs
      <3>5. new.actor = a /\ new.key = k /\ new.kind = m.kind /\ new.cols = m.cols
        BY EntryIs
      <3>6. rest = t
        BY <2>2
      <3> HIDE DEF new
      <3>7. Others(u) = Others(t) /\ New(u) = {new}
        <4> HIDE DEF u, t, a, k, rest
        <4> QED
          BY <1>5, <3>4, <3>5, <3>6 DEF OfKind, NotOfKind
      <3>8. At(u, slot) = others \cup {Shown(slot, m.kind, e.cols) : e \in New(u)}
        <4> HIDE DEF u, New, Others, others
        <4> QED
          BY <1>4, <3>7
      <3> HIDE DEF New, others, after
      <3>9. {Shown(slot, m.kind, e.cols) : e \in {new}} = {Shown(slot, m.kind, m.cols)}
        BY <3>5
      <3> HIDE DEF u
      <3>10. {Shown(slot, m.kind, e.cols) : e \in New(u)} = {Shown(slot, m.kind, m.cols)}
        BY <3>7, <3>9
      <3> QED
        BY <3>4, <3>8, <3>10
    <2> QED
      BY <2>1, <2>2
  <1> QED
    BY <1>1, <1>2, <1>8, <1>10, <1>11 DEF UndoesHere, Leaves

SlotOf(c, names) == <<ResolveActor(c.target, names), c.key>>

\* The statements that undo a change whose audit is enough.
LEMMA UndoPlan ==
    ASSUME NEW s, NEW names, NEW c, IsAudited(c), CanUndo(s, c)
    PROVE  LET a == ResolveActor(c.target, names)
               plan == PlanRevertChange(c, names)
           IN /\ c.prev = NoPrev => plan = <<DeleteByKey(a, c)>>
              /\ c.prev # NoPrev /\ c.prev.kind = c.kind =>
                    plan = IF c.kind = "measurement" THEN <<RestoreMeasurement(a, c)>> ELSE <<Restore(a, c, c.kind)>>
              /\ c.prev # NoPrev /\ c.prev.kind # c.kind =>
                    /\ s = "game" /\ c.prev.kind = "measurement"
                    /\ plan = <<DeleteByKey(a, c), RestoreMeasurement(a, c)>>
  <1> DEFINE a == ResolveActor(c.target, names)
             plan == PlanRevertChange(c, names)
  <1>1. CASE c.prev = NoPrev
    BY <1>1 DEF PlanRevertChange, RevertSameKind
  <1>2. CASE c.prev # NoPrev /\ c.prev.kind = c.kind
    <2>1. plan = <<RevertSameKind(a, c)>>
      BY <1>2 DEF PlanRevertChange
    <2>2. c.kind = "measurement" => c.prev.cols.num # NoNum
      BY <1>2, CanUndoCases
    <2>3. c.kind = "sequence" => c.prev.cols.value # <<>>
      <3> SUFFICES ASSUME c.kind = "sequence", c.prev.cols.value = <<>> PROVE FALSE
        OBVIOUS
      <3> DEFINE v == c.prev.cols.value
      <3>1. v = <<v[1], v[2], v[3]>> /\ v = <<>>
        BY <1>2 DEF IsAudited, Fits, IsPayload
      <3> HIDE DEF v
      <3>2. Len(<<v[1], v[2], v[3]>>) = 3 /\ Len(<<>>) = 0
        BY Tuples
      <3> QED
        BY <3>1, <3>2
    <2>4. RevertSameKind(a, c) = IF c.kind = "measurement" THEN RestoreMeasurement(a, c) ELSE Restore(a, c, c.kind)
      BY <1>2, <2>2, <2>3 DEF RevertSameKind
    <2> QED
      BY <1>2, <2>1, <2>4
  <1>3. CASE c.prev # NoPrev /\ c.prev.kind # c.kind
    <2>1. s = "game" /\ c.prev.kind = "measurement" /\ c.prev.cols.num # NoNum
      BY <1>3, CanUndoCases
    <2>2. RevertReplacedKind(a, c) = <<RestoreMeasurement(a, c)>>
      BY <2>1 DEF RevertReplacedKind
    <2>3. plan = <<DeleteByKey(a, c)>> \o RevertReplacedKind(a, c)
      BY <1>3 DEF PlanRevertChange
    <2> QED
      BY <1>3, <2>1, <2>2, <2>3, Behind
  <1> QED
    BY <1>1, <1>2, <1>3

\* It leaves the rows of the slot undone, and the others alone.
LEMMA UndoChange ==
    ASSUME NEW s, NEW names, IsSeq(names), NEW t, NEW p, IsSeq(p),
           IsDb(Reverted(s, t, p), Len(names)), Reverted(s, t, p).ok,
           NEW c, IsAudited(c), CanUndo(s, c),
           s # "game" /\ c.prev # NoPrev => c.prev.kind \in KindsOf(At(Reverted(s, t, p).entries, SlotOf(c, names)))
    PROVE  LET db == Reverted(s, t, p)
               after == Reverted(s, t, p \o PlanRevertChange(c, names))
               slot == SlotOf(c, names)
           IN Leaves(after, db, Len(names), slot, UndoneRows(At(db.entries, slot), c, slot))
  <1> DEFINE n == Len(names)
             a == ResolveActor(c.target, names)
             slot == SlotOf(c, names)
             plan == PlanRevertChange(c, names)
             db == Reverted(s, t, p)
             after == Reverted(s, t, p \o plan)
             rows == At(db.entries, slot)
  <1>1. IsDb(db, n) /\ db.ok /\ slot = <<a, c.key>>
    BY DEF SlotOf
  <1>2. IsSeq(plan) /\ \A m \in Range(plan) : IsUndo(m, n)
    BY PlanRevertChangeIs DEF AreUndos
  <1>3. \A m : plan = <<m>> => IsUndo(m, n) /\ after = PersistRevert(s, db, m)
    <2> SUFFICES ASSUME NEW m, plan = <<m>> PROVE IsUndo(m, n) /\ after = PersistRevert(s, db, m)
      OBVIOUS
    <2>1. m \in Range(plan)
      BY Tuples
    <2>2. p \o plan = Append(p, m)
      BY Behind
    <2> HIDE DEF plan
    <2>3. after = Reverted(s, t, Append(p, m))
      BY <2>2
    <2>4. Reverted(s, t, Append(p, m)) = PersistRevert(s, Reverted(s, t, p), m)
      BY RevertedBehind
    <2> QED
      BY <1>2, <2>1, <2>3, <2>4
  <1> HIDE DEF after, db, plan, n, slot
  <1>4. CASE c.prev = NoPrev
    <2> DEFINE m == DeleteByKey(a, c)
    <2>1. m.op = "delete" /\ m.actor = a /\ m.key = c.key /\ m.kind = c.kind
      BY DEF DeleteByKey
    <2>2. IsUndo(m, n) /\ after = PersistRevert(s, db, m)
      BY <1>3, <1>4, UndoPlan DEF plan
    <2> HIDE DEF m, a
    <2>3. Leaves(after, db, n, slot, Without(rows, c.kind))
      <3>1. slot = <<m.actor, m.key>>
        BY <1>1, <2>1
      <3>2. UndoesHere(s, db, m, PersistRevert(s, db, m), n, slot, At(db.entries, slot))
        BY <1>1, <3>1, <2>2, UndoHere
      <3> QED
        BY <3>2, <2>1, <2>2 DEF UndoesHere
    <2>4. UndoneRows(rows, c, slot) = Without(rows, c.kind)
      BY <1>4 DEF UndoneRows, Without
    <2> QED
      BY <2>3, <2>4 DEF after, db, plan, n, slot
  <1>5. CASE c.prev # NoPrev /\ c.prev.kind = c.kind /\ c.kind = "measurement"
    <2> DEFINE m == RestoreMeasurement(a, c)
    <2>1. m.op = "measure" /\ m.actor = a /\ m.key = c.key /\ m.kind = "measurement" /\ m.cols = c.prev.cols
      BY DEF RestoreMeasurement
    <2>2. IsUndo(m, n) /\ after = PersistRevert(s, db, m)
      BY <1>3, <1>5, UndoPlan DEF plan
    <2>3. m.kind \in KindsOf(rows) \/ s = "game"
      BY <1>5, <2>1 DEF db, slot
    <2> HIDE DEF m, a
    <2>4. Leaves(after, db, n, slot, Without(rows, c.kind) \cup {Shown(slot, c.kind, c.prev.cols)})
      <3>1. slot = <<m.actor, m.key>>
        BY <1>1, <2>1
      <3>2. UndoesHere(s, db, m, PersistRevert(s, db, m), n, slot, At(db.entries, slot))
        BY <1>1, <3>1, <2>2, UndoHere
      <3> QED
        BY <3>2, <1>5, <2>1, <2>2, <2>3 DEF UndoesHere
    <2>5. UndoneRows(rows, c, slot) = Without(rows, c.kind) \cup {Shown(slot, c.kind, c.prev.cols)}
      BY <1>5 DEF UndoneRows, Without
    <2> QED
      BY <2>4, <2>5 DEF after, db, plan, n, slot
  <1>6. CASE c.prev # NoPrev /\ c.prev.kind = c.kind /\ c.kind # "measurement"
    <2> DEFINE m == Restore(a, c, c.kind)
    <2>1. /\ m.op = "restore" /\ m.actor = a /\ m.key = c.key /\ m.kind = c.kind
          /\ TextColumns(m.value) = c.prev.cols
      <3>1. m.op = "restore" /\ m.actor = a /\ m.key = c.key /\ m.kind = c.kind /\ m.value = c.prev.cols.value
        BY DEF Restore
      <3>2. c.prev.cols = TextColumns(c.prev.cols.value)
        BY <1>6 DEF IsAudited, Fits
      <3> QED
        BY <3>1, <3>2
    <2>2. IsUndo(m, n) /\ after = PersistRevert(s, db, m)
      BY <1>3, <1>6, UndoPlan DEF plan
    <2> HIDE DEF m, a
    <2>3. Leaves(after, db, n, slot, Without(rows, c.kind) \cup
                 (IF c.kind \in KindsOf(rows) THEN {Shown(slot, c.kind, c.prev.cols)} ELSE {}))
      <3>1. slot = <<m.actor, m.key>>
        BY <1>1, <2>1
      <3>2. UndoesHere(s, db, m, PersistRevert(s, db, m), n, slot, At(db.entries, slot))
        BY <1>1, <3>1, <2>2, UndoHere
      <3> QED
        BY <3>2, <1>6, <2>1, <2>2 DEF UndoesHere
    <2>4. UndoneRows(rows, c, slot) = Without(rows, c.kind) \cup
                 (IF c.kind \in KindsOf(rows) THEN {Shown(slot, c.kind, c.prev.cols)} ELSE {})
      BY <1>6 DEF UndoneRows, Without
    <2> QED
      BY <2>3, <2>4 DEF after, db, plan, n, slot
  <1>7. CASE c.prev # NoPrev /\ c.prev.kind # c.kind
    <2> DEFINE m1 == DeleteByKey(a, c)
               m2 == RestoreMeasurement(a, c)
               mid == PersistRevert(s, db, m1)
    <2>1. s = "game" /\ c.prev.kind = "measurement" /\ plan = <<m1, m2>>
      <3>1. s = "game" /\ c.prev.kind = "measurement"
        BY <1>7, UndoPlan
      <3>2. plan = <<m1, m2>>
        BY <1>7, UndoPlan DEF plan
      <3> QED
        BY <3>1, <3>2
    <2>2. /\ m1.op = "delete" /\ m1.actor = a /\ m1.key = c.key /\ m1.kind = c.kind
          /\ m2.op = "measure" /\ m2.actor = a /\ m2.key = c.key /\ m2.kind = "measurement" /\ m2.cols = c.prev.cols
      BY DEF DeleteByKey, RestoreMeasurement
    <2> HIDE DEF m1, m2, a
    <2>3. m1 \in Range(plan) /\ m2 \in Range(plan)
      <3>1. <<m1>> \o <<m2>> = <<m1, m2>>
        BY Behind
      <3>2. Range(<<m1>> \o <<m2>>) = {m1} \cup {m2}
        <4> DEFINE p1 == <<m1>>
                   p2 == <<m2>>
        <4>1. IsSeq(p1) /\ IsSeq(p2) /\ Range(p1) = {m1} /\ Range(p2) = {m2}
          BY Tuples
        <4> HIDE DEF p1, p2
        <4>2. Range(p1 \o p2) = {m1} \cup {m2}
          BY <4>1, Joined
        <4> QED
          BY <4>2 DEF p1, p2
      <3> QED
        BY <2>1, <3>1, <3>2
    <2>4. IsUndo(m1, n) /\ IsUndo(m2, n)
      BY <1>2, <2>3
    <2>5. after = PersistRevert(s, mid, m2)
      <3>1. p \o plan = Append(Append(p, m1), m2) /\ IsSeq(Append(p, m1))
        BY <2>1, Behind, Appended
      <3>2. after = PersistRevert(s, Reverted(s, t, Append(p, m1)), m2)
        BY <3>1, RevertedBehind DEF after
      <3>3. Reverted(s, t, Append(p, m1)) = mid
        BY RevertedBehind DEF db
      <3> QED
        BY <3>2, <3>3
    <2> DEFINE rest == At(mid.entries, slot)
    <2>6. Leaves(mid, db, n, slot, Without(rows, c.kind))
      <3>1. slot = <<m1.actor, m1.key>>
        BY <1>1, <2>2
      <3>2. UndoesHere(s, db, m1, PersistRevert(s, db, m1), n, slot, At(db.entries, slot))
        BY <1>1, <3>1, <2>4, UndoHere
      <3> QED
        BY <3>2, <2>2 DEF UndoesHere, mid
    <2> HIDE DEF mid
    <2>7. Leaves(after, mid, n, slot, Without(rest, "measurement") \cup {Shown(slot, "measurement", c.prev.cols)})
      <3>1. IsDb(mid, n) /\ mid.ok
        BY <2>6 DEF Leaves
      <3>2. slot = <<m2.actor, m2.key>>
        BY <1>1, <2>2
      <3>3. UndoesHere(s, mid, m2, PersistRevert(s, mid, m2), n, slot, rest)
        BY <2>4, <3>1, <3>2, UndoHere
      <3> HIDE DEF rest
      <3> QED
        BY <2>1, <2>2, <2>5, <3>3 DEF UndoesHere
    <2>8. Without(rest, "measurement") \cup {Shown(slot, "measurement", c.prev.cols)} = UndoneRows(rows, c, slot)
      <3>1. Without(rest, "measurement") = {v \in rows : v.kind \notin {c.kind, c.prev.kind}}
        BY <2>1, <2>6 DEF Leaves, Without
      <3>2. UndoneRows(rows, c, slot) = {v \in rows : v.kind \notin {c.kind, c.prev.kind}}
                                        \cup {Shown(slot, "measurement", c.prev.cols)}
        BY <1>7, <2>1 DEF UndoneRows
      <3> QED
        BY <3>1, <3>2
    <2>9. Leaves(after, db, n, slot, UndoneRows(rows, c, slot))
      BY <2>6, <2>7, <2>8 DEF Leaves
    <2> QED
      BY <2>9 DEF after, db, plan, n, slot
  <1> QED
    BY <1>4, <1>5, <1>6, <1>7

-----------------------------------------------------------------------------
(* Undoing a turn                                                            *)

\* The changes of an audit that are about a slot.
On(A, names, slot) == {i \in DOMAIN A : SlotOf(A[i], names) = slot}

\* The first k changes of an audit lead from the rows before to those of a write.
Led(s, A, k, names, before, db) ==
    /\ IsDb(db, Len(names)) /\ db.ok
    /\ \A slot : Tracks(s, A, {i \in On(A, names, slot) : i <= k}, Here(before, slot), At(db.entries, slot), slot)

LEMMA LedBack ==
    ASSUME NEW s, NEW names, IsSeq(names), NEW A, IsAudit(A), NEW k \in DOMAIN A, NEW before,
           NEW t, NEW p, IsSeq(p), Led(s, A, k, names, before, Reverted(s, t, p))
    PROVE  Led(s, A, k - 1, names, before, Reverted(s, t, p \o PlanRevertChange(A[k], names)))
  <1> DEFINE n == Len(names)
             c == A[k]
             mine == SlotOf(c, names)
             db == Reverted(s, t, p)
             after == Reverted(s, t, p \o PlanRevertChange(c, names))
             To(slot, i) == {j \in On(A, names, slot) : j <= i}
  <1>1. k \in Nat /\ DOMAIN A \subseteq Nat /\ IsAudited(c)
    BY SeqIs DEF IsAudit, Range
  <1>2. IsDb(db, n) /\ db.ok
    BY DEF Led
  <1>3. \A slot : Tracks(s, A, To(slot, k), Here(before, slot), At(db.entries, slot), slot)
    BY DEF Led
  <1>4. k \in To(mine, k) /\ \A i \in To(mine, k) : i <= k
    BY <1>1 DEF On
  <1>5. CanUndo(s, c)
    BY <1>3, <1>4 DEF Tracks
  <1>6. To(mine, k - 1) = To(mine, k) \ {k}
    BY <1>1 DEF On
  <1>7. ASSUME NEW slot, slot # mine PROVE To(slot, k - 1) = To(slot, k)
    <2>1. \A i \in On(A, names, slot) : i \in Nat /\ i # k
      BY <1>1, <1>7 DEF On
    <2> QED
      BY <1>1, <2>1
  <1> HIDE DEF To, db, after, n
  <1>8. s # "game" /\ c.prev # NoPrev => c.prev.kind \in KindsOf(At(db.entries, mine))
    <2> SUFFICES ASSUME s # "game", c.prev # NoPrev PROVE c.prev.kind \in KindsOf(At(db.entries, mine))
      OBVIOUS
    <2> DEFINE was == Here(before, mine)
    <2>1. Lasting(s, was)
      BY DEF Lasting
    <2>2. Remembers(s, A, To(mine, k), was, At(db.entries, mine), mine)
      BY <1>3 DEF Tracks
    <2> HIDE DEF was, mine
    <2> QED
      BY <1>4, <2>1, <2>2 DEF Remembers
  <1>9. Leaves(after, db, n, mine, UndoneRows(At(db.entries, mine), c, mine))
    <2> HIDE DEF c
    <2> QED
      BY <1>1, <1>2, <1>5, <1>8, UndoChange DEF db, after, n, mine
  <1>10. ASSUME NEW slot
         PROVE  Tracks(s, A, To(slot, k - 1), Here(before, slot), At(after.entries, slot), slot)
    <2>1. CASE slot = mine
      <3> DEFINE I == To(mine, k)
                 was == Here(before, mine)
                 now == At(db.entries, mine)
      <3>1. Tracks(s, A, I, was, now, mine) /\ k \in I /\ \A i \in I : i <= k
        BY <1>3, <1>4
      <3> HIDE DEF I, was, now, mine
      <3>2. Tracks(s, A, I \ {k}, was, UndoneRows(now, A[k], mine), mine)
        BY <3>1, UndoneRemembered
      <3> QED
        BY <1>6, <1>9, <2>1, <3>2 DEF I, was, now, Leaves
    <2>2. CASE slot # mine
      <3>1. At(after.entries, slot) = At(db.entries, slot)
        BY <1>9, <2>2 DEF Leaves
      <3> QED
        BY <1>3, <1>7, <2>2, <3>1
    <2> QED
      BY <2>1, <2>2
  <1> QED
    BY <1>9, <1>10 DEF Led, Leaves, To, after, n

\* An audit leads from the rows before to those of a table.
Tracked(s, A, names, before, t) ==
    \A slot : Tracks(s, A, On(A, names, slot), Here(before, slot), At(t, slot), slot)

LEMMA LooksTheSame ==
    ASSUME NEW shown, NEW t, \A slot : At(t, slot) = Here(shown, slot)
    PROVE  Visible(t) = shown
  <1>1. \A v : v \in shown <=> v \in Here(shown, <<v.actor, v.key>>)
    BY DEF Here
  <1>2. \A v : v \in Visible(t) <=> v \in At(t, <<v.actor, v.key>>)
    BY DEF At
  <1> QED
    BY <1>1, <1>2

\* Undoing an audit restores the rows it leads from.
LEMMA RevertRestores ==
    ASSUME NEW s, NEW names, IsSeq(names), NEW t, IsTable(t, Len(names)), NEW A, IsAudit(A), NEW before,
           Tracked(s, A, names, before, t)
    PROVE  LET reverted == RevertStateChanges(s, A, names, t)
           IN reverted.ok /\ Visible(reverted.entries) = before
  <1> DEFINE n == Len(names)
             k == Len(A)
             plan == PlanRevertChanges(A, names)
             reverted == RevertStateChanges(s, A, names, t)
  <1>1. k \in Nat /\ DOMAIN A = 1..k /\ IsSeq(A)
    BY SeqIs DEF IsAudit
  <1>2. PICK f : /\ f = [i \in 0..k |-> IF i = 0 THEN <<>> ELSE f[i - 1] \o PlanRevertChange(A[k + 1 - i], names)]
                 /\ plan = f[k]
    BY <1>1, RevertPlanIs
  <1>3. reverted = Reverted(s, t, plan)
    <2>1. {Reverted(s, t, p) : p \in {plan}} = {Reverted(s, t, plan)}
      OBVIOUS
    <2> QED
      BY <2>1, TheIs DEF RevertStateChanges
  <1> HIDE DEF n, k, plan, reverted
  <1> DEFINE S == {i \in 0..k : IsSeq(f[i]) /\ Led(s, A, k - i, names, before, Reverted(s, t, f[i]))}
  <1>4. 0 \in S
    <2>1. f[0] = <<>> /\ 0 \in 0..k /\ k - 0 = k
      BY <1>1, <1>2
    <2>2. Reverted(s, t, <<>>) = Table(t) /\ IsSeq(<<>>)
      BY RevertedNone, Tuples
    <2>3. IsDb(Table(t), Len(names)) /\ Table(t).ok /\ Table(t).entries = t
      BY TableIs
    <2>4. \A slot : {i \in On(A, names, slot) : i <= k} = On(A, names, slot)
      BY <1>1 DEF On
    <2>5. Led(s, A, k, names, before, Table(t))
      BY <2>3, <2>4 DEF Led, Tracked
    <2> QED
      BY <2>1, <2>2, <2>5
  <1>5. ASSUME NEW i \in 1..k, i - 1 \in S PROVE i \in S
    <2> DEFINE j == k + 1 - i
               p == f[i - 1]
    <2>1. j \in DOMAIN A /\ k - (i - 1) = j /\ k - i = j - 1 /\ i \in 0..k
      BY <1>1
    <2>2. f[i] = p \o PlanRevertChange(A[j], names)
      BY <1>1, <1>2
    <2>3. IsSeq(p) /\ Led(s, A, j, names, before, Reverted(s, t, p))
      BY <1>5, <2>1
    <2> HIDE DEF j, p
    <2>4. Led(s, A, j - 1, names, before, Reverted(s, t, p \o PlanRevertChange(A[j], names)))
      BY <2>1, <2>3, LedBack
    <2>5. IsSeq(p \o PlanRevertChange(A[j], names))
      BY <2>3, PlanRevertChangeStays, Joined
    <2>6. IsSeq(f[i]) /\ Led(s, A, k - i, names, before, Reverted(s, t, f[i]))
      BY <2>1, <2>2, <2>4, <2>5
    <2> QED
      BY <2>1, <2>6
  <1>6. k \in S
    <2> HIDE DEF S
    <2>1. 0..k \subseteq S
      BY <1>1, <1>4, <1>5, UpTo
    <2> QED
      BY <1>1, <2>1
  <1>7. Led(s, A, 0, names, before, reverted)
    <2>1. k - k = 0
      BY <1>1
    <2> QED
      BY <1>2, <1>3, <1>6, <2>1
  <1>8. \A slot : At(reverted.entries, slot) = Here(before, slot)
    <2> SUFFICES ASSUME NEW slot PROVE At(reverted.entries, slot) = Here(before, slot)
      OBVIOUS
    <2>1. {i \in On(A, names, slot) : i <= 0} = {}
      BY <1>1 DEF On
    <2>2. Tracks(s, A, {}, Here(before, slot), At(reverted.entries, slot), slot)
      BY <1>7, <2>1 DEF Led
    <2> QED
      BY <2>2 DEF Tracks, Remembers
  <1>9. reverted.ok
    BY <1>7 DEF Led
  <1> QED
    BY <1>8, <1>9, LooksTheSame DEF reverted

-----------------------------------------------------------------------------
(* Applying one change. Which rows a table has, whatever their columns.      *)

Has(t, id, a, kind, k) == \E e \in t : e.id = id /\ e.actor = a /\ e.kind = kind /\ e.key = k

LEMMA HasKinds ==
    ASSUME NEW t, NEW a, NEW k, NEW kind
    PROVE  kind \in KindsOf(At(t, <<a, k>>)) <=> \E id : Has(t, id, a, kind, k)
  <1>1. KindsOf(At(t, <<a, k>>)) = {e.kind : e \in {d \in t : d.actor = a /\ d.key = k}}
    BY AtIs
  <1> DEFINE K == KindsOf(At(t, <<a, k>>))
  <1> HIDE DEF K
  <1>2. kind \in K <=> \E e \in t : e.actor = a /\ e.key = k /\ e.kind = kind
    BY <1>1 DEF K
  <1> QED
    BY <1>2 DEF Has, K

LEMMA PersistOk ==
    ASSUME NEW db, NEW m, Persist(db, m).ok
    PROVE  db.ok
  BY PersistIs

\* What the statements that undoing can follow do to the rows of a table.
LEMMA PersistHas ==
    ASSUME NEW t, NEW n, NEW db, Follows(db, t, n), NEW m, IsMutation(m, t, n), Persist(db, m).ok
    PROVE  \A id, a, kind, k :
              LET then == Has(Persist(db, m).entries, id, a, kind, k)
                  now == Has(db.entries, id, a, kind, k)
              IN /\ m.op = "insert" =>
                       (then <=> now \/ (id = db.next /\ a = m.actor /\ kind = m.kind /\ k = m.key))
                 /\ m.op = "delete" => (then <=> now /\ id # m.id)
                 /\ m.op \in {"value", "measure"} => (then <=> now)
  <1> DEFINE after == Persist(db, m)
             hit == {e \in db.entries : e.id = m.id}
             others == db.entries \ hit
  <1>0. /\ db.ok /\ IsDb(db, n) /\ IsTable(db.entries, n)
        /\ \A w : [db EXCEPT !.entries = w] = Db(w, db.ok, db.next)
    BY PersistOk, DbIs DEF Follows, IsDb
  <1>1. \A w : Db(w, db.ok, db.next).entries = w
    BY DEF Db
  <1>2. ASSUME m.op = "insert", NEW id, NEW a, NEW kind, NEW k
        PROVE  Has(after.entries, id, a, kind, k)
                 <=> Has(db.entries, id, a, kind, k) \/ (id = db.next /\ a = m.actor /\ kind = m.kind /\ k = m.key)
    <2> DEFINE row == Entry(db.next, m.actor, m.kind, m.key, m.cols)
    <2>1. m.actor \in 0..n /\ m.kind \in Kinds /\ Fits(m.kind, m.cols)
      BY <1>2, MutationOps
    <2>2. after.entries = db.entries \cup {row}
      BY <1>0, <1>2, <2>1, PersistIs, InsertEntryIs
    <2>3. row.id = db.next /\ row.actor = m.actor /\ row.kind = m.kind /\ row.key = m.key
      BY EntryIs
    <2> HIDE DEF row, after
    <2> QED
      BY <2>2, <2>3 DEF Has
  <1>3. ASSUME m.op = "delete", NEW id, NEW a, NEW kind, NEW k
        PROVE  Has(after.entries, id, a, kind, k) <=> Has(db.entries, id, a, kind, k) /\ id # m.id
    <2>1. after = [db EXCEPT !.entries = others]
      BY <1>0, <1>3, PersistIs
    <2>2. after.entries = others
      <3> HIDE DEF after, others
      <3> QED
        BY <1>0, <1>1, <2>1
    <2> HIDE DEF after
    <2> QED
      BY <2>2 DEF Has
  <1>4. ASSUME m.op \in {"value", "measure"}, NEW id, NEW a, NEW kind, NEW k
        PROVE  Has(after.entries, id, a, kind, k) <=> Has(db.entries, id, a, kind, k)
    <2> DEFINE made == {Changed(e, m) : e \in hit}
    <2>1. after = [db EXCEPT !.entries = others \cup made]
      BY <1>0, <1>4, PersistIs
    <2>2. after.entries = others \cup made
      <3> HIDE DEF after, others, made
      <3> QED
        BY <1>0, <1>1, <2>1
    <2>3. ASSUME NEW e \in hit
          PROVE  LET d == Changed(e, m) IN d.id = e.id /\ d.actor = e.actor /\ d.kind = e.kind /\ d.key = e.key
      <3> DEFINE cols == Columns(IF m.op = "value" THEN m.value ELSE e.cols.value,
                                 IF m.op = "measure" /\ m.num # NoNum THEN m.num ELSE e.cols.num,
                                 IF m.op = "measure" THEN m.lo ELSE e.cols.lo,
                                 IF m.op = "measure" THEN m.hi ELSE e.cols.hi)
      <3>1. IsRow(e, n)
        BY <1>0 DEF IsTable
      <3>2. Changed(e, m) = Entry(e.id, e.actor, e.kind, e.key, cols)
        BY <1>4, <3>1, ChangedIs
      <3> HIDE DEF cols
      <3> QED
        BY <3>2, EntryIs
    <2>4. db.entries = others \cup hit
      OBVIOUS
    <2> HIDE DEF after, others, hit
    <2> QED
      BY <2>2, <2>3, <2>4 DEF Has
  <1> QED
    BY <1>2, <1>3, <1>4

\* What is found is not nothing.
LEMMA NotNone ==
    /\ \A kind, cols : [kind |-> kind, cols |-> cols] # NoPrev
    /\ \A id, actor, kind, key, cols : Entry(id, actor, kind, key, cols) # NoPrev
  BY DEF NoPrev, Entry

LEMMA FoundRow ==
    ASSUME NEW t, NEW n, IsTable(t, n), NEW freed, NEW a, NEW k
    PROVE  LET e == Found(t, freed, a, k)
           IN /\ e # NoPrev => e \in t /\ e.actor = a /\ e.key = k /\ <<a, k>> \notin freed
              /\ e = NoPrev => <<a, k>> \in freed \/ At(t, <<a, k>>) = {}
  <1> DEFINE here == {e \in t : e.actor = a /\ e.key = k}
             e == Found(t, freed, a, k)
  <1>1. CASE <<a, k>> \in freed
    <2>1. e = NoPrev
      BY <1>1 DEF Found
    <2> QED
      BY <1>1, <2>1
  <1>2. CASE <<a, k>> \notin freed
    <2>1. e = EntryAt(t, a, k)
      BY <1>2 DEF Found
    <2>2. CASE here = {}
      <3>1. At(t, <<a, k>>) = {}
        BY <2>2, AtIs
      <3>2. e = NoPrev
        BY <2>1, <2>2, EntryAtIs
      <3> QED
        BY <3>1, <3>2
    <2>3. CASE here # {}
      <3>1. e \in here
        BY <2>1, <2>3, EntryAtIs
      <3>2. e # NoPrev
        BY <3>1, NotNone DEF IsTable, IsRow
      <3> QED
        BY <1>2, <3>1, <3>2
    <2> QED
      BY <2>2, <2>3
  <1> QED
    BY <1>1, <1>2

\* The statements of a change that can be undone: for what found nothing, an insert; for
\* what is changed in place, a write; else the deletion of a measurement, with an insert
\* behind it if another kind takes its place.
InsertsFor(m, actor, change) ==
    m.op = "insert" /\ m.actor = actor /\ m.key = change.key /\ m.kind = change.kind
PlanNewMakes(s, change, actor, e) ==
    IF e = NoPrev THEN s = <<>> \/ \E m : s = <<m>> /\ InsertsFor(m, actor, change)
    ELSE IF change.op = "remove" THEN \E m : s = <<m>> /\ m.op = "delete" /\ m.id = e.id
    ELSE s = <<>> \/ \E m : s = <<m>> /\ m.op \in {"value", "measure"} /\ m.id = e.id

LEMMA PlanNewIsMade ==
    ASSUME NEW change, IsRequest(change), NEW actor, NEW e
    PROVE  PlanNewMakes(PlanNew(change, actor, e), change, actor, e)
  <1> DEFINE Makes(s) == PlanNewMakes(s, change, actor, e)
  <1>1. ASSUME NEW cols, e = NoPrev PROVE Makes(Insert(actor, change, change.kind, cols))
    <2> DEFINE m == [op |-> "insert", actor |-> actor, kind |-> change.kind, key |-> change.key, cols |-> cols]
    <2>1. InsertsFor(m, actor, change) /\ Insert(actor, change, change.kind, cols) = <<m>>
      BY DEF InsertsFor, Insert
    <2> HIDE DEF m
    <2> QED
      BY <1>1, <2>1 DEF PlanNewMakes
  <1>2. ASSUME change.op = "remove" PROVE Makes(DeleteIfAny(e))
    <2> DEFINE m == [op |-> "delete", id |-> e.id]
    <2>1. m.op = "delete" /\ m.id = e.id /\ Delete(e) = <<m>>
      BY DEF Delete
    <2> HIDE DEF m
    <2> QED
      BY <1>2, <2>1 DEF PlanNewMakes, DeleteIfAny
  <1>3. ASSUME e # NoPrev, change.op # "remove", NEW value PROVE Makes(Write(e, value))
    <2> DEFINE m == [op |-> "value", id |-> e.id, value |-> value]
    <2>1. m.op = "value" /\ m.id = e.id /\ Write(e, value) = <<m>>
      BY DEF Write
    <2> HIDE DEF m
    <2> QED
      BY <1>3, <2>1 DEF PlanNewMakes
  <1>4. ASSUME e # NoPrev, change.op # "remove", NEW num, NEW lo, NEW hi
        PROVE  Makes(<<[op |-> "measure", id |-> e.id, num |-> num, lo |-> lo, hi |-> hi]>>)
    <2> DEFINE m == [op |-> "measure", id |-> e.id, num |-> num, lo |-> lo, hi |-> hi]
    <2>1. m.op = "measure" /\ m.id = e.id
      OBVIOUS
    <2> HIDE DEF m
    <2>2. Makes(<<m>>)
      BY <1>4, <2>1 DEF PlanNewMakes
    <2> QED
      BY <2>2 DEF m
  <1>5. ASSUME change.op # "remove" PROVE Makes(<<>>)
    BY <1>5 DEF PlanNewMakes
  <1>6. change.kind \in Kinds
    BY DEF IsRequest, Kinds
  <1> HIDE DEF Makes
  <1>7. Makes(PlanText(change, actor, e))
    BY <1>1, <1>2, <1>3 DEF PlanText
  <1>8. ASSUME change.kind = "measurement" PROVE Makes(PlanMeasurement(change, actor, e))
    BY <1>1, <1>2, <1>4, <1>8 DEF PlanMeasurement
  <1>9. ASSUME change.kind = "sequence" PROVE Makes(PlanSequence(change, actor, e))
    BY <1>1, <1>2, <1>3, <1>5, <1>9 DEF PlanSequence
  <1>10. Makes(PlanNew(change, actor, e))
    BY <1>6, <1>7, <1>8, <1>9, FamiliesAre DEF PlanNew
  <1> QED
    BY <1>10 DEF Makes

Changes(s, change, actor, e) ==
    IF e = NoPrev THEN s = <<>> \/ \E m : s = <<m>> /\ InsertsFor(m, actor, change)
    ELSE IF change.op # "remove" /\ change.kind = e.kind
    THEN s = <<>> \/ \E m : s = <<m>> /\ m.op \in {"value", "measure"} /\ m.id = e.id
    ELSE \/ \E m : s = <<m>> /\ m.op = "delete" /\ m.id = e.id
         \/ /\ change.kind # e.kind
            /\ \E m1, m2 : s = <<m1, m2>> /\ m1.op = "delete" /\ m1.id = e.id /\ InsertsFor(m2, actor, change)

LEMMA PlanChangeIsMade ==
    ASSUME NEW t, NEW n, IsTable(t, n), NEW s, NEW change, IsRequest(change), NEW actor, NEW e,
           e = NoPrev \/ e \in t, CanUndo(s, Audited(change, e))
    PROVE  Changes(PlanChange(change, actor, e), change, actor, e)
  <1> DEFINE x == Audited(change, e)
             plan == PlanNew(change, actor, e)
             new == PlanNew(change, actor, NoPrev)
  <1>0. change.kind \in Kinds
    BY DEF IsRequest, Kinds
  <1>1. /\ x.op = change.op /\ x.kind = change.kind
        /\ e = NoPrev => x.prev = NoPrev
        /\ e # NoPrev => x.prev # NoPrev /\ x.prev.kind = e.kind
    <2>1. x.op = change.op /\ x.kind = change.kind /\ (e = NoPrev => x.prev = NoPrev)
          /\ (e # NoPrev => x.prev.kind = e.kind)
      BY AuditedIs
    <2>2. e # NoPrev => x.prev # NoPrev
      BY NotNone DEF Audited, x
    <2> QED
      BY <2>1, <2>2
  <1>2. PlanNewMakes(plan, change, actor, e) /\ PlanNewMakes(new, change, actor, NoPrev)
    BY PlanNewIsMade
  <1> HIDE DEF x, plan, new
  <1>3. CASE e = NoPrev
    <2>1. PlanChange(change, actor, e) = plan \o <<>>
      BY <1>3 DEF PlanChange, Clashes, Rekind, plan
    <2>2. plan \o <<>> = plan
      BY <1>2, <1>3, Behind, Tuples DEF PlanNewMakes
    <2> QED
      BY <1>2, <1>3, <2>1, <2>2 DEF PlanNewMakes, Changes
  <1>4. CASE e # NoPrev /\ change.op # "remove" /\ change.kind = e.kind
    <2>1. PlanChange(change, actor, e) = plan \o <<>>
      BY <1>4 DEF PlanChange, Clashes, Rekind, plan
    <2>2. plan \o <<>> = plan
      BY <1>2, <1>4, Behind, Tuples DEF PlanNewMakes
    <2> QED
      BY <1>2, <1>4, <2>1, <2>2 DEF PlanNewMakes, Changes
  <1>5. CASE e # NoPrev /\ ~(change.op # "remove" /\ change.kind = e.kind)
    <2>1. e.kind = "measurement" /\ e.kind \in Kinds
      <3>1. e.kind = "measurement"
        BY <1>1, <1>5 DEF CanUndo, x
      <3> QED
        BY <3>1, KindsAre
    <2>2. CASE change.kind = "measurement"
      <3>1. PlanChange(change, actor, e) = plan \o <<>>
        BY <1>5, <2>1, <2>2 DEF PlanChange, Clashes, Rekind, plan
      <3>2. PICK m : plan = <<m>> /\ m.op = "delete" /\ m.id = e.id
        BY <1>2, <1>5, <2>1, <2>2 DEF PlanNewMakes
      <3>3. plan \o <<>> = plan
        BY <3>2, Behind, Tuples
      <3> QED
        BY <1>5, <3>1, <3>2, <3>3 DEF Changes
    <2>3. CASE change.kind # "measurement"
      <3> DEFINE m1 == [op |-> "delete", id |-> e.id]
      <3>1. m1.op = "delete" /\ m1.id = e.id /\ Delete(e) = <<m1>>
        BY DEF Delete
      <3> HIDE DEF m1
      <3>2. Clashes(change, e)
        BY <1>0, <1>5, <2>1, <2>3, FamiliesAre DEF Clashes
      <3>3. PlanChange(change, actor, e) = <<m1>> \o new
        BY <3>1, <3>2 DEF PlanChange, new
      <3>4. CASE new = <<>>
        <4>1. <<m1>> \o <<>> = <<m1>>
          BY Behind, Tuples
        <4> QED
          BY <1>5, <3>1, <3>3, <3>4, <4>1 DEF Changes
      <3>5. CASE new # <<>>
        <4>1. PICK m2 : new = <<m2>> /\ InsertsFor(m2, actor, change)
          BY <1>2, <3>5 DEF PlanNewMakes
        <4>2. <<m1>> \o <<m2>> = <<m1, m2>>
          BY Behind
        <4> QED
          BY <1>5, <2>1, <2>3, <3>1, <3>3, <4>1, <4>2 DEF Changes
      <3> QED
        BY <3>4, <3>5
    <2> QED
      BY <2>2, <2>3
  <1> QED
    BY <1>3, <1>4, <1>5

-----------------------------------------------------------------------------
(* A batch under way: what its audit so far remembers of a slot. Every change is        *)
(* planned against the rows that the batch found.                                        *)

Staged(s, A, I, was, found, now, slot) ==
    /\ I = {} => found = was /\ now = was
    /\ Single(was) =>
          /\ Remembers(s, A, I, was, now, slot)
          /\ KindsOf(found) \subseteq KindsOf(was) \cup Gone(A, I)
          /\ Lasting(s, was) /\ (\E i \in I : A[i].prev # NoPrev) => found # {}

LEMMA GoneAlike ==
    ASSUME NEW A, NEW B, NEW I, \A i \in I : A[i] = B[i]
    PROVE  Gone(A, I) = Gone(B, I)
  BY DEF Gone

LEMMA RemembersAlike ==
    ASSUME NEW A, NEW B, NEW I, \A i \in I : A[i] = B[i], NEW s, NEW was, NEW now, NEW slot,
           Remembers(s, A, I, was, now, slot)
    PROVE  Remembers(s, B, I, was, now, slot)
  <1>1. Gone(A, I) = Gone(B, I)
    BY GoneAlike
  <1>2. ASSUME NEW i \in I PROVE Gone(A, {j \in I : j < i}) = Gone(B, {j \in I : j < i})
    <2> DEFINE J == {j \in I : j < i}
    <2>1. \A j \in J : A[j] = B[j]
      OBVIOUS
    <2> HIDE DEF J
    <2> QED
      BY <2>1, GoneAlike DEF J
  <1>3. ASSUME NEW i \in I, B[i].prev # NoPrev
        PROVE  /\ B[i].prev.kind \in KindsOf(was) \cup Gone(B, {j \in I : j < i})
               /\ Lasting(s, was) => /\ B[i].prev.kind \in KindsOf(now)
                                     /\ \A j \in I : i < j => B[j].prev # NoPrev
    <2>1. /\ A[i].prev.kind \in KindsOf(was) \cup Gone(A, {j \in I : j < i})
          /\ Lasting(s, was) => /\ A[i].prev.kind \in KindsOf(now)
                                /\ \A j \in I : i < j => A[j].prev # NoPrev
      BY <1>3 DEF Remembers
    <2> QED
      BY <1>2, <2>1
  <1>4. \A i \in I : (\A j \in I : i <= j) => was = FoundBefore(B[i], slot)
    BY DEF Remembers
  <1>5. /\ I = {} => now = was
        /\ KindsOf(now) \subseteq KindsOf(was) \cup Gone(B, I)
    BY <1>1 DEF Remembers
  <1> QED
    BY <1>3, <1>4, <1>5 DEF Remembers

LEMMA StagedAlike ==
    ASSUME NEW A, NEW B, NEW I, \A i \in I : A[i] = B[i], NEW s, NEW was, NEW found, NEW now, NEW slot,
           Staged(s, A, I, was, found, now, slot)
    PROVE  Staged(s, B, I, was, found, now, slot)
  <1>1. Gone(A, I) = Gone(B, I)
    BY GoneAlike
  <1>2. Single(was) => Remembers(s, B, I, was, now, slot)
    <2>1. Single(was) => Remembers(s, A, I, was, now, slot)
      BY DEF Staged
    <2> QED
      BY <2>1, RemembersAlike
  <1> QED
    BY <1>1, <1>2 DEF Staged

\* One more change of the slot: it finds nothing, changes a row in place, or takes the
\* place of a measurement.
LEMMA StagedNew ==
    ASSUME NEW s, NEW A, NEW I, I \subseteq Nat, NEW n \in Nat, \A i \in I : i < n,
           NEW was, NEW found, NEW now, NEW then, NEW slot, Staged(s, A, I, was, found, now, slot),
           A[n].prev = NoPrev,
           KindsOf(now) \subseteq KindsOf(then), KindsOf(then) \subseteq KindsOf(now) \cup {A[n].kind},
           found = {} \/ (I # {} /\ (Single(was) => ~Lasting(s, was)))
    PROVE  Staged(s, A, I \cup {n}, was, found, then, slot)
  <1>1. Gone(A, I) \subseteq Gone(A, I \cup {n})
    BY GoneGrows
  <1>2. ASSUME Single(was) PROVE Remembers(s, A, I \cup {n}, was, then, slot)
    <2>1. Remembers(s, A, I, was, now, slot)
      BY <1>2 DEF Staged
    <2>2. I = {} => was = {}
      BY DEF Staged
    <2>3. Lasting(s, was) => \A i \in I : A[i].prev = NoPrev
      BY <1>2 DEF Staged
    <2> QED
      BY <2>1, <2>2, <2>3, NewRemembered
  <1>3. ASSUME Single(was) PROVE KindsOf(found) \subseteq KindsOf(was) \cup Gone(A, I \cup {n})
    BY <1>1, <1>3 DEF Staged
  <1>4. ASSUME Single(was), Lasting(s, was), \E i \in I \cup {n} : A[i].prev # NoPrev PROVE found # {}
    BY <1>4 DEF Staged
  <1>5. I \cup {n} # {}
    OBVIOUS
  <1> QED
    BY <1>2, <1>3, <1>4, <1>5 DEF Staged

LEMMA StagedInPlace ==
    ASSUME NEW s, NEW A, NEW I, I \subseteq Nat, NEW n \in Nat, \A i \in I : i < n,
           NEW was, NEW found, NEW now, NEW then, NEW slot, Staged(s, A, I, was, found, now, slot),
           A[n].prev # NoPrev, A[n].prev.kind = A[n].kind,
           Shown(slot, A[n].prev.kind, A[n].prev.cols) \in found,
           KindsOf(then) = KindsOf(now), A[n].prev.kind \in KindsOf(now)
    PROVE  Staged(s, A, I \cup {n}, was, found, then, slot)
  <1> DEFINE row == Shown(slot, A[n].prev.kind, A[n].prev.cols)
  <1>1. Gone(A, I) \subseteq Gone(A, I \cup {n})
    BY GoneGrows
  <1>2. row \in found /\ row.kind = A[n].prev.kind
    BY DEF Shown
  <1>3. ~Deletes(A[n])
    BY DEF Deletes
  <1>4. ASSUME Single(was) PROVE Remembers(s, A, I \cup {n}, was, then, slot)
    <2>1. Remembers(s, A, I, was, now, slot)
      BY <1>4 DEF Staged
    <2>2. I = {} => was = FoundBefore(A[n], slot)
      <3> SUFFICES ASSUME I = {} PROVE was = FoundBefore(A[n], slot)
        OBVIOUS
      <3>1. FoundBefore(A[n], slot) = {row}
        BY DEF FoundBefore
      <3>2. row \in was
        BY <1>2 DEF Staged
      <3> HIDE DEF row
      <3> QED
        BY <1>4, <3>1, <3>2 DEF Single
    <2>3. A[n].prev.kind \in KindsOf(found)
      BY <1>2 DEF KindsOf
    <2>4. A[n].prev.kind \in KindsOf(was) \cup Gone(A, I)
      BY <1>4, <2>3 DEF Staged
    <2>5. KindsOf(then) \subseteq KindsOf(now) \cup (IF Deletes(A[n]) THEN {A[n].kind} ELSE {})
      OBVIOUS
    <2>6. Lasting(s, was) => KindsOf(now) \cup {A[n].prev.kind} \subseteq KindsOf(then)
      OBVIOUS
    <2> QED
      BY <2>1, <2>2, <2>4, <2>5, <2>6, FoundRemembered
  <1>5. ASSUME Single(was) PROVE KindsOf(found) \subseteq KindsOf(was) \cup Gone(A, I \cup {n})
    BY <1>1, <1>5 DEF Staged
  <1>6. found # {} /\ I \cup {n} # {}
    BY <1>2
  <1> QED
    BY <1>4, <1>5, <1>6 DEF Staged

LEMMA StagedBack ==
    ASSUME NEW s, NEW A, NEW I, I \subseteq Nat, NEW n \in Nat, \A i \in I : i < n, \A i \in I : CanUndo(s, A[i]),
           NEW was, NEW found, NEW now, NEW then, NEW slot, Staged(s, A, I, was, found, now, slot),
           A[n].prev # NoPrev, s = "game", A[n].prev.kind = "measurement",
           Shown(slot, A[n].prev.kind, A[n].prev.cols) \in found,
           KindsOf(then) \subseteq KindsOf(now) \cup (IF Deletes(A[n]) THEN {A[n].kind} ELSE {})
    PROVE  /\ Staged(s, A, I \cup {n}, was, found, then, slot)
           /\ Single(was) => ~Lasting(s, was)
  <1> DEFINE row == Shown(slot, A[n].prev.kind, A[n].prev.cols)
  <1>1. Gone(A, I) \subseteq Gone(A, I \cup {n})
    BY GoneGrows
  <1>2. row \in found /\ row.kind = A[n].prev.kind
    BY DEF Shown
  <1>3. A[n].prev.kind \in KindsOf(found)
    BY <1>2 DEF KindsOf
  <1>4. ASSUME Single(was) PROVE ~Lasting(s, was)
    <2>1. Tracks(s, A, I, was, now, slot)
      BY <1>4 DEF Staged, Tracks
    <2>2. "measurement" \in KindsOf(was) \cup Gone(A, I)
      BY <1>3, <1>4 DEF Staged
    <2> QED
      BY <2>1, <2>2, NoMeasurement
  <1>5. ASSUME Single(was) PROVE Remembers(s, A, I \cup {n}, was, then, slot)
    <2>1. Remembers(s, A, I, was, now, slot)
      BY <1>5 DEF Staged
    <2>2. I = {} => was = FoundBefore(A[n], slot)
      <3> SUFFICES ASSUME I = {} PROVE was = FoundBefore(A[n], slot)
        OBVIOUS
      <3>1. FoundBefore(A[n], slot) = {row}
        BY DEF FoundBefore
      <3>2. row \in was
        BY <1>2 DEF Staged
      <3> HIDE DEF row
      <3> QED
        BY <1>5, <3>1, <3>2 DEF Single
    <2>3. A[n].prev.kind \in KindsOf(was) \cup Gone(A, I)
      BY <1>3, <1>5 DEF Staged
    <2>4. Lasting(s, was) => KindsOf(now) \cup {A[n].prev.kind} \subseteq KindsOf(then)
      BY <1>4, <1>5
    <2> QED
      BY <2>1, <2>2, <2>3, <2>4, FoundRemembered
  <1>6. ASSUME Single(was) PROVE KindsOf(found) \subseteq KindsOf(was) \cup Gone(A, I \cup {n})
    BY <1>1, <1>6 DEF Staged
  <1>7. found # {} /\ I \cup {n} # {}
    BY <1>2
  <1> QED
    BY <1>4, <1>5, <1>6, <1>7 DEF Staged

-----------------------------------------------------------------------------
(* The statements of one change, run after those of the changes before it    *)

\* B is A with a k-th change x behind.
OneMore(A, x, names, B, k) ==
    /\ k \in Nat /\ IsSeq(B) /\ B[k] = x /\ Range(B) = Range(A) \cup {x}
    /\ \A slot : /\ On(A, names, slot) \subseteq Nat
                 /\ \A i \in On(A, names, slot) : i < k /\ A[i] = B[i] /\ A[i] \in Range(A)
                 /\ On(B, names, slot) = On(A, names, slot) \cup (IF slot = SlotOf(x, names) THEN {k} ELSE {})

LEMMA OneMoreOn ==
    ASSUME NEW A, IsSeq(A), NEW x, NEW names
    PROVE  OneMore(A, x, names, Append(A, x), Len(A) + 1)
  <1> DEFINE k == Len(A) + 1
             B == Append(A, x)
  <1>1. Len(A) \in Nat /\ DOMAIN A = 1..Len(A) /\ k \in Nat
    BY SeqIs
  <1>2. IsSeq(B) /\ Len(B) = k /\ Range(B) = Range(A) \cup {x} /\ B[k] = x /\ \A i \in DOMAIN A : B[i] = A[i]
    BY Appended
  <1>3. DOMAIN B = 1..k
    BY <1>2, SeqIs
  <1>4. DOMAIN B = DOMAIN A \cup {k}
    <2>1. 1..k = (1..Len(A)) \cup {k}
      BY <1>1
    <2> QED
      BY <1>1, <1>3, <2>1
  <1> HIDE DEF B
  <1>5. ASSUME NEW slot
        PROVE  /\ On(A, names, slot) \subseteq Nat
               /\ \A i \in On(A, names, slot) : i < k /\ A[i] = B[i] /\ A[i] \in Range(A)
               /\ On(B, names, slot) = On(A, names, slot) \cup (IF slot = SlotOf(x, names) THEN {k} ELSE {})
    <2>1. \A i \in DOMAIN A : i \in Nat /\ i < k /\ A[i] = B[i] /\ A[i] \in Range(A)
      BY <1>1, <1>2 DEF Range
    <2> HIDE DEF k
    <2>2. On(B, names, slot) = On(A, names, slot) \cup (IF slot = SlotOf(x, names) THEN {k} ELSE {})
      BY <1>2, <1>4, <2>1 DEF On
    <2> QED
      BY <2>1, <2>2 DEF On
  <1> QED
    BY <1>1, <1>2, <1>5 DEF B, OneMore

\* The statements ms of a change lead from a write to another.
Runs(db, ms, after) ==
    \/ ms = <<>> /\ after = db
    \/ \E m : ms = <<m>> /\ after = Persist(db, m)
    \/ \E m1, m2 : ms = <<m1, m2>> /\ after = Persist(Persist(db, m1), m2)

LEMMA WrittenRuns ==
    ASSUME NEW t, NEW q, IsSeq(q), NEW change, NEW actor, NEW e
    PROVE  LET ms == PlanChange(change, actor, e)
           IN Runs(Written(t, q), ms, Written(t, q \o ms))
  <1> DEFINE ms == PlanChange(change, actor, e)
  <1>1. \/ ms = <<>>
        \/ \E m : ms = <<m>>
        \/ \E m1, m2 : ms = <<m1, m2>>
    BY PlanChangeShape
  <1> HIDE DEF ms
  <1>2. ASSUME ms = <<>> PROVE Runs(Written(t, q), ms, Written(t, q \o ms))
    <2>1. q \o ms = q
      BY <1>2, Behind
    <2>2. Written(t, q \o ms) = Written(t, q)
      BY <2>1
    <2>3. \A db : Runs(db, <<>>, db)
      BY DEF Runs
    <2> QED
      BY <1>2, <2>2, <2>3
  <1>3. ASSUME NEW m, ms = <<m>> PROVE Runs(Written(t, q), ms, Written(t, q \o ms))
    <2>1. q \o ms = Append(q, m)
      BY <1>3, Behind
    <2>2. Written(t, q \o ms) = Persist(Written(t, q), m)
      BY <2>1, WrittenBehind
    <2> QED
      BY <1>3, <2>2 DEF Runs
  <1>4. ASSUME NEW m1, NEW m2, ms = <<m1, m2>> PROVE Runs(Written(t, q), ms, Written(t, q \o ms))
    <2>1. q \o ms = Append(Append(q, m1), m2) /\ IsSeq(Append(q, m1))
      BY <1>4, Behind, Appended
    <2>2. Written(t, q \o ms) = Persist(Persist(Written(t, q), m1), m2)
      BY <2>1, WrittenBehind
    <2> QED
      BY <1>4, <2>2 DEF Runs
  <1> QED
    BY <1>1, <1>2, <1>3, <1>4 DEF ms

\* The rows of t are still there, but for those of the slots that were freed.
Snap(t, freed, u) ==
    \A d \in t : <<d.actor, d.key>> \notin freed => Has(u, d.id, d.actor, d.kind, d.key)

LEMMA PairIs ==
    \A x, y : IsSeq(<<x, y>>) /\ Range(<<x, y>>) = {x, y}
  <1> SUFFICES ASSUME NEW x, NEW y PROVE IsSeq(<<x, y>>) /\ Range(<<x, y>>) = {x, y}
    OBVIOUS
  <1>1. <<x, y>> = <<x>> \o <<y>>
    BY Behind
  <1>2. IsSeq(<<x>>) /\ IsSeq(<<y>>) /\ Range(<<x>>) = {x} /\ Range(<<y>>) = {y}
    BY Tuples
  <1>3. IsSeq(<<x>> \o <<y>>) /\ Range(<<x>> \o <<y>>) = Range(<<x>>) \cup Range(<<y>>)
    BY <1>2, Joined
  <1> QED
    BY <1>1, <1>2, <1>3

LEMMA RunsStay ==
    ASSUME NEW t, NEW n, NEW db, Follows(db, t, n), SameSlots(db, t), NEW slots,
           NEW ms, AreMutations(ms, t, n), AreForSlots(ms, t, slots), NEW after, Runs(db, ms, after)
    PROVE  /\ Follows(after, t, n) /\ SameSlots(after, t)
           /\ Outside(after.entries, slots) = Outside(db.entries, slots)
  <1>1. ASSUME NEW d, Follows(d, t, n), SameSlots(d, t), NEW m, m \in Range(ms)
        PROVE  /\ Follows(Persist(d, m), t, n) /\ SameSlots(Persist(d, m), t)
               /\ Outside(Persist(d, m).entries, slots) = Outside(d.entries, slots)
    <2>1. IsMutation(m, t, n) /\ ForSlots(m, t, slots)
      BY <1>1 DEF AreMutations, AreForSlots
    <2> QED
      BY <1>1, <2>1, PersistFollows, PersistStays
  <1>2. CASE ms = <<>> /\ after = db
    BY <1>2
  <1>3. ASSUME NEW m, ms = <<m>>, after = Persist(db, m)
        PROVE  /\ Follows(after, t, n) /\ SameSlots(after, t)
               /\ Outside(after.entries, slots) = Outside(db.entries, slots)
    <2>1. m \in Range(ms)
      BY <1>3, Tuples
    <2> QED
      BY <1>1, <1>3, <2>1
  <1>4. ASSUME NEW m1, NEW m2, ms = <<m1, m2>>, after = Persist(Persist(db, m1), m2)
        PROVE  /\ Follows(after, t, n) /\ SameSlots(after, t)
               /\ Outside(after.entries, slots) = Outside(db.entries, slots)
    <2>1. m1 \in Range(ms) /\ m2 \in Range(ms)
      BY <1>4, PairIs
    <2>2. /\ Follows(Persist(db, m1), t, n) /\ SameSlots(Persist(db, m1), t)
          /\ Outside(Persist(db, m1).entries, slots) = Outside(db.entries, slots)
      BY <1>1, <2>1
    <2> QED
      BY <1>1, <1>4, <2>1, <2>2
  <1> QED
    BY <1>2, <1>3, <1>4 DEF Runs

\* What they do to the kinds of the slot and to the rows that the batch found there.
MadeHere(now, then, x, e) ==
    LET Old == KindsOf(now)
        New == KindsOf(then)
    IN IF e = NoPrev THEN Old \subseteq New /\ New \subseteq Old \cup {x.kind}
       ELSE IF x.op # "remove" /\ x.kind = e.kind THEN New = Old
       ELSE New \subseteq Old \cup (IF x.kind # e.kind THEN {x.kind} ELSE {})

LEMMA RunsHere ==
    ASSUME NEW t, NEW n, NEW db, Follows(db, t, n), NEW change, NEW a, NEW e,
           NEW ms, AreMutations(ms, t, n), Changes(ms, change, a, e), NEW after, Runs(db, ms, after), after.ok
    PROVE  /\ MadeHere(At(db.entries, <<a, change.key>>), At(after.entries, <<a, change.key>>), Audited(change, e), e)
           /\ e = NoPrev \/ (change.op # "remove" /\ change.kind = e.kind) =>
                 \A id, kind : Has(db.entries, id, a, kind, change.key) => Has(after.entries, id, a, kind, change.key)
  <1> DEFINE k == change.key
             HadRow(id, kind) == Has(db.entries, id, a, kind, k)
             HasRow(id, kind) == Has(after.entries, id, a, kind, k)
             now == At(db.entries, <<a, k>>)
             then == At(after.entries, <<a, k>>)
             x == Audited(change, e)
             made == \/ e = NoPrev
                     \/ e # NoPrev /\ ~(change.op # "remove" /\ change.kind = e.kind) /\ change.kind # e.kind
             kept == e = NoPrev \/ (change.op # "remove" /\ change.kind = e.kind)
  <1>1. \A m \in Range(ms) : IsMutation(m, t, n)
    BY DEF AreMutations
  <1>2. ASSUME NEW d, Follows(d, t, n), NEW m \in Range(ms), Persist(d, m).ok, NEW id, NEW kind
        PROVE  LET Is(u) == Has(u.entries, id, a, kind, k)
               IN /\ InsertsFor(m, a, change) =>
                        /\ Is(d) => Is(Persist(d, m))
                        /\ Is(Persist(d, m)) => Is(d) \/ kind = change.kind
                  /\ m.op = "delete" => (Is(Persist(d, m)) => Is(d))
                  /\ m.op \in {"value", "measure"} => (Is(Persist(d, m)) <=> Is(d))
    <2>1. IsMutation(m, t, n)
      BY <1>1, <1>2
    <2> HIDE DEF k
    <2>2. LET stands == Has(Persist(d, m).entries, id, a, kind, k)
              stood == Has(d.entries, id, a, kind, k)
          IN /\ m.op = "insert" => (stands <=> stood \/ (id = d.next /\ a = m.actor /\ kind = m.kind /\ k = m.key))
             /\ m.op = "delete" => (stands <=> stood /\ id # m.id)
             /\ m.op \in {"value", "measure"} => (stands <=> stood)
      BY <1>2, <2>1, PersistHas
    <2> QED
      BY <2>2 DEF InsertsFor
  <1>3. \A id, kind : /\ HasRow(id, kind) => HadRow(id, kind) \/ (made /\ kind = change.kind)
                      /\ kept => (HadRow(id, kind) => HasRow(id, kind))
    <2> SUFFICES ASSUME NEW id, NEW kind
                 PROVE  /\ HasRow(id, kind) => HadRow(id, kind) \/ (made /\ kind = change.kind)
                        /\ kept => (HadRow(id, kind) => HasRow(id, kind))
      OBVIOUS
    <2> DEFINE Is(u) == Has(u.entries, id, a, kind, k)
    <2>1. ASSUME NEW m, ms = <<m>>, after = Persist(db, m),
                 \/ InsertsFor(m, a, change) /\ e = NoPrev
                 \/ m.op = "delete" /\ ~kept
                 \/ m.op \in {"value", "measure"}
          PROVE  /\ Is(after) => Is(db) \/ (made /\ kind = change.kind)
                 /\ kept => (Is(db) => Is(after))
      <3>1. m \in Range(ms)
        BY <2>1, Tuples
      <3>2. /\ InsertsFor(m, a, change) =>
                   /\ Is(db) => Is(after)
                   /\ Is(after) => Is(db) \/ kind = change.kind
            /\ m.op = "delete" => (Is(after) => Is(db))
            /\ m.op \in {"value", "measure"} => (Is(after) <=> Is(db))
        BY <1>2, <2>1, <3>1
      <3> HIDE DEF Is
      <3> QED
        BY <2>1, <3>2
    <2>2. ASSUME NEW m1, NEW m2, ms = <<m1, m2>>, after = Persist(Persist(db, m1), m2),
                 m1.op = "delete", InsertsFor(m2, a, change), ~kept, change.kind # e.kind
          PROVE  Is(after) => Is(db) \/ (made /\ kind = change.kind)
      <3> DEFINE mid == Persist(db, m1)
      <3>1. m1 \in Range(ms) /\ m2 \in Range(ms)
        BY <2>2, PairIs
      <3>2. mid.ok /\ Follows(mid, t, n)
        BY <1>1, <2>2, <3>1, PersistOk, PersistFollows
      <3>3. Is(mid) => Is(db)
        BY <1>2, <2>2, <3>1, <3>2
      <3> HIDE DEF mid
      <3>4. Is(after) => Is(mid) \/ kind = change.kind
        BY <1>2, <2>2, <3>1, <3>2 DEF mid
      <3> HIDE DEF Is
      <3> QED
        BY <2>2, <3>3, <3>4
    <2>3. \/ ms = <<>> /\ after = db
          \/ \E m : /\ ms = <<m>> /\ after = Persist(db, m)
                    /\ \/ InsertsFor(m, a, change) /\ e = NoPrev
                       \/ m.op = "delete" /\ ~kept
                       \/ m.op \in {"value", "measure"}
          \/ /\ ~kept /\ change.kind # e.kind
             /\ \E m1, m2 : /\ ms = <<m1, m2>> /\ after = Persist(Persist(db, m1), m2)
                            /\ m1.op = "delete" /\ InsertsFor(m2, a, change)
      <3>1. \A m : <<m>>[1] = m /\ <<m>> # <<>>
        OBVIOUS
      <3>2. \A m1, m2 : <<m1, m2>>[1] = m1 /\ <<m1, m2>>[2] = m2 /\ <<m1, m2>> # <<>> /\ \A m : <<m>> # <<m1, m2>>
        OBVIOUS
      <3>3. CASE ms = <<>>
        BY <3>1, <3>2, <3>3 DEF Runs
      <3>4. ASSUME NEW m, ms = <<m>> PROVE after = Persist(db, m)
        BY <3>1, <3>2, <3>4 DEF Runs
      <3>5. ASSUME NEW m1, NEW m2, ms = <<m1, m2>> PROVE after = Persist(Persist(db, m1), m2)
        BY <3>1, <3>2, <3>5 DEF Runs
      <3> QED
        BY <3>3, <3>4, <3>5 DEF Changes
    <2>4. CASE ms = <<>> /\ after = db
      BY <2>4
    <2> QED
      BY <2>1, <2>2, <2>3, <2>4
  <1>4. /\ \A kind : kind \in KindsOf(now) <=> \E id : HadRow(id, kind)
        /\ \A kind : kind \in KindsOf(then) <=> \E id : HasRow(id, kind)
    BY HasKinds
  <1>5. x.op = change.op /\ x.kind = change.kind
    BY AuditedIs
  <1> HIDE DEF HadRow, HasRow, now, then, x
  <1>6. MadeHere(now, then, x, e)
    BY <1>3, <1>4, <1>5 DEF MadeHere
  <1> QED
    BY <1>3, <1>6 DEF now, then, x, HadRow, HasRow

\* A batch after some of its changes: A is the audit of the turn so far, t the table that
\* the batch found, freed its freed slots and db what was written.
Stage(s, A, names, before, t, freed, db) ==
    /\ IsSeq(A) /\ Follows(db, t, Len(names)) /\ SameSlots(db, t) /\ Snap(t, freed, db.entries)
    /\ \A slot : Staged(s, A, On(A, names, slot), Here(before, slot), At(t, slot), At(db.entries, slot), slot)
    /\ \A slot \in freed :
          On(A, names, slot) # {} /\ (Single(Here(before, slot)) => ~Lasting(s, Here(before, slot)))

\* One slot of a batch after one more change, of that slot.
LEMMA StagedMore ==
    ASSUME NEW s, NEW A, NEW I, I \subseteq Nat, NEW k \in Nat, \A i \in I : i < k,
           \A i \in I \cup {k} : CanUndo(s, A[i]),
           NEW t, NEW n, IsTable(t, n), NEW freed, NEW a, NEW change, NEW e, e = Found(t, freed, a, change.key),
           A[k] = Audited(change, e),
           NEW was, NEW now, NEW then, Staged(s, A, I, was, At(t, <<a, change.key>>), now, <<a, change.key>>),
           MadeHere(now, then, A[k], e),
           e # NoPrev => e.kind \in KindsOf(now),
           <<a, change.key>> \in freed => I # {} /\ (Single(was) => ~Lasting(s, was))
    PROVE  /\ Staged(s, A, I \cup {k}, was, At(t, <<a, change.key>>), then, <<a, change.key>>)
           /\ e # NoPrev /\ ~(change.op # "remove" /\ change.kind = e.kind) => (Single(was) => ~Lasting(s, was))
  <1> DEFINE slot == <<a, change.key>>
             found == At(t, slot)
             x == A[k]
  <1>1. /\ x.op = change.op /\ x.kind = change.kind
        /\ e = NoPrev => x.prev = NoPrev
        /\ e # NoPrev => x.prev # NoPrev /\ x.prev.kind = e.kind /\ x.prev.cols = e.cols
    <2>1. /\ x.op = change.op /\ x.kind = change.kind
          /\ e = NoPrev => x.prev = NoPrev
          /\ e # NoPrev => x.prev.kind = e.kind /\ x.prev.cols = e.cols
      BY AuditedIs
    <2>2. e # NoPrev => x.prev # NoPrev
      BY NotNone DEF Audited
    <2> QED
      BY <2>1, <2>2
  <1>2. CanUndo(s, x)
    OBVIOUS
  <1>3. /\ e # NoPrev => e \in t /\ e.actor = a /\ e.key = change.key
        /\ e = NoPrev => slot \in freed \/ found = {}
    BY FoundRow
  <1>4. e # NoPrev => Shown(slot, e.kind, e.cols) \in found
    BY <1>3, AtIs
  <1> HIDE DEF slot, found, x
  <1>5. Staged(s, A, I, was, found, now, slot) /\ MadeHere(now, then, x, e)
    BY DEF slot, found, x
  <1>6. CASE e = NoPrev
    <2>1. KindsOf(now) \subseteq KindsOf(then) /\ KindsOf(then) \subseteq KindsOf(now) \cup {x.kind}
      BY <1>5, <1>6 DEF MadeHere
    <2>2. found = {} \/ (I # {} /\ (Single(was) => ~Lasting(s, was)))
      BY <1>3, <1>6 DEF slot
    <2>3. Staged(s, A, I \cup {k}, was, found, then, slot)
      BY <1>1, <1>5, <1>6, <2>1, <2>2, StagedNew DEF x
    <2> QED
      BY <1>6, <2>3 DEF slot, found
  <1>7. CASE e # NoPrev /\ change.op # "remove" /\ change.kind = e.kind
    <2>1. KindsOf(then) = KindsOf(now)
      BY <1>1, <1>5, <1>7 DEF MadeHere
    <2>2. /\ x.prev # NoPrev /\ x.prev.kind = x.kind /\ Shown(slot, x.prev.kind, x.prev.cols) \in found
          /\ x.prev.kind \in KindsOf(now)
      BY <1>1, <1>4, <1>7
    <2>3. Staged(s, A, I \cup {k}, was, found, then, slot)
      BY <1>5, <2>1, <2>2, StagedInPlace DEF x
    <2> QED
      BY <1>7, <2>3 DEF slot, found
  <1>8. CASE e # NoPrev /\ ~(change.op # "remove" /\ change.kind = e.kind)
    <2>1. s = "game" /\ x.prev.kind = "measurement"
      BY <1>1, <1>2, <1>8 DEF CanUndo
    <2>2. KindsOf(then) \subseteq KindsOf(now) \cup (IF Deletes(x) THEN {x.kind} ELSE {})
      BY <1>1, <1>5, <1>8 DEF MadeHere, Deletes
    <2>3. x.prev # NoPrev /\ Shown(slot, x.prev.kind, x.prev.cols) \in found
      BY <1>1, <1>4, <1>8
    <2>4. \A i \in I : CanUndo(s, A[i])
      OBVIOUS
    <2>5. /\ Staged(s, A, I \cup {k}, was, found, then, slot)
          /\ Single(was) => ~Lasting(s, was)
      BY <1>5, <2>1, <2>2, <2>3, <2>4, StagedBack DEF x
    <2> QED
      BY <2>5 DEF slot, found
  <1> QED
    BY <1>6, <1>7, <1>8

LEMMA StageMore ==
    ASSUME NEW s, NEW names, IsSeq(names), NEW A, NEW before, NEW t, NEW freed, NEW db,
           Stage(s, A, names, before, t, freed, db),
           NEW change, IsRequest(change), NEW e, e = Found(t, freed, ResolveActor(change.target, names), change.key),
           \A c \in Range(A) \cup {Audited(change, e)} : CanUndo(s, c),
           NEW after, Runs(db, PlanChange(change, ResolveActor(change.target, names), e), after), after.ok
    PROVE  Stage(s, Append(A, Audited(change, e)), names, before, t,
                 freed \cup (IF e # NoPrev /\ (change.op = "remove" \/ Clashes(change, e))
                             THEN {<<ResolveActor(change.target, names), change.key>>} ELSE {}), after)
  <1> DEFINE n == Len(names)
             a == ResolveActor(change.target, names)
             slot == <<a, change.key>>
             x == Audited(change, e)
             B == Append(A, x)
             k == Len(A) + 1
             ms == PlanChange(change, a, e)
             now == At(db.entries, slot)
             then == At(after.entries, slot)
             kept == e = NoPrev \/ (change.op # "remove" /\ change.kind = e.kind)
             more == freed \cup (IF e # NoPrev /\ (change.op = "remove" \/ Clashes(change, e)) THEN {slot} ELSE {})
  <1>1. /\ IsSeq(A) /\ Follows(db, t, n) /\ SameSlots(db, t) /\ Snap(t, freed, db.entries)
        /\ \A sl : Staged(s, A, On(A, names, sl), Here(before, sl), At(t, sl), At(db.entries, sl), sl)
        /\ \A sl \in freed : On(A, names, sl) # {} /\ (Single(Here(before, sl)) => ~Lasting(s, Here(before, sl)))
    BY DEF Stage
  <1>2. IsTable(t, n)
    BY <1>1 DEF Follows
  <1>3. a \in 0..n
    BY ResolveIs
  <1>4. /\ e # NoPrev => e \in t /\ e.actor = a /\ e.key = change.key /\ slot \notin freed
        /\ e = NoPrev => slot \in freed \/ At(t, slot) = {}
    BY <1>2, FoundRow
  <1>5. SlotOf(x, names) = slot
    BY AuditedIs DEF SlotOf
  <1>6. CanUndo(s, x)
    OBVIOUS
  <1> HIDE DEF n, a, x, now, then
  <1>7. AreMutations(ms, t, n)
    BY <1>2, <1>3, <1>4, PlanChangeIs
  <1>8. Changes(ms, change, a, e)
    BY <1>2, <1>4, <1>6, PlanChangeIsMade DEF x
  <1>9. AreForSlots(ms, t, {slot})
    BY <1>4, PlanChangeStays
  <1>10. Runs(db, ms, after)
    BY DEF a
  <1> HIDE DEF ms
  <1>11. /\ Follows(after, t, n) /\ SameSlots(after, t)
         /\ Outside(after.entries, {slot}) = Outside(db.entries, {slot})
    BY <1>1, <1>7, <1>9, <1>10, RunsStay
  <1>12. /\ MadeHere(now, then, x, e)
         /\ kept => \A id, kind : Has(db.entries, id, a, kind, change.key)
                                    => Has(after.entries, id, a, kind, change.key)
    BY <1>1, <1>7, <1>8, <1>10, RunsHere DEF now, then, x
  <1>13. /\ k \in Nat /\ IsSeq(B) /\ B[k] = x
         /\ \A sl : /\ On(A, names, sl) \subseteq Nat
                    /\ \A i \in On(A, names, sl) : i < k /\ A[i] = B[i] /\ A[i] \in Range(A)
                    /\ On(B, names, sl) = On(A, names, sl) \cup (IF sl = slot THEN {k} ELSE {})
    <2>1. OneMore(A, x, names, B, k)
      BY <1>1, OneMoreOn
    <2> HIDE DEF slot, B, k
    <2> QED
      BY <1>5, <2>1 DEF OneMore
  <1>14. e # NoPrev => e.kind \in KindsOf(now)
    <2> SUFFICES ASSUME e # NoPrev PROVE e.kind \in KindsOf(now)
      OBVIOUS
    <2>1. Has(db.entries, e.id, a, e.kind, change.key)
      BY <1>1, <1>4 DEF Snap
    <2> QED
      BY <2>1, HasKinds DEF now
  <1>15. ~kept => slot \in more
    <2> SUFFICES ASSUME e # NoPrev, change.op # "remove", change.kind # e.kind PROVE Clashes(change, e)
      OBVIOUS
    <2>1. e.kind = "measurement"
      <3>1. x.kind = change.kind /\ x.op = change.op /\ x.prev.kind = e.kind /\ x.prev # NoPrev
        BY AuditedIs, NotNone DEF x, Audited
      <3> QED
        BY <1>6, <3>1 DEF CanUndo
    <2>2. change.kind \in Kinds /\ e.kind \in Kinds
      BY <2>1, KindsAre DEF IsRequest, Kinds
    <2> QED
      BY <2>1, <2>2, FamiliesAre DEF Clashes
  <1>16. kept => slot \notin more \ freed
    <2> SUFFICES ASSUME e # NoPrev, change.op # "remove", change.kind = e.kind PROVE ~Clashes(change, e)
      OBVIOUS
    <2> QED
      BY DEF Clashes
  <1> HIDE DEF B, slot
  <1>17. /\ Staged(s, B, On(B, names, slot), Here(before, slot), At(t, slot), then, slot)
         /\ ~kept => (Single(Here(before, slot)) => ~Lasting(s, Here(before, slot)))
    <2> DEFINE I == On(A, names, slot)
               was == Here(before, slot)
    <2>1. I \subseteq Nat /\ k \in Nat /\ (\A i \in I : i < k) /\ \A i \in I : A[i] = B[i]
      BY <1>13
    <2>2. \A i \in I \cup {k} : CanUndo(s, B[i])
      BY <1>13 DEF x
    <2>3. Staged(s, A, I, was, At(t, slot), now, slot)
      BY <1>1 DEF now, slot
    <2>4. slot \in freed => I # {} /\ (Single(was) => ~Lasting(s, was))
      BY <1>1
    <2>5. B[k] = x
      BY <1>13
    <2> HIDE DEF I, was, k
    <2>6. Staged(s, B, I, was, At(t, slot), now, slot)
      BY <2>1, <2>3, StagedAlike
    <2>7. e = Found(t, freed, a, change.key)
      BY DEF a
    <2>8. B[k] = Audited(change, e) /\ MadeHere(now, then, B[k], e)
      BY <1>12, <2>5 DEF x
    <2>9. /\ Staged(s, B, I, was, At(t, <<a, change.key>>), now, <<a, change.key>>)
          /\ <<a, change.key>> \in freed => I # {} /\ (Single(was) => ~Lasting(s, was))
      BY <2>4, <2>6 DEF slot
    <2> HIDE DEF kept, more
    <2>10. /\ Staged(s, B, I \cup {k}, was, At(t, <<a, change.key>>), then, <<a, change.key>>)
           /\ e # NoPrev /\ ~(change.op # "remove" /\ change.kind = e.kind) => (Single(was) => ~Lasting(s, was))
      BY <1>2, <1>14, <2>1, <2>2, <2>7, <2>8, <2>9, StagedMore
    <2> QED
      BY <1>13, <2>10 DEF I, was, k, slot, kept
  <1>18. ASSUME NEW sl
         PROVE  Staged(s, B, On(B, names, sl), Here(before, sl), At(t, sl), At(after.entries, sl), sl)
    <2>1. CASE sl = slot
      BY <1>17, <2>1 DEF then, slot
    <2>2. CASE sl # slot
      <3>1. At(after.entries, sl) = At(db.entries, sl)
        BY <1>11, <2>2, OutsideLooks
      <3>2. On(B, names, sl) = On(A, names, sl) /\ \A i \in On(A, names, sl) : A[i] = B[i]
        BY <1>13, <2>2
      <3>3. Staged(s, A, On(A, names, sl), Here(before, sl), At(t, sl), At(db.entries, sl), sl)
        BY <1>1
      <3> QED
        BY <3>1, <3>2, <3>3, StagedAlike
    <2> QED
      BY <2>1, <2>2
  <1>19. ASSUME NEW sl \in more
         PROVE  On(B, names, sl) # {} /\ (Single(Here(before, sl)) => ~Lasting(s, Here(before, sl)))
    <2>1. CASE sl \in freed
      BY <1>1, <1>13, <2>1
    <2>2. CASE sl \notin freed
      <3>1. sl = slot /\ ~kept
        BY <1>16, <2>2
      <3> QED
        BY <1>13, <1>17, <3>1
    <2> QED
      BY <2>1, <2>2
  <1>20. Snap(t, more, after.entries)
    <2> SUFFICES ASSUME NEW d \in t, <<d.actor, d.key>> \notin more
                 PROVE  Has(after.entries, d.id, d.actor, d.kind, d.key)
      BY DEF Snap
    <2>1. Has(db.entries, d.id, d.actor, d.kind, d.key)
      BY <1>1 DEF Snap
    <2>2. CASE <<d.actor, d.key>> = slot
      <3>1. d.actor = a /\ d.key = change.key /\ kept
        BY <1>15, <2>2 DEF slot
      <3> QED
        BY <1>12, <2>1, <3>1
    <2>3. CASE <<d.actor, d.key>> # slot
      <3>1. PICK r \in db.entries : r.id = d.id /\ r.actor = d.actor /\ r.kind = d.kind /\ r.key = d.key
        BY <2>1 DEF Has
      <3>2. r \in Outside(db.entries, {slot})
        BY <2>3, <3>1 DEF Outside
      <3>3. r \in after.entries
        BY <1>11, <3>2 DEF Outside
      <3> QED
        BY <3>1, <3>3 DEF Has
    <2> QED
      BY <2>2, <2>3
  <1>21. Stage(s, B, names, before, t, more, after)
    <2> HIDE DEF more
    <2> QED
      BY <1>11, <1>13, <1>18, <1>19, <1>20 DEF Stage, n
  <1> QED
    BY <1>21 DEF B, x, slot, a

\* What a turn remembers of a slot, whatever its rows were.
Keeps(s, A, I, was, now, slot) ==
    /\ I = {} => now = was
    /\ Single(was) => Remembers(s, A, I, was, now, slot)

\* What the audit of a turn remembers of every slot.
KeepsAll(s, A, names, before, t) ==
    \A slot : Keeps(s, A, On(A, names, slot), Here(before, slot), At(t, slot), slot)

LEMMA StageStarts ==
    ASSUME NEW s, NEW A, IsSeq(A), NEW names, NEW before, NEW t, IsTable(t, Len(names)),
           KeepsAll(s, A, names, before, t)
    PROVE  Stage(s, A, names, before, t, {}, Table(t))
  <1> DEFINE n == Len(names)
             db == Table(t)
  <1>1. IsDb(db, n) /\ db.entries = t /\ db.ok
    BY TableIs
  <1> HIDE DEF db
  <1>2. Keyed(t)
    BY DEF IsTable
  <1>3. Follows(db, t, n) /\ SameSlots(db, t)
    BY <1>1, <1>2 DEF Follows, SameSlots, IsDb, SameFamily, Keyed
  <1>4. Snap(t, {}, t)
    BY DEF Snap, Has
  <1>5. ASSUME NEW slot
        PROVE  Staged(s, A, On(A, names, slot), Here(before, slot), At(t, slot), At(t, slot), slot)
    <2> DEFINE I == On(A, names, slot)
               was == Here(before, slot)
               now == At(t, slot)
    <2>1. Keeps(s, A, I, was, now, slot)
      BY DEF KeepsAll
    <2> HIDE DEF I, was, now
    <2>2. ASSUME Single(was)
          PROVE  /\ Remembers(s, A, I, was, now, slot)
                 /\ KindsOf(now) \subseteq KindsOf(was) \cup Gone(A, I)
                 /\ Lasting(s, was) /\ (\E i \in I : A[i].prev # NoPrev) => now # {}
      <3>1. Remembers(s, A, I, was, now, slot)
        BY <2>1, <2>2 DEF Keeps
      <3>2. ASSUME NEW i \in I, A[i].prev # NoPrev, Lasting(s, was) PROVE now # {}
        <4>1. A[i].prev.kind \in KindsOf(now)
          BY <3>1, <3>2 DEF Remembers
        <4> QED
          BY <4>1 DEF KindsOf
      <3>3. KindsOf(now) \subseteq KindsOf(was) \cup Gone(A, I)
        BY <3>1 DEF Remembers
      <3> QED
        BY <3>1, <3>2, <3>3
    <2> QED
      BY <2>1, <2>2 DEF Keeps, Staged, I, was, now
  <1> QED
    BY <1>1, <1>3, <1>4, <1>5 DEF Stage, db

LEMMA RunsOk ==
    ASSUME NEW db, NEW ms, NEW after, Runs(db, ms, after), after.ok
    PROVE  db.ok
  BY PersistOk DEF Runs

LEMMA JoinedMore ==
    ASSUME NEW s, IsSeq(s), NEW q, IsSeq(q), NEW x
    PROVE  s \o Append(q, x) = Append(s \o q, x)
  <1>1. PICK U, V : s \in Seq(U) /\ q \in Seq(V)
    BY DEF IsSeq
  <1> DEFINE W == U \cup V \cup {x}
  <1>2. s \in Seq(W) /\ q \in Seq(W) /\ <<x>> \in Seq(W)
    BY <1>1
  <1>3. (s \o q) \o <<x>> = s \o (q \o <<x>>)
    BY <1>2, ConcatAssociative
  <1>4. q \o <<x>> = Append(q, x) /\ IsSeq(s \o q)
    BY Behind, Joined
  <1>5. (s \o q) \o <<x>> = Append(s \o q, x)
    BY <1>4, Behind
  <1> QED
    BY <1>3, <1>4, <1>5

\* So far a batch can be undone.
Good(s, A, names, before, t, p) ==
    /\ IsSeq(p.mutations) /\ IsSeq(p.audit)
    /\ Written(t, p.mutations).ok /\ (\A c \in Range(A) \cup Range(p.audit) : CanUndo(s, c)) =>
          Stage(s, A \o p.audit, names, before, t, p.freed, Written(t, p.mutations))

LEMMA GoodMore ==
    ASSUME NEW s, NEW names, IsSeq(names), NEW A, IsSeq(A), NEW before, NEW t, NEW p,
           Good(s, A, names, before, t, p), NEW change, IsRequest(change)
    PROVE  Good(s, A, names, before, t, Planned(p, change, names, t))
  <1> DEFINE a == ResolveActor(change.target, names)
             e == Found(t, p.freed, a, change.key)
             x == Audited(change, e)
             ms == PlanChange(change, a, e)
             free == IF e # NoPrev /\ (change.op = "remove" \/ Clashes(change, e)) THEN {<<a, change.key>>} ELSE {}
             q == PlanStep(p, change, a, e)
  <1>1. Planned(p, change, names, t) = IF change.target # "world" /\ a = World THEN p ELSE q
    BY PlanMoreCases DEF Planned
  <1>2. q.freed = p.freed \cup free /\ q.mutations = p.mutations \o ms /\ q.audit = Append(p.audit, x)
    BY DEF PlanStep
  <1>3. IsSeq(p.mutations) /\ IsSeq(p.audit)
    BY DEF Good
  <1>4. Runs(Written(t, p.mutations), ms, Written(t, p.mutations \o ms))
    BY <1>3, WrittenRuns
  <1>5. IsSeq(ms)
    <2>1. \/ ms = <<>>
          \/ \E m : ms = <<m>>
          \/ \E m1, m2 : ms = <<m1, m2>>
      BY PlanChangeShape
    <2> HIDE DEF ms
    <2> QED
      BY <2>1, Tuples, PairIs
  <1> HIDE DEF q, ms, x, free, e, a
  <1>6. IsSeq(q.mutations) /\ IsSeq(q.audit) /\ Range(q.audit) = Range(p.audit) \cup {x}
    BY <1>2, <1>3, <1>5, Joined, Appended
  <1>7. ASSUME Written(t, q.mutations).ok, \A c \in Range(A) \cup Range(q.audit) : CanUndo(s, c)
        PROVE  Stage(s, A \o q.audit, names, before, t, q.freed, Written(t, q.mutations))
    <2> DEFINE db == Written(t, p.mutations)
               after == Written(t, q.mutations)
    <2>1. Runs(db, ms, after) /\ after.ok
      BY <1>2, <1>4, <1>7
    <2>2. db.ok
      BY <2>1, RunsOk
    <2>3. \A c \in Range(A) \cup Range(p.audit) \cup {x} : CanUndo(s, c)
      BY <1>6, <1>7
    <2>4. Stage(s, A \o p.audit, names, before, t, p.freed, db)
      BY <2>2, <2>3 DEF Good
    <2>5. Range(A \o p.audit) = Range(A) \cup Range(p.audit)
      BY <1>3, Joined
    <2> HIDE DEF db, after
    <2> DEFINE B == A \o p.audit
    <2>6. \A c \in Range(B) \cup {x} : CanUndo(s, c)
      BY <2>3, <2>5
    <2>7. A \o q.audit = Append(B, x)
      BY <1>2, <1>3, JoinedMore
    <2> HIDE DEF B
    <2>8. Stage(s, B, names, before, t, p.freed, db)
      BY <2>4 DEF B
    <2>9. e = Found(t, p.freed, ResolveActor(change.target, names), change.key)
      BY DEF e, a
    <2>10. Runs(db, PlanChange(change, ResolveActor(change.target, names), e), after)
      BY <2>1 DEF ms, a
    <2>11. \A c \in Range(B) \cup {Audited(change, e)} : CanUndo(s, c)
      BY <2>6 DEF x
    <2>12. Stage(s, Append(B, Audited(change, e)), names, before, t,
                 p.freed \cup (IF e # NoPrev /\ (change.op = "remove" \/ Clashes(change, e))
                               THEN {<<ResolveActor(change.target, names), change.key>>} ELSE {}), after)
      BY <2>1, <2>8, <2>9, <2>10, <2>11, StageMore
    <2> QED
      BY <1>2, <2>7, <2>12 DEF x, free, a, after
  <1>8. Good(s, A, names, before, t, q)
    BY <1>6, <1>7 DEF Good
  <1> QED
    BY <1>1, <1>8

\* A batch whose statements are run and whose changes can be undone is remembered.
LEMMA BatchKeeps ==
    ASSUME NEW s, NEW actors0, IsSeq(actors0), NEW b, IsBatch(b), NEW t, IsTable(t, Len(actors0)),
           NEW A, IsSeq(A), NEW before, KeepsAll(s, A, Vivified(b, actors0), before, t),
           ApplyStateChanges(b, actors0, t).table.ok,
           \A c \in Range(A) \cup Range(ApplyStateChanges(b, actors0, t).audit) : CanUndo(s, c)
    PROVE  KeepsAll(s, A \o ApplyStateChanges(b, actors0, t).audit, Vivified(b, actors0), before,
                    ApplyStateChanges(b, actors0, t).table.entries)
  <1> DEFINE applied == ApplyStateChanges(b, actors0, t)
             names == Vivified(b, actors0)
             plan == PlanStateChanges(b, actors0, t)
             m == Len(b)
             OK(p) == Good(s, A, names, before, t, p)
  <1>1. /\ Extends(names, actors0) /\ IsTable(t, Len(names))
        /\ applied.table = Written(t, plan.mutations) /\ applied.audit = plan.audit
    BY AppliedIs
  <1>2. PICK f : /\ f = [i \in 0..m |-> IF i = 0 THEN NoPlan ELSE Planned(f[i - 1], b[i], names, t)]
                 /\ plan = f[m]
    BY PlanIs DEF IsBatch
  <1>3. m \in Nat /\ \A i \in 1..m : IsRequest(b[i])
    BY SeqIs DEF IsBatch, Range
  <1>4. IsSeq(names)
    BY <1>1 DEF Extends
  <1> HIDE DEF applied, names, plan, m
  <1>5. OK(NoPlan)
    <2>1. NoPlan.mutations = <<>> /\ NoPlan.audit = <<>> /\ NoPlan.freed = {}
      BY DEF NoPlan
    <2>2. A \o <<>> = A /\ Written(t, <<>>) = Table(t) /\ IsSeq(<<>>)
      BY Behind, WrittenNone, Tuples
    <2>3. Stage(s, A, names, before, t, {}, Table(t))
      BY <1>1, StageStarts DEF names
    <2> QED
      BY <2>1, <2>2, <2>3 DEF Good
  <1>6. ASSUME NEW p, OK(p), NEW i \in 1..m PROVE OK(Planned(p, b[i], names, t))
    BY <1>3, <1>4, <1>6, GoodMore
  <1> HIDE DEF OK
  <1> DEFINE S == {i \in 0..m : OK(f[i])}
  <1>7. 0 \in S
    BY <1>2, <1>3, <1>5
  <1>8. ASSUME NEW i \in 1..m, i - 1 \in S PROVE i \in S
    <2>1. f[i] = Planned(f[i - 1], b[i], names, t) /\ i \in 0..m
      BY <1>2, <1>3
    <2> QED
      BY <1>6, <1>8, <2>1
  <1>9. OK(plan)
    <2> HIDE DEF S
    <2>1. 0..m \subseteq S
      BY <1>3, <1>7, <1>8, UpTo
    <2>2. m \in S
      BY <1>3, <2>1
    <2> QED
      BY <1>2, <2>2 DEF S
  <1>10. Written(t, plan.mutations).ok /\ \A c \in Range(A) \cup Range(plan.audit) : CanUndo(s, c)
    BY <1>1 DEF applied
  <1>11. Stage(s, A \o plan.audit, names, before, t, plan.freed, Written(t, plan.mutations))
    BY <1>9, <1>10 DEF Good, OK
  <1>12. KeepsAll(s, A \o plan.audit, names, before, Written(t, plan.mutations).entries)
    BY <1>11 DEF Stage, Staged, KeepsAll, Keeps
  <1> QED
    BY <1>1, <1>12 DEF applied, names

-----------------------------------------------------------------------------
(* What the turns remember                                                   *)

Ready(s, turn) == turn.intact /\ \A c \in Range(turn.audit) : CanUndo(s, c)

\* The audit of a turn leads from the rows it found to those that are shown now.
TurnKeeps(s, turn, names, shown) ==
    Ready(s, turn) =>
        \A slot : Keeps(s, turn.audit, On(turn.audit, names, slot), Here(turn.before, slot), Here(shown, slot), slot)

\* The rows that a turn left: those the next one found.
Left(all, i, t) == IF i = Len(all) THEN Visible(t) ELSE all[i + 1].before
ChainKeeps(s, all, names, t) == \A i \in DOMAIN all : TurnKeeps(s, all[i], names, Left(all, i, t))

\* As long as no actor is renamed, the turns of a chat or a game are such a chain.
RestInv == renames = 0 /\ scope # "story" => ChainKeeps(scope, turns, actors, entries)

LEMMA ShownAt == \A t, slot : At(t, slot) = Here(Visible(t), slot)
  BY DEF At, Here

LEMMA SameHere ==
    ASSUME NEW u, NEW v, \A slot : Here(u, slot) = Here(v, slot)
    PROVE  u = v
  <1>1. \A r : /\ r \in u <=> r \in Here(u, <<r.actor, r.key>>)
               /\ r \in v <=> r \in Here(v, <<r.actor, r.key>>)
    BY DEF Here
  <1>2. \A r : r \in u <=> r \in v
    BY <1>1
  <1> QED
    BY <1>2

LEMMA NothingOn == \A names, slot : On(<<>>, names, slot) = {}
  <1>1. DOMAIN <<>> = {}
    OBVIOUS
  <1> QED
    BY <1>1 DEF On

LEMMA OnStays ==
    ASSUME NEW A, NEW names, IsSeq(names), NEW more, Extends(more, names),
           \A c \in Range(A) : c.target \in {"world"} \cup Range(names), NEW slot
    PROVE  On(A, more, slot) = On(A, names, slot)
  <1>1. \A i \in DOMAIN A : ResolveActor(A[i].target, more) = ResolveActor(A[i].target, names)
    <2> SUFFICES ASSUME NEW i \in DOMAIN A PROVE ResolveActor(A[i].target, more) = ResolveActor(A[i].target, names)
      OBVIOUS
    <2>1. A[i].target \in {"world"} \cup Range(names)
      BY DEF Range
    <2> QED
      BY <2>1, ResolveStays
  <1> QED
    BY <1>1 DEF On, SlotOf

LEMMA TurnKeepsMore ==
    ASSUME NEW s, NEW turn, NEW names, IsSeq(names), NEW more, Extends(more, names), StaysIn(turn, names),
           NEW shown, TurnKeeps(s, turn, names, shown)
    PROVE  TurnKeeps(s, turn, more, shown)
  <1>1. \A c \in Range(turn.audit) : c.target \in {"world"} \cup Range(names)
    BY DEF StaysIn
  <1>2. \A slot : On(turn.audit, more, slot) = On(turn.audit, names, slot)
    BY <1>1, OnStays
  <1> QED
    BY <1>2 DEF TurnKeeps

\* A turn without changes leads nowhere.
LEMMA IdleKeeps ==
    ASSUME NEW s, NEW turn, turn.audit = <<>>, NEW names
    PROVE  /\ TurnKeeps(s, turn, names, turn.before)
           /\ \A shown : turn.intact /\ TurnKeeps(s, turn, names, shown) => shown = turn.before
  <1>1. \A slot : On(turn.audit, names, slot) = {}
    BY NothingOn
  <1>2. Range(turn.audit) = {}
    BY Tuples
  <1>3. ASSUME NEW was, NEW slot PROVE Keeps(s, turn.audit, {}, was, was, slot)
    BY DEF Keeps, Remembers
  <1>4. ASSUME NEW shown, turn.intact, TurnKeeps(s, turn, names, shown) PROVE shown = turn.before
    <2>1. Ready(s, turn)
      BY <1>2, <1>4 DEF Ready
    <2>2. \A slot : Keeps(s, turn.audit, {}, Here(turn.before, slot), Here(shown, slot), slot)
      BY <1>1, <1>4, <2>1 DEF TurnKeeps
    <2>3. \A slot : Here(shown, slot) = Here(turn.before, slot)
      BY <2>2 DEF Keeps
    <2> QED
      BY <2>3, SameHere
  <1> QED
    BY <1>1, <1>3, <1>4 DEF TurnKeeps

\* Undoing a tame turn.
LEMMA TameRestores ==
    ASSUME NEW names, IsSeq(names), NEW t, IsTable(t, Len(names)), NEW turn, IsTurn(turn), Tame(turn),
           TurnKeeps(scope, turn, names, Visible(t))
    PROVE  LET reverted == RevertStateChanges(scope, turn.audit, names, t)
           IN reverted.ok /\ Visible(reverted.entries) = turn.before
  <1> DEFINE A == turn.audit
             before == turn.before
  <1>1. IsAudit(A)
    BY DEF IsTurn
  <1>2. Ready(scope, turn) /\ \A c \in Range(A) : CanUndo(scope, c)
    BY UndoableIs DEF Tame, Ready
  <1>3. \A slot : Keeps(scope, A, On(A, names, slot), Here(before, slot), At(t, slot), slot)
    BY <1>2, ShownAt DEF TurnKeeps
  <1>4. AtMostOneEntryPerSlot(before)
    BY DEF Tame
  <1> HIDE DEF A, before
  <1>5. ASSUME NEW slot PROVE Tracks(scope, A, On(A, names, slot), Here(before, slot), At(t, slot), slot)
    <2>1. Single(Here(before, slot))
      <3> SUFFICES ASSUME NEW v \in Here(before, slot), NEW w \in Here(before, slot) PROVE v = w
        BY DEF Single
      <3>1. v \in before /\ w \in before /\ v.actor = w.actor /\ v.key = w.key
        BY DEF Here
      <3> QED
        BY <1>4, <3>1 DEF AtMostOneEntryPerSlot
    <2>2. On(A, names, slot) \subseteq Nat /\ \A i \in On(A, names, slot) : CanUndo(scope, A[i])
      BY <1>1, <1>2, SeqIs DEF On, IsAudit, Range
    <2> QED
      BY <1>3, <2>1, <2>2 DEF Keeps, Tracks
  <1>6. Tracked(scope, A, names, before, t)
    BY <1>5 DEF Tracked
  <1> QED
    BY <1>1, <1>6, RevertRestores DEF A, before

\* The first turns of a chain, in a table that looks as the last of them left it.
LEMMA ChainCut ==
    ASSUME NEW s, NEW all, IsSeq(all), NEW names, NEW t, ChainKeeps(s, all, names, t), NEW i \in 0..Len(all),
           NEW u, Visible(u) = Left(all, i, t)
    PROVE  ChainKeeps(s, SubSeq(all, 1, i), names, u)
  <1> DEFINE part == SubSeq(all, 1, i)
  <1>1. Len(all) \in Nat /\ DOMAIN all = 1..Len(all)
    BY SeqIs
  <1>2. /\ Len(part) = (IF 1 <= i THEN i - 1 + 1 ELSE 0) /\ DOMAIN part = 1..Len(part)
        /\ \A k \in DOMAIN part : 1 + k - 1 \in DOMAIN all /\ part[k] = all[1 + k - 1]
    BY Part
  <1>3. /\ Len(part) = i /\ DOMAIN part = 1..i /\ \A k \in 1..i : k \in DOMAIN all /\ part[k] = all[k]
    BY <1>1, <1>2
  <1> HIDE DEF part
  <1>4. ASSUME NEW k \in 1..i PROVE TurnKeeps(s, part[k], names, Left(part, k, u))
    <2>1. TurnKeeps(s, part[k], names, Left(all, k, t))
      BY <1>3 DEF ChainKeeps
    <2>2. CASE k = i
      BY <1>3, <2>1, <2>2 DEF Left
    <2>3. CASE k # i
      <3>1. k \in Int /\ i \in Int /\ 1 <= k /\ k < i /\ i <= Len(all)
        BY <1>1, <2>3
      <3>2. k + 1 \in 1..i /\ k # Len(all)
        <4>1. k + 1 \in Int /\ 1 <= k + 1 /\ k + 1 <= i
          BY <3>1
        <4>2. Len(all) \in Int
          BY <1>1
        <4>3. k < Len(all)
          BY <3>1, <4>2
        <4> QED
          BY <3>1, <4>1, <4>2, <4>3
      <3>3. Left(part, k, u) = Left(all, k, t)
        BY <1>3, <2>3, <3>2 DEF Left
      <3> QED
        BY <2>1, <3>3
    <2> QED
      BY <2>2, <2>3
  <1> QED
    BY <1>3, <1>4 DEF ChainKeeps, part

LEMMA SpoiltKeeps ==
    ASSUME NEW s, NEW all, AreTurns(all), NEW names, NEW t
    PROVE  ChainKeeps(s, Spoilt(all), names, t)
  <1>1. AreTurns(Spoilt(all)) /\ Len(Spoilt(all)) = Len(all)
        /\ \A i \in DOMAIN all : Spoilt(all)[i] = Turn(all[i].audit, all[i].before, all[i].slots, FALSE)
    BY SpoiltIs
  <1>2. DOMAIN Spoilt(all) = DOMAIN all
    BY <1>1, SeqIs DEF AreTurns
  <1>3. ASSUME NEW i \in DOMAIN all PROVE ~Spoilt(all)[i].intact
    <2> DEFINE no == FALSE
    <2>1. Spoilt(all)[i] = Turn(all[i].audit, all[i].before, all[i].slots, no)
      BY <1>1
    <2>2. ~no
      OBVIOUS
    <2> HIDE DEF no
    <2>3. Spoilt(all)[i].intact = no
      BY <2>1, TurnIs
    <2> QED
      BY <2>2, <2>3
  <1> QED
    BY <1>2, <1>3 DEF ChainKeeps, TurnKeeps, Ready

-----------------------------------------------------------------------------
(* The turns stay a chain                                                    *)

\* A turn that a batch may be of: a new one, or the last if it is that or has none yet.
LastOrNew(i, turn) ==
    \/ i = Len(turns) + 1 /\ turn = NewTurn
    \/ i \in DOMAIN turns /\ i = Len(turns) /\ turns[i].audit = <<>> /\ turns[i].intact /\ turn = NewTurn
    \/ i \in DOMAIN turns /\ i = Len(turns) /\ turn = turns[i]

\* A batch starts from the rows that its turn and those before it left.
LEMMA RestFound ==
    ASSUME HistoryInv, ChainKeeps(scope, turns, actors, entries), NEW i \in Nat, NEW turn, LastOrNew(i, turn)
    PROVE  /\ TurnKeeps(scope, turn, actors, Visible(entries))
           /\ \A k \in DOMAIN turns : k < i =>
                 Left(turns, k, entries) = IF k + 1 = i THEN turn.before ELSE turns[k + 1].before
  <1>1. NewTurn.audit = <<>> /\ NewTurn.before = Visible(entries)
    BY NewTurnIs
  <1>2. Len(turns) \in Nat /\ DOMAIN turns = 1..Len(turns)
    BY SeqIs DEF HistoryInv, AreTurns
  <1>3. TurnKeeps(scope, NewTurn, actors, Visible(entries))
    BY <1>1, IdleKeeps
  <1>4. CASE i = Len(turns) + 1 /\ turn = NewTurn
    <2>1. ASSUME NEW k \in DOMAIN turns, k < i
          PROVE  Left(turns, k, entries) = IF k + 1 = i THEN turn.before ELSE turns[k + 1].before
      <3>1. k = Len(turns) <=> k + 1 = i
        BY <1>2, <1>4
      <3> QED
        BY <1>1, <1>4, <3>1 DEF Left
    <2> QED
      BY <1>3, <1>4, <2>1
  <1>5. ASSUME i \in DOMAIN turns, i = Len(turns), TurnKeeps(scope, turn, actors, Visible(entries)),
               turn.before = turns[i].before
        PROVE  /\ TurnKeeps(scope, turn, actors, Visible(entries))
               /\ \A k \in DOMAIN turns : k < i =>
                     Left(turns, k, entries) = IF k + 1 = i THEN turn.before ELSE turns[k + 1].before
    BY <1>2, <1>5 DEF Left
  <1>6. ASSUME i \in DOMAIN turns, i = Len(turns) PROVE TurnKeeps(scope, turns[i], actors, Visible(entries))
    BY <1>6 DEF ChainKeeps, Left
  <1>7. CASE i \in DOMAIN turns /\ i = Len(turns) /\ turns[i].audit = <<>> /\ turns[i].intact /\ turn = NewTurn
    <2>1. Visible(entries) = turns[i].before
      BY <1>6, <1>7, IdleKeeps
    <2> QED
      BY <1>1, <1>3, <1>5, <1>7, <2>1
  <1>8. CASE i \in DOMAIN turns /\ i = Len(turns) /\ turn = turns[i]
    BY <1>5, <1>6, <1>8
  <1> QED
    BY <1>4, <1>7, <1>8 DEF LastOrNew

\* What is applied belongs to what the turn remembers.
LEMMA AfterKeeps ==
    ASSUME HistoryInv, NEW batch \in Batches[scope], NEW turn, IsTurn(turn), StaysIn(turn, actors),
           TurnKeeps(scope, turn, actors, Visible(entries))
    PROVE  LET applied == ApplyStateChanges(batch, actors, entries)
           IN TurnKeeps(scope, After(turn, batch, applied), applied.actors, Visible(applied.table.entries))
  <1> DEFINE applied == ApplyStateChanges(batch, actors, entries)
             known == Vivified(batch, actors)
             A == turn.audit
             ok == applied.table.ok
             audit == IF ok THEN A \o applied.audit ELSE A
             slots == turn.slots \cup SlotsOf(batch, applied.actors)
             intact == turn.intact /\ ok
             after == After(turn, batch, applied)
  <1>1. IsSeq(actors) /\ IsTable(entries, Len(actors)) /\ IsBatch(batch)
    BY BatchIs DEF HistoryInv
  <1>2. applied.actors = known /\ Extends(known, actors) /\ IsAudit(applied.audit)
    BY <1>1, AppliedIs
  <1>3. IsSeq(A)
    BY DEF IsTurn, IsAudit
  <1>4. TurnKeeps(scope, turn, known, Visible(entries))
    BY <1>1, <1>2, TurnKeepsMore
  <1>5. after = Turn(audit, turn.before, slots, intact)
    BY DEF After
  <1> HIDE DEF slots, intact, audit, after
  <1>6. after.audit = audit /\ after.before = turn.before /\ after.intact = intact
    BY <1>5, TurnIs
  <1> HIDE DEF applied, known, A
  <1>7. SUFFICES ASSUME Ready(scope, after)
                 PROVE  KeepsAll(scope, audit, known, turn.before, applied.table.entries)
    BY <1>2, <1>6, ShownAt DEF TurnKeeps, KeepsAll, applied, after
  <1>8. turn.intact /\ ok /\ audit = A \o applied.audit
    BY <1>6, <1>7 DEF Ready, intact, audit
  <1>9. Range(audit) = Range(A) \cup Range(applied.audit)
    BY <1>2, <1>3, <1>8, Joined DEF IsAudit
  <1>10. \A c \in Range(A) \cup Range(applied.audit) : CanUndo(scope, c)
    BY <1>6, <1>7, <1>9 DEF Ready
  <1>11. Ready(scope, turn)
    BY <1>8, <1>10 DEF Ready, A
  <1>12. KeepsAll(scope, A, known, turn.before, entries)
    BY <1>4, <1>11, ShownAt DEF TurnKeeps, KeepsAll, A
  <1>13. KeepsAll(scope, A \o applied.audit, known, turn.before, applied.table.entries)
    BY <1>1, <1>3, <1>8, <1>10, <1>12, BatchKeeps DEF applied, known
  <1> QED
    BY <1>8, <1>13

LEMMA RestApply ==
    ASSUME HistoryInv, SlotsInv, RestInv, NEW batch \in Batches[scope], NEW i \in Nat, NEW turn,
           LastOrNew(i, turn), Apply(batch, i, turn)
    PROVE  RestInv'
  <1> DEFINE applied == ApplyStateChanges(batch, actors, entries)
             after == After(turn, batch, applied)
  <1>1. Len(turns) \in Nat /\ DOMAIN turns = 1..Len(turns) /\ AreTurns(turns) /\ IsSeq(actors)
    BY SeqIs DEF HistoryInv, AreTurns
  <1>2. IsTurn(turn) /\ i \in 1..Len(turns) + 1 /\ (renames = 0 => StaysIn(turn, actors))
    <2>1. IsTurn(NewTurn) /\ StaysIn(NewTurn, actors)
      BY NewTurnIs, Tuples DEF StaysIn
    <2>2. \A k \in DOMAIN turns : IsTurn(turns[k]) /\ (renames = 0 => StaysIn(turns[k], actors))
      BY <1>1 DEF AreTurns, SlotsInv
    <2>3. turn = NewTurn \/ \E k \in DOMAIN turns : turn = turns[k]
      BY DEF LastOrNew
    <2>4. i = Len(turns) + 1 \/ i \in DOMAIN turns
      BY DEF LastOrNew
    <2>5. i \in 1..Len(turns) + 1
      BY <1>1, <2>4
    <2> QED
      BY <2>1, <2>2, <2>3, <2>5
  <1>3. /\ entries' = applied.table.entries /\ actors' = applied.actors
        /\ turns' = Put(turns, i, after) /\ IsTurn(after)
        /\ UNCHANGED <<scope, renames>>
    BY <1>2, ApplyIs
  <1>4. SUFFICES ASSUME renames = 0, scope # "story"
                 PROVE  ChainKeeps(scope, turns', actors', entries')
    BY <1>3 DEF RestInv
  <1>5. ChainKeeps(scope, turns, actors, entries)
    BY <1>4 DEF RestInv
  <1>6. /\ TurnKeeps(scope, turn, actors, Visible(entries))
        /\ \A k \in DOMAIN turns : k < i =>
              Left(turns, k, entries) = IF k + 1 = i THEN turn.before ELSE turns[k + 1].before
    BY <1>5, RestFound
  <1>7. TurnKeeps(scope, after, actors', Visible(entries'))
    BY <1>2, <1>3, <1>4, <1>6, AfterKeeps
  <1>8. Extends(actors', actors)
    BY <1>1, <1>3, BatchIs, AppliedIs DEF HistoryInv
  <1>9. after.before = turn.before
    BY TurnIs DEF After
  <1> HIDE DEF after, applied
  <1>10. /\ Len(turns') = i /\ DOMAIN turns' = 1..i /\ turns'[i] = after
         /\ \A k \in 1..i : k # i => k \in DOMAIN turns /\ turns'[k] = turns[k]
    <2>1. /\ Len(Put(turns, i, after)) = (IF i = Len(turns) + 1 THEN i ELSE Len(turns))
          /\ DOMAIN Put(turns, i, after) = 1..(IF i = Len(turns) + 1 THEN i ELSE Len(turns))
          /\ Put(turns, i, after)[i] = after
          /\ \A k \in DOMAIN Put(turns, i, after) \ {i} : k \in DOMAIN turns /\ Put(turns, i, after)[k] = turns[k]
      BY <1>1, <1>2, <1>3, MoreTurns
    <2>2. i = Len(turns) + 1 \/ i = Len(turns)
      BY DEF LastOrNew
    <2> QED
      BY <1>3, <2>1, <2>2
  <1>11. ASSUME NEW k \in 1..i PROVE TurnKeeps(scope, turns'[k], actors', Left(turns', k, entries'))
    <2>1. CASE k = i
      BY <1>7, <1>10, <2>1 DEF Left
    <2>2. CASE k # i
      <3>1. k \in DOMAIN turns /\ turns'[k] = turns[k] /\ k \in Int /\ k < i /\ k + 1 \in 1..i
        BY <1>10, <2>2
      <3>2. Left(turns', k, entries') = IF k + 1 = i THEN turn.before ELSE turns[k + 1].before
        <4>1. Left(turns', k, entries') = turns'[k + 1].before
          BY <1>10, <2>2 DEF Left
        <4> QED
          BY <1>9, <1>10, <3>1, <4>1
      <3>3. Left(turns', k, entries') = Left(turns, k, entries)
        BY <1>6, <3>1, <3>2
      <3>4. StaysIn(turns[k], actors) /\ TurnKeeps(scope, turns[k], actors, Left(turns, k, entries))
        BY <1>4, <1>5, <3>1 DEF SlotsInv, ChainKeeps
      <3>5. TurnKeeps(scope, turns[k], actors', Left(turns, k, entries))
        BY <1>1, <1>8, <3>4, TurnKeepsMore
      <3> QED
        BY <3>1, <3>3, <3>5
    <2> QED
      BY <2>1, <2>2
  <1> QED
    BY <1>10, <1>11 DEF ChainKeeps

\* Regenerating the last turn.
LEMMA RestRegenerate ==
    ASSUME HistoryInv, RestInv, NEW i, Regenerate(i)
    PROVE  /\ RestInv'
           /\ scope # "story" /\ renames = 0 /\ Tame(turns[i]) => Visible(entries') = turns[i].before
  <1> DEFINE reverted == RevertStateChanges(scope, turns[i].audit, actors, entries)
             forgot == [turns EXCEPT ![i].audit = <<>>]
             after == IF reverted.ok THEN forgot ELSE turns
  <1>1. /\ i \in DOMAIN turns /\ entries' = reverted.entries /\ AreTurns(after)
        /\ turns' = IF reverted.ok /\ Tame(turns[i]) THEN after ELSE Spoilt(after)
        /\ UNCHANGED <<scope, actors, renames>>
    BY RegenerateIs
  <1>2. /\ AreTurns(turns) /\ IsSeq(actors) /\ IsTable(entries, Len(actors))
        /\ Len(turns) \in Nat /\ DOMAIN turns = 1..Len(turns)
    BY SeqIs DEF HistoryInv, AreTurns
  <1>3. scope # "story" => i = Len(turns)
    BY DEF Regenerate, Regenerable
  <1>4. ASSUME scope # "story", renames = 0, Tame(turns[i])
        PROVE  reverted.ok /\ Visible(entries') = turns[i].before
    <2>1. TurnKeeps(scope, turns[i], actors, Visible(entries))
      <3>1. ChainKeeps(scope, turns, actors, entries)
        BY <1>4 DEF RestInv
      <3> QED
        BY <1>1, <1>3, <1>4, <3>1 DEF ChainKeeps, Left
    <2>2. IsTurn(turns[i])
      BY <1>1, <1>2 DEF AreTurns
    <2>3. reverted.ok /\ Visible(reverted.entries) = turns[i].before
      BY <1>2, <1>4, <2>1, <2>2, TameRestores
    <2> QED
      BY <1>1, <2>3
  <1>5. /\ Len(forgot) = Len(turns) /\ AreTurns(forgot)
        /\ forgot[i] = Turn(<<>>, turns[i].before, turns[i].slots, turns[i].intact)
        /\ \A k \in DOMAIN turns \ {i} : forgot[k] = turns[k]
    BY <1>1, <1>2, NoAudit
  <1> HIDE DEF reverted, forgot
  <1>6. ASSUME scope # "story", renames = 0, Tame(turns[i]) PROVE ChainKeeps(scope, turns', actors, entries')
    <2>1. turns' = forgot /\ DOMAIN forgot = DOMAIN turns
      BY <1>1, <1>2, <1>4, <1>5, <1>6, SeqIs DEF AreTurns
    <2>2. forgot[i].audit = <<>> /\ forgot[i].before = turns[i].before
      BY <1>5, TurnIs
    <2>3. ASSUME NEW k \in DOMAIN turns PROVE TurnKeeps(scope, forgot[k], actors, Left(forgot, k, entries'))
      <3>1. CASE k = i
        <4>1. Left(forgot, k, entries') = forgot[i].before
          BY <1>3, <1>4, <1>5, <1>6, <2>2, <3>1 DEF Left
        <4> QED
          BY <2>2, <3>1, <4>1, IdleKeeps
      <3>2. CASE k # i
        <4>1. k + 1 \in DOMAIN turns /\ k # Len(turns)
          BY <1>2, <1>3, <1>6, <3>2
        <4>2. forgot[k + 1].before = turns[k + 1].before
          BY <1>5, <2>2, <4>1
        <4>3. Left(forgot, k, entries') = Left(turns, k, entries)
          BY <1>5, <4>1, <4>2 DEF Left
        <4>4. TurnKeeps(scope, turns[k], actors, Left(turns, k, entries))
          BY <1>6 DEF RestInv, ChainKeeps
        <4> QED
          BY <1>5, <3>2, <4>3, <4>4
      <3> QED
        BY <3>1, <3>2
    <2> QED
      BY <2>1, <2>3 DEF ChainKeeps
  <1>7. RestInv'
    <2> SUFFICES ASSUME renames = 0, scope # "story" PROVE ChainKeeps(scope, turns', actors, entries')
      BY <1>1 DEF RestInv
    <2>1. CASE Tame(turns[i])
      BY <1>6, <2>1
    <2>2. CASE ~Tame(turns[i])
      <3>1. turns' = Spoilt(after)
        BY <1>1, <2>2
      <3> HIDE DEF after
      <3> QED
        BY <1>1, <3>1, SpoiltKeeps
    <2> QED
      BY <2>1, <2>2
  <1> QED
    BY <1>4, <1>7

\* Undoing the tame turns behind the i-th.
LEMMA RestUndo ==
    ASSUME HistoryInv, ChainKeeps(scope, turns, actors, entries), NEW i \in Nat, i < Len(turns),
           \A k \in i + 1..Len(turns) : Tame(turns[k])
    PROVE  LET reverted == UndoTurns(SubSeq(turns, i + 1, Len(turns)))
           IN reverted.ok /\ Visible(reverted.entries) = turns[i + 1].before
  <1> DEFINE n == Len(turns)
             undone == SubSeq(turns, i + 1, n)
             j == Len(undone)
             Back(m, db) == /\ db.ok /\ IsTable(db.entries, Len(actors))
                            /\ Visible(db.entries) = Left(turns, n - m, entries)
  <1>0. i < n /\ i \in Int
    OBVIOUS
  <1>1. /\ n \in Nat /\ DOMAIN turns = 1..n /\ AreTurns(turns) /\ IsSeq(turns)
        /\ IsSeq(actors) /\ IsTable(entries, Len(actors))
    BY SeqIs DEF HistoryInv, AreTurns
  <1>2. /\ IsSeq(undone) /\ j = n - i /\ j \in Nat
        /\ \A m \in 1..j : undone[m] = turns[i + m]
    <2>1. i + 1 \in Nat \ {0} /\ n \in 0..n
      BY <1>1
    <2>2. /\ IsSeq(undone) /\ Len(undone) = (IF i + 1 <= n THEN n - (i + 1) + 1 ELSE 0)
          /\ DOMAIN undone = 1..Len(undone)
          /\ \A m \in DOMAIN undone : undone[m] = turns[(i + 1) + m - 1]
      BY <1>1, <2>1, Part
    <2> HIDE DEF n, undone
    <2>3. j = n - i /\ j \in Nat
      <3>1. i + 1 <= n /\ n - (i + 1) + 1 = n - i /\ n - i \in Nat
        BY <1>0, <1>1
      <3> QED
        BY <2>2, <3>1
    <2>4. \A m \in 1..j : (i + 1) + m - 1 = i + m
      BY <2>3
    <2> QED
      BY <2>2, <2>3, <2>4
  <1>3. PICK f : /\ f = [m \in 0..j |-> IF m = 0 THEN Table(entries) ELSE UndoTurn(undone[j + 1 - m], f[m - 1])]
                 /\ UndoTurns(undone) = f[j]
    BY <1>2, UndoneIs
  <1> HIDE DEF n, undone, j
  <1> DEFINE S == {m \in 0..j : Back(m, f[m])}
  <1>4. 0 \in S
    <2>1. f[0] = Table(entries) /\ n - 0 = n
      BY <1>1, <1>2, <1>3
    <2>2. Table(entries).ok /\ Table(entries).entries = entries
      BY <1>1, TableIs
    <2>3. Left(turns, n, entries) = Visible(entries)
      BY DEF Left, n
    <2> QED
      BY <1>1, <1>2, <2>1, <2>2, <2>3
  <1>5. ASSUME NEW m \in 1..j, m - 1 \in S PROVE m \in S
    <2> DEFINE k == n + 1 - m
               turn == turns[k]
               db == f[m - 1]
    <2>1. /\ j + 1 - m \in 1..j /\ i + (j + 1 - m) = k /\ k \in 1..n /\ k \in i + 1..n
          /\ n - (m - 1) = k /\ n - m = k - 1 /\ m \in 0..j /\ k - 1 # n /\ (k - 1) + 1 = k
      BY <1>1, <1>2
    <2>2. undone[j + 1 - m] = turn
      BY <1>2, <2>1
    <2>3. f[m] = UndoTurn(turn, db)
      <3>1. m # 0 /\ m \in 0..j
        BY <1>2, <2>1
      <3>2. f[m] = UndoTurn(undone[j + 1 - m], f[m - 1])
        BY <1>3, <3>1
      <3> QED
        BY <2>2, <3>2
    <2>4. db.ok /\ IsTable(db.entries, Len(actors)) /\ Visible(db.entries) = Left(turns, k, entries)
      BY <1>5, <2>1
    <2>5. TurnKeeps(scope, turn, actors, Visible(db.entries)) /\ Tame(turn) /\ IsTurn(turn)
      <3>1. k \in DOMAIN turns
        BY <1>1, <2>1
      <3>2. IsTurn(turns[k])
        BY <1>1, <3>1 DEF AreTurns
      <3>3. Tame(turns[k])
        BY <2>1 DEF n
      <3>4. TurnKeeps(scope, turns[k], actors, Left(turns, k, entries))
        BY <3>1 DEF ChainKeeps
      <3> QED
        BY <2>4, <3>2, <3>3, <3>4
    <2> HIDE DEF k, turn, db
    <2>6. f[m] = RevertStateChanges(scope, turn.audit, actors, db.entries)
      BY <2>3, <2>4 DEF UndoTurn
    <2>7. f[m].ok /\ Visible(f[m].entries) = turn.before
      BY <1>1, <2>4, <2>5, <2>6, TameRestores
    <2>8. IsTable(f[m].entries, Len(actors))
      <3>1. IsAudit(turn.audit)
        BY <2>5 DEF IsTurn
      <3>2. IsDb(f[m], Len(actors))
        BY <1>1, <2>4, <2>6, <3>1, RevertedIsTable
      <3> QED
        BY <3>2 DEF IsDb
    <2>9. Left(turns, n - m, entries) = turn.before
      BY <2>1 DEF Left, n, turn
    <2> QED
      BY <2>1, <2>7, <2>8, <2>9
  <1>6. Back(j, f[j])
    <2> HIDE DEF S
    <2>1. 0..j \subseteq S
      BY <1>2, <1>4, <1>5, UpTo
    <2>2. j \in S
      BY <1>2, <2>1
    <2> QED
      BY <2>2 DEF S
  <1>7. Left(turns, n - j, entries) = turns[i + 1].before
    <2>1. n - j = i /\ i # n
      BY <1>0, <1>1, <1>2
    <2> QED
      BY <2>1 DEF Left, n
  <1> QED
    BY <1>3, <1>6, <1>7 DEF undone, n

LEMMA RestRewindGame ==
    ASSUME HistoryInv, RestInv, NEW i \in Nat, RewindGame(i)
    PROVE  /\ RestInv'
           /\ (\A k \in i + 1..Len(turns) : Tame(turns[k])) /\ renames = 0 =>
                 Visible(entries') = turns[i + 1].before
  <1> DEFINE undone == SubSeq(turns, i + 1, Len(turns))
             reverted == UndoTurns(undone)
             first == SubSeq(turns, 1, i)
             after == IF reverted.ok THEN first ELSE turns
             tame == \A k \in i + 1..Len(turns) : Tame(turns[k])
  <1>1. /\ i < Len(turns) /\ entries' = reverted.entries /\ AreTurns(after)
        /\ turns' = IF reverted.ok /\ tame THEN after ELSE Spoilt(after)
        /\ UNCHANGED <<scope, actors, renames>>
    BY RewindGameIs
  <1>2. scope = "game"
    BY DEF RewindGame
  <1>3. ASSUME renames = 0 PROVE ChainKeeps(scope, turns, actors, entries)
    BY <1>2, <1>3 DEF RestInv
  <1>4. ASSUME renames = 0, tame PROVE reverted.ok /\ Visible(entries') = turns[i + 1].before
    <2>1. reverted.ok /\ Visible(reverted.entries) = turns[i + 1].before
      BY <1>1, <1>3, <1>4, RestUndo
    <2> QED
      BY <1>1, <2>1
  <1> HIDE DEF reverted, tame
  <1>5. ASSUME renames = 0 PROVE ChainKeeps(scope, turns', actors, entries')
    <2>1. CASE tame
      <3>1. turns' = first /\ Visible(entries') = turns[i + 1].before
        BY <1>1, <1>4, <1>5, <2>1
      <3>2. Len(turns) \in Nat /\ IsSeq(turns)
        BY SeqIs DEF HistoryInv, AreTurns
      <3>3. i \in 0..Len(turns) /\ i # Len(turns)
        BY <1>1, <3>2
      <3>4. Visible(entries') = Left(turns, i, entries)
        BY <3>1, <3>3 DEF Left
      <3>5. ChainKeeps(scope, SubSeq(turns, 1, i), actors, entries')
        BY <1>3, <1>5, <3>2, <3>3, <3>4, ChainCut
      <3> QED
        BY <3>1, <3>5
    <2>2. CASE ~tame
      <3>1. turns' = Spoilt(after)
        BY <1>1, <2>2
      <3> HIDE DEF after
      <3> QED
        BY <1>1, <3>1, SpoiltKeeps
    <2> QED
      BY <2>1, <2>2
  <1>6. RestInv'
    BY <1>1, <1>5 DEF RestInv
  <1> QED
    BY <1>4, <1>6 DEF tame

\* The messages that a chat forgets unreverted had changed nothing, or all are spoilt.
LEMMA RestRewindChat ==
    ASSUME HistoryInv, RestInv, NEW i \in Nat, RewindChat(i)
    PROVE  RestInv'
  <1> DEFINE n == Len(turns)
             first == SubSeq(turns, 1, i)
             changed == \E k \in i + 1..n : turns[k].audit # <<>> \/ ~turns[k].intact
  <1>1. /\ i < n /\ turns' = IF changed THEN Spoilt(first) ELSE first
        /\ UNCHANGED <<scope, entries, actors, renames>>
    BY DEF RewindChat
  <1>2. /\ AreTurns(turns) /\ IsSeq(turns) /\ n \in Nat /\ DOMAIN turns = 1..n /\ i \in 0..n
    BY <1>1, SeqIs DEF HistoryInv, AreTurns
  <1>3. AreTurns(first)
    <2>1. 1 \in Nat \ {0}
      OBVIOUS
    <2> QED
      BY <1>2, <2>1, PartOfTurns
  <1> HIDE DEF first
  <1>4. SUFFICES ASSUME renames = 0, scope # "story" PROVE ChainKeeps(scope, turns', actors, entries)
    BY <1>1 DEF RestInv
  <1>5. ChainKeeps(scope, turns, actors, entries)
    BY <1>4 DEF RestInv
  <1>6. CASE changed
    <2>1. turns' = Spoilt(first)
      BY <1>1, <1>6
    <2> QED
      BY <1>3, <2>1, SpoiltKeeps
  <1>7. CASE ~changed
    <2>1. \A k \in i + 1..n : turns[k].audit = <<>> /\ turns[k].intact
      BY <1>7
    <2> HIDE DEF n, changed
    <2> DEFINE m == n - i
               S == {j \in 0..m : Left(turns, i + j, entries) = Left(turns, i, entries)}
    <2>2. m \in Nat /\ i + 0 = i /\ i + m = n
      BY <1>1, <1>2
    <2>3. 0 \in S
      BY <2>2
    <2>4. ASSUME NEW j \in 1..m, j - 1 \in S PROVE j \in S
      <3> DEFINE k == i + j
      <3>1. k \in i + 1..n /\ k \in DOMAIN turns /\ i + (j - 1) = k - 1 /\ k - 1 # n /\ (k - 1) + 1 = k /\ j \in 0..m
        BY <1>1, <1>2, <2>2
      <3>2. turns[k].audit = <<>> /\ turns[k].intact /\ TurnKeeps(scope, turns[k], actors, Left(turns, k, entries))
        BY <1>5, <2>1, <3>1 DEF ChainKeeps
      <3>3. Left(turns, k, entries) = turns[k].before
        BY <3>2, IdleKeeps
      <3>4. Left(turns, k - 1, entries) = turns[k].before
        BY <3>1 DEF Left, n
      <3> QED
        BY <2>4, <3>1, <3>3, <3>4
    <2>5. m \in S
      <3> HIDE DEF S
      <3>1. 0..m \subseteq S
        BY <2>2, <2>3, <2>4, UpTo
      <3> QED
        BY <2>2, <3>1
    <2>6. Visible(entries) = Left(turns, i, entries)
      <3>1. Left(turns, n, entries) = Visible(entries)
        BY DEF Left, n
      <3> QED
        BY <2>2, <2>5, <3>1
    <2>7. ChainKeeps(scope, SubSeq(turns, 1, i), actors, entries)
      BY <1>2, <1>5, <2>6, ChainCut DEF n
    <2>8. turns' = first
      BY <1>1, <1>7
    <2> QED
      BY <2>7, <2>8 DEF first
  <1> QED
    BY <1>6, <1>7

LEMMA RestInit == Init => RestInv
  <1> SUFFICES ASSUME Init PROVE RestInv
    OBVIOUS
  <1>1. DOMAIN turns = {}
    BY DEF Init
  <1> QED
    BY <1>1 DEF RestInv, ChainKeeps

LEMMA RestStep == HistoryInv /\ SlotsInv /\ RestInv /\ [Next]_vars => RestInv'
  <1> SUFFICES ASSUME HistoryInv, SlotsInv, RestInv, [Next]_vars PROVE RestInv'
    OBVIOUS
  <1>0. Len(turns) \in Nat /\ DOMAIN turns = 1..Len(turns)
    BY SeqIs DEF HistoryInv, AreTurns
  <1>1. ASSUME NEW batch \in Batches[scope], ApplyToNewTurn(batch) PROVE RestInv'
    <2>1. Apply(batch, Len(turns) + 1, NewTurn) /\ Len(turns) + 1 \in Nat
      BY <1>0, <1>1 DEF ApplyToNewTurn
    <2>2. LastOrNew(Len(turns) + 1, NewTurn)
      BY DEF LastOrNew
    <2> QED
      BY <2>1, <2>2, RestApply
  <1>2. ASSUME NEW batch \in Batches[scope], NEW i \in 1..MaxTurns, ApplyToTurn(batch, i) PROVE RestInv'
    <2> DEFINE turn == IF turns[i].audit = <<>> /\ turns[i].intact THEN NewTurn ELSE turns[i]
    <2>1. Apply(batch, i, turn) /\ i \in Regenerable /\ i \in DOMAIN turns
      BY <1>2 DEF ApplyToTurn, Regenerable
    <2>2. CASE scope = "story"
      <3>1. scope' = "story"
        BY <2>1, <2>2 DEF Apply
      <3> QED
        BY <3>1 DEF RestInv
    <2>3. CASE scope # "story"
      <3>1. i = Len(turns) /\ i \in Nat
        BY <1>0, <2>1, <2>3 DEF Regenerable
      <3>2. LastOrNew(i, turn)
        BY <2>1, <3>1 DEF LastOrNew
      <3> HIDE DEF turn
      <3> QED
        BY <2>1, <3>1, <3>2, RestApply
    <2> QED
      BY <2>2, <2>3
  <1>3. ASSUME NEW i, Regenerate(i) PROVE RestInv'
    BY <1>3, RestRegenerate
  <1>4. ASSUME NEW i \in 0..MaxTurns, RewindGame(i) \/ RewindChat(i) PROVE RestInv'
    <2>1. i \in Nat
      OBVIOUS
    <2> QED
      BY <1>4, <2>1, RestRewindGame, RestRewindChat
  <1>5. ASSUME NEW i \in DOMAIN actors, NEW name, RenameActor(i, name) PROVE RestInv'
    <2>1. renames' # 0
      BY <1>5 DEF RenameActor, SlotsInv
    <2> QED
      BY <2>1 DEF RestInv
  <1>6. CASE UNCHANGED vars
    BY <1>6 DEF vars, RestInv
  <1> QED
    BY <1>1, <1>2, <1>3, <1>4, <1>5, <1>6 DEF Next, ApplyAny

\* Regenerating the last turn of a chat or a game puts the table back to what the turn
\* found, as long as its changes can be undone and no actor was renamed.
THEOREM RegeneratesRestore == Spec => RegenerateRestores
  <1> DEFINE Restored == /\ turns # <<>>
                         /\ Regenerate(Len(turns))
                         /\ Tame(LastTurn)
                         /\ scope # "story"
                         /\ renames = 0
                         => Visible(entries') = LastTurn.before
  <1>1. HistoryInv /\ SlotsInv /\ RestInv /\ [Next]_vars => [Restored]_vars
    BY RestRegenerate DEF LastTurn
  <1> QED
    BY <1>1, HistoryInit, HistoryStep, SlotsInit, SlotsStep, RestInit, RestStep, PTL DEF Spec, RegenerateRestores

\* Rewinding a game over such turns puts the table back to what the first of them found,
\* however many they are and whichever slots they share.
THEOREM RewindsRestore == Spec => RewindRestores
  <1> DEFINE Restored == \A i \in 0..MaxTurns :
                            /\ RewindGame(i)
                            /\ \A k \in i + 1..Len(turns) : Tame(turns[k])
                            /\ renames = 0
                            => Visible(entries') = turns[i + 1].before
  <1>1. HistoryInv /\ SlotsInv /\ RestInv /\ [Next]_vars => [Restored]_vars
    <2> SUFFICES ASSUME HistoryInv, RestInv, NEW i \in 0..MaxTurns, RewindGame(i),
                        \A k \in i + 1..Len(turns) : Tame(turns[k]), renames = 0
                 PROVE  Visible(entries') = turns[i + 1].before
      OBVIOUS
    <2>1. i \in Nat
      OBVIOUS
    <2> QED
      BY <2>1, RestRewindGame
  <1> QED
    BY <1>1, HistoryInit, HistoryStep, SlotsInit, SlotsStep, RestInit, RestStep, PTL DEF Spec, RewindRestores
=============================================================================
