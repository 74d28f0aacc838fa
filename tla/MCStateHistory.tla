--------------------------- MODULE MCStateHistory ---------------------------
(***************************************************************************)
(* The batches of StateHistory's runs: one slot of each target, every kind *)
(* of change, and pairs that meet in a slot or do not.                     *)
(***************************************************************************)
EXTENDS StateHistory

Calm == SetText("world", "variable", "k", <<1>>)
CalmNpc == SetText("npc", "variable", "k", <<1>>)
More(target) == AddText(target, "variable", "k", <<2>>)
Hidden(target) == SetText(target, "condition", "k", <<3>>)
Gone(target, kind) == Request(target, kind, "k", "remove")
Measure(op, num) == Numeric("pc", "measurement", "m", op, num)
Replace == Numeric("pc", "measurement", "k", "set", 1)
Steps(loop) == SetSequence("pc", "s", 3, 1, loop)
Step(delta) == Numeric("pc", "sequence", "s", "step", delta)

Alone(changes) == {<<c>> : c \in changes}

\* Changes in place, of every kind and target, and pairs of them.
InPlace ==
    Alone({Calm, More("world"), Measure("set", 2), Measure("add", 2), Step(1), Steps(TRUE)})
    \cup {<<CalmNpc, Calm>>, <<More("npc"), Measure("add", -1)>>,
          <<More("world"), More("world")>>, <<Step(-2), Measure("set", NoNum)>>}

\* Bounds and values of one measurement.
Bounded ==
    Alone({Measure(op, n) : op \in {"set", "add"}, n \in {-2, 3}}
          \cup {Measure("set_min", 0), Measure("set_max", 2), Measure("remove", NoNum),
                 BoundTool("pc", "m", "set_max", 1), Calm, CalmNpc, Replace})

\* Removals and replacements by another kind or family.
Uprooting ==
    Alone({Calm, Hidden("world"), Gone("world", "variable"), Measure("set", 2), Measure("remove", NoNum),
           Numeric("world", "measurement", "k", "set", 1)})
    \cup {<<Measure("remove", NoNum), Measure("set", 1)>>}

\* Batches that create one slot twice: an error for an actor, not for the world.
Twice == {<<More("npc"), More("npc")>>, <<Calm, Hidden("world")>>}

Everything == InPlace \cup Uprooting \cup Twice
ByScope == [game |-> Everything, chat |-> Everything, story |-> Bounded]
=============================================================================
