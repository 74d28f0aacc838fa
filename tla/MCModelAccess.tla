--------------------------- MODULE MCModelAccess ---------------------------
(* Model constants for ModelAccess. *)
EXTENDS ModelAccess

Guided == "guided_json"
Object == "json_object"

\* A server that knows guided_json only, one that takes every format and heeds
\* json_object, and one that is never reached.
MCServers == {"guided", "lax", "down"}
MCAccepts == [server \in MCServers |->
    CASE server = "guided" -> {Guided} [] server = "lax" -> FormatNames [] OTHER -> {}]
MCGood == [server \in MCServers |->
    CASE server = "guided" -> {Guided} [] server = "lax" -> {Object} [] OTHER -> {}]

MCKinds == {<<"json", "json">>, <<"json", "plain">>}

Row(server, format) == [ready |-> TRUE, server |-> server, format |-> format]
MCTables == {
    <<Row("lax", "auto"), Row("guided", Guided)>>,
    <<Row("down", "auto"), Row("guided", "auto")>>}
MCPicks == [servers |-> {"guided"}, formats |-> {Guided, "auto"}]

Budget(edits, faults, cancels) == [edits |-> edits, faults |-> faults, cancels |-> cancels]
MCBudgets == {Budget(2, 0, 0), Budget(1, 1, 0), Budget(0, 1, 1)}
============================================================================
