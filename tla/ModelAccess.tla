---------------------------- MODULE ModelAccess ----------------------------
(***************************************************************************)
(* How a job gets an answer of a model. It takes the enabled connections   *)
(* from the settings it loaded and asks them in order. On a connection     *)
(* whose JSON format is 'auto' it finds out which of the wire formats the  *)
(* server takes and stores what it learned; an answer that is no JSON is   *)
(* asked for again. Meanwhile other jobs learn on the same rows, the user  *)
(* edits, clones and deletes connections, and a job may be cancelled.      *)
(*                                                                         *)
(* A connection's name, key, model and sampling are left out. What a       *)
(* server does with a request is what a caller can tell apart: an error,   *)
(* an answer that parses, an answer that does not. Connections keep the    *)
(* order of their ids: the user does not drag them.                        *)
(***************************************************************************)
EXTENDS Integers, Sequences, FiniteSets

CONSTANTS
    MaxConnections, \* bound: rows ever inserted, ids being AUTOINCREMENT
    Servers,        \* what the URL of a connection leads to
    Accepts,        \* the formats a server answers rather than rejects
    Good,           \* those of them whose answers it makes parse
    Calls,          \* calls for an answer
    Kinds,          \* of the calls: "json" (plans, checks, rechecks), "plain" (prose, summaries)
    Tables,         \* the rows at the start
    Picks,          \* bound: the servers and the formats that the user picks
    MaxAttempts,    \* generation_max_retries
    Budgets         \* bounds: edits of the user, faults of the network, cancels; one of them
                    \* for a behaviour

Formats == <<"response_json_schema", "guided_json", "json_object">>
FormatNames == {Formats[i] : i \in DOMAIN Formats}
Ids == 1..MaxConnections
Connections == [ready : BOOLEAN, server : Servers, format : FormatNames \cup {"auto"}]

ASSUME ServersAssumption ==
    /\ Accepts \in [Servers -> SUBSET FormatNames]
    /\ \A server \in Servers : Good[server] \subseteq Accepts[server]
ASSUME CallsAssumption == Kinds \subseteq [Calls -> {"json", "plain"}]
ASSUME TablesAssumption ==
    \A start \in Tables : start \in Seq(Connections) /\ Len(start) \in 1..MaxConnections
ASSUME BoundsAssumption ==
    /\ Picks.servers \subseteq Servers /\ Picks.formats \subseteq FormatNames \cup {"auto"}
    /\ MaxConnections \in Nat /\ MaxAttempts \in Nat \ {0}
    /\ Budgets \subseteq [edits : Nat, faults : Nat, cancels : Nat]

VARIABLES
    rows,      \* inference_connections: a row, or what an id without one is
    active,    \* app_settings.active_inference_connection_id
    requests,  \* requests of the settings page between two of their statements
    calls,     \* the calls, each with the connections it may ask
    label,     \* generation_provider of the call's job, 0 when there is none
    cancelled, \* where each call was when its token was cancelled, or Never
    clean,     \* ghost: calls with no fault, no cancel and no change of their connections
    left       \* how many of each bounded event there may still be

table == <<rows, active, requests>>
vars == <<table, calls, label, cancelled, clean, left>>

Free == [ready |-> FALSE, server |-> "free", format |-> "none"]
Gone == [Free EXCEPT !.server = "gone"]
Present == {c \in Ids : rows[c] \notin {Free, Gone}}
Never == <<0>>

Idle(kind) ==
    [kind |-> kind, step |-> "idle", list |-> <<>>, at |-> 0, server |-> "none",
     format |-> "none", auto |-> FALSE, attempt |-> 0]
Ended == {"done", "failed", "refused", "error", "cancelled"}
Asking(k) == calls[k].list[calls[k].at]

Spend(event) == left[event] > 0 /\ left' = [left EXCEPT ![event] = @ - 1]
Become(k, step) == calls' = [calls EXCEPT ![k].step = step]

\* What changes a row that a call has listed disturbs that call.
Disturbed(c) == clean \ {k \in Calls : \E i \in DOMAIN calls[k].list : calls[k].list[i] = c}

-----------------------------------------------------------------------------
(* A call. *)

\* fallback_connections of the settings the job loaded: the enabled ones, in order.
Enabled == {c \in Ids : rows[c].ready}
fallback_connections ==
    {list \in [1..Cardinality(Enabled) -> Enabled] :
        \A i, j \in DOMAIN list : i < j => list[i] < list[j]}

Start(k) ==
    /\ calls[k].step = "idle"
    /\ \E list \in fallback_connections :
         calls' = [calls EXCEPT ![k].list = list, ![k].at = 1,
                                ![k].step = IF Enabled = {} THEN "refused" ELSE "next"]
    /\ UNCHANGED <<table, label, cancelled, clean, left>>

\* initial_wire_strategy
initial_wire_strategy(preference) == IF preference = "auto" THEN Formats[1] ELSE preference

\* A slip: the job is labelled once.
ConfigureFirst(k) ==
    /\ calls[k].step = "next"
    /\ LET row == rows[Asking(k)] IN
       calls' = [calls EXCEPT ![k] = [@ EXCEPT
           !.step = IF Asking(k) \notin Present THEN "error" ELSE "try",
           !.server = row.server, !.format = initial_wire_strategy(row.format),
           !.auto = row.format = "auto", !.attempt = 1]]
    /\ label' = IF label[k] = 0 THEN [label EXCEPT ![k] = Asking(k)] ELSE label
    /\ UNCHANGED <<table, cancelled, clean, left>>

\* get_inference_config_for_connection reads the row of now, which may be gone:
\* an error no other connection is tried for. Then record_inference_attempt.
Configure(k) ==
    /\ calls[k].step = "next"
    /\ LET row == rows[Asking(k)] IN
       /\ calls' = [calls EXCEPT ![k] = [@ EXCEPT
              !.step = IF Asking(k) \notin Present THEN "error" ELSE "try",
              !.server = row.server, !.format = initial_wire_strategy(row.format),
              !.auto = row.format = "auto", !.attempt = 1]]
       /\ label' = IF Asking(k) \notin Present THEN label ELSE [label EXCEPT ![k] = Asking(k)]
    /\ UNCHANGED <<table, cancelled, clean, left>>

\* A slip: the token is looked at before the first attempt only.
AskAnyway(k) ==
    /\ calls[k].step \in {"try", "again"}
    /\ Become(k, IF calls[k].at = 1 /\ calls[k].attempt = 1 /\ cancelled[k] # Never
                 THEN "cancelled" ELSE "asked")
    /\ UNCHANGED <<table, label, cancelled, clean, left>>

\* The token is looked at before each attempt of a JSON call, not between its
\* formats, and by a plain call never.
Ask(k) ==
    /\ calls[k].step \in {"try", "again"}
    /\ Become(k, IF calls[k].step = "try" /\ calls[k].kind = "json" /\ cancelled[k] # Never
                 THEN "cancelled" ELSE "asked")
    /\ UNCHANGED <<table, label, cancelled, clean, left>>

\* A slip: the last format is followed by the first.
AdvanceRound(format, auto) ==
    IF auto THEN LET i == CHOOSE i \in DOMAIN Formats : Formats[i] = format
                 IN Formats[(i % Len(Formats)) + 1]
    ELSE "none"

advance_wire_strategy(format, auto) ==
    IF auto /\ format # Formats[Len(Formats)]
    THEN LET i == CHOOSE i \in DOMAIN Formats : Formats[i] = format IN Formats[i + 1]
    ELSE "none"

\* A slip: the connection after the next is tried.
SkipOne(call) ==
    IF call.at + 1 < Len(call.list) THEN [call EXCEPT !.step = "next", !.at = @ + 2]
    ELSE [call EXCEPT !.step = "failed"]

\* An inference error: the next connection, if there is one.
GiveUp(call) ==
    IF call.at < Len(call.list) THEN [call EXCEPT !.step = "next", !.at = @ + 1]
    ELSE [call EXCEPT !.step = "failed"]

\* An error of the server or of the way there. In auto mode whatever it was
\* counts against the format.
Rejected(k) ==
    LET call == calls[k]
        next == advance_wire_strategy(call.format, call.auto)
    IN IF calls[k].kind = "json" /\ next # "none" THEN [call EXCEPT !.step = "again", !.format = next]
       ELSE GiveUp(call)

\* An answer that is no JSON, or an empty one: asked again with a hint.
Unparsed(k) ==
    LET call == calls[k]
    IN IF call.attempt < MaxAttempts THEN [call EXCEPT !.step = "try", !.attempt = @ + 1]
       ELSE GiveUp(call)

Taken(k) ==
    IF calls[k].kind = "json" THEN calls[k].format \in Accepts[calls[k].server]
    ELSE Accepts[calls[k].server] # {}

Answer(k) ==
    /\ calls[k].step = "asked"
    /\ \/ ~Taken(k) /\ calls' = [calls EXCEPT ![k] = Rejected(k)]
       \/ Taken(k) /\ Become(k, IF calls[k].kind = "json" /\ calls[k].auto THEN "learned" ELSE "done")
       \/ /\ Taken(k) /\ calls[k].kind = "json" /\ calls[k].format \notin Good[calls[k].server]
          /\ calls' = [calls EXCEPT ![k] = Unparsed(k)]
    /\ UNCHANGED <<table, label, cancelled, clean, left>>

\* The request fails on its way, or the body of the answer cannot be read: that
\* is a reqwest error, which neither a format nor a connection follows.
Fault(k) ==
    /\ calls[k].step = "asked"
    /\ Spend("faults")
    /\ \E call \in {Rejected(k), [calls[k] EXCEPT !.step = "error"]} :
         calls' = [calls EXCEPT ![k] = call]
    /\ clean' = clean \ {k}
    /\ UNCHANGED <<table, label, cancelled>>

\* A slip: the learned format replaces whatever the row says.
PersistOver(k) ==
    /\ calls[k].step = "learned"
    /\ LET c == Asking(k) IN
       IF c \in Present
       THEN /\ rows' = [rows EXCEPT ![c].format = calls[k].format]
            /\ clean' = Disturbed(c)
       ELSE UNCHANGED <<rows, clean>>
    /\ Become(k, "done")
    /\ UNCHANGED <<active, requests, label, cancelled, left>>

\* persist_learned_json_format_strategy: only where the row still says 'auto'.
Persist(k) ==
    /\ calls[k].step = "learned"
    /\ LET c == Asking(k) IN
       IF rows[c].format = "auto"
       THEN /\ rows' = [rows EXCEPT ![c].format = calls[k].format]
            /\ clean' = Disturbed(c)
       ELSE UNCHANGED <<rows, clean>>
    /\ Become(k, "done")
    /\ UNCHANGED <<active, requests, label, cancelled, left>>

CancelToken(k) ==
    /\ cancelled[k] = Never /\ calls[k].step \notin Ended
    /\ Spend("cancels")
    /\ cancelled' = [cancelled EXCEPT ![k] = <<calls[k].at, calls[k].attempt>>]
    /\ clean' = clean \ {k}
    /\ UNCHANGED <<table, calls, label>>

CallStep(k) == Configure(k) \/ Ask(k) \/ Answer(k) \/ Persist(k)

-----------------------------------------------------------------------------
(* The settings page. A request reads in one statement and writes in a     *)
(* later one, with calls and other requests in between.                    *)

Settings == UNCHANGED <<calls, label, cancelled>>
Drop(request) == requests' = requests \ {request}

\* create_inference_connection and clone_inference_connection. A created row
\* has no model yet, and ids are not reused.
Insert ==
    /\ Spend("edits")
    /\ \E c \in Ids :
         /\ \A d \in Ids : d >= c <=> rows[d] = Free
         /\ \E row \in {rows[d] : d \in Present}
                         \cup [ready : {FALSE}, server : Picks.servers, format : {"auto"}] :
              rows' = [rows EXCEPT ![c] = row]
    /\ UNCHANGED <<active, requests, clean>> /\ Settings

\* update_inference_connection reads the row and writes all of its columns.
Changed(row) ==
    {[row EXCEPT !.ready = ~@]}
        \cup {[row EXCEPT !.server = server] : server \in Picks.servers}
        \cup {[row EXCEPT !.format = format] : format \in Picks.formats}

Request(op, c, row) == [op |-> op, id |-> c, row |-> row, active |-> active = c]

ReadForUpdate ==
    /\ Spend("edits")
    /\ \E c \in Present : \E row \in Changed(rows[c]) \ {rows[c]} :
         requests' = requests \cup {Request("update", c, row)}
    /\ UNCHANGED <<rows, active, clean>> /\ Settings

WriteUpdate(request) ==
    /\ request.op = "update"
    /\ IF request.id \in Present
       THEN /\ rows' = [rows EXCEPT ![request.id] = request.row]
            /\ clean' = Disturbed(request.id)
       ELSE UNCHANGED <<rows, clean>>
    /\ Drop(request)
    /\ UNCHANGED <<active, left>> /\ Settings

\* update_settings with another active connection.
SetActive ==
    /\ Spend("edits")
    /\ active' \in Present \ {active}
    /\ UNCHANGED <<rows, requests, clean>> /\ Settings

\* delete_inference_connection: the count and the active id are read first.
ReadForDelete ==
    /\ Cardinality(Present) > 1
    /\ Spend("edits")
    /\ \E c \in Present : requests' = requests \cup {Request("delete", c, Gone)}
    /\ UNCHANGED <<rows, active, clean>> /\ Settings

\* A slip: the settings do not refer to the table, the count was all.
Unreferenced(c) == TRUE

\* app_settings refers to the active connection: SQLite refuses to delete it.
Deletable(c) == c # active

DeleteRow(request) ==
    /\ request.op = "delete"
    /\ IF request.id \in Present /\ Deletable(request.id)
       THEN /\ rows' = [rows EXCEPT ![request.id] = Gone]
            /\ clean' = Disturbed(request.id)
            /\ requests' = (requests \ {request})
                   \cup IF request.active THEN {[request EXCEPT !.op = "replace"]} ELSE {}
       ELSE UNCHANGED <<rows, clean>> /\ Drop(request)
    /\ UNCHANGED <<active, left>> /\ Settings

\* A connection that was active when the request began is replaced by the
\* oldest, though another was made active in between.
Replace(request) ==
    /\ request.op = "replace"
    /\ active' \in {c \in Present : \A d \in Present : c <= d}
    /\ Drop(request)
    /\ UNCHANGED <<rows, clean, left>> /\ Settings

User ==
    \/ Insert \/ ReadForUpdate \/ SetActive \/ ReadForDelete
    \/ \E request \in requests : WriteUpdate(request) \/ DeleteRow(request) \/ Replace(request)

-----------------------------------------------------------------------------
Init ==
    /\ \E start \in Tables :
         rows = [c \in Ids |-> IF c \in DOMAIN start THEN start[c] ELSE Free]
    /\ active = 1 /\ requests = {}
    /\ \E kinds \in Kinds : calls = [k \in Calls |-> Idle(kinds[k])]
    /\ label = [k \in Calls |-> 0]
    /\ cancelled = [k \in Calls |-> Never]
    /\ clean = Calls
    /\ left \in Budgets

Next ==
    \/ \E k \in Calls : Start(k) \/ CallStep(k) \/ Fault(k) \/ CancelToken(k)
    \/ User

\* A task goes on, and a request is answered or times out.
Spec == Init /\ [][Next]_vars /\ \A k \in Calls : WF_vars(CallStep(k))

-----------------------------------------------------------------------------
\* A connection serves a call if its server makes answers parse in the format
\* it is first taken in.
Serves(row, kind) ==
    /\ row.ready
    /\ \/ kind = "plain" /\ Accepts[row.server] # {}
       \/ row.format \in Good[row.server]
       \/ /\ row.format = "auto"
          /\ \E i \in DOMAIN Formats :
               /\ Formats[i] \in Good[row.server]
               /\ \A j \in 1..i - 1 : Formats[j] \notin Accepts[row.server]

\* No provider is missed: a call that nothing disturbed fails only if none of
\* the connections it was given could have served it.
ServingProviderIsFound ==
    \A k \in clean :
        calls[k].step \in {"failed", "error"} =>
            ~\E i \in DOMAIN calls[k].list : Serves(rows[calls[k].list[i]], calls[k].kind)

\* What a call stores as learned is a format that the server of the row took, unless
\* the row was led elsewhere while the call was under way; and it stores nothing where
\* the user, or another call, has chosen meanwhile.
LearnedFormatIsTrue ==
    [][/\ \A k \in Calls : LET c == Asking(k) IN
            calls[k].step = "learned" /\ rows'[c] # rows[c] /\ calls'[k].step = "done"
            /\ rows[c].server = calls[k].server
                => rows'[c].format \in Accepts[rows[c].server]
       /\ \A c \in Ids :
            rows[c].format \in FormatNames /\ rows'[c].format # rows[c].format
                => requests' # requests]_vars

\* After its token was cancelled a JSON call asks nobody any more, but for the
\* formats left to the attempt it was in.
CancelledCallAsksNobodyElse ==
    \A k \in Calls :
        calls[k].kind = "json" /\ cancelled[k] # Never /\ calls[k].step = "asked" =>
            cancelled[k] = <<calls[k].at, calls[k].attempt>>

\* The queue names the connection that is asked, and the one that answered.
LabelTellsWhoIsAsked ==
    \A k \in Calls : calls[k].step \in {"asked", "learned", "done"} => label[k] = Asking(k)

\* The active connection exists, whichever requests overlapped, and so does one.
ActiveConnectionStays == active \in Present

\* Every call ends: formats, attempts and connections run out.
CallsEnd ==
    \A k \in Calls : calls[k].step \notin Ended \cup {"idle"} ~> calls[k].step \in Ended
=============================================================================
