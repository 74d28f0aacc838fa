------------------------- MODULE ModelAccessProofs -------------------------
(***************************************************************************)
(* What holds of the access to models for any number of connections,       *)
(* servers, calls, attempts and requests, and any budget of edits, faults  *)
(* and cancels.                                                            *)
(***************************************************************************)
EXTENDS ModelAccess, FiniteSetTheorems, TLAPS

Row == Connections \cup {Free, Gone}
Steps == {"idle", "next", "try", "asked", "again", "learned"} \cup Ended

Call ==
    [kind : {"json", "plain"}, step : Steps, list : Seq(Ids), at : Nat,
     server : Servers \cup {"none", "free", "gone"}, format : FormatNames \cup {"none"},
     auto : BOOLEAN, attempt : Nat]

\* What a request holds between its statements: an update the row it will write.
Pending ==
    [op : {"update"}, id : Ids, row : Connections, active : BOOLEAN]
        \cup [op : {"delete", "replace"}, id : Ids, row : {Gone}, active : BOOLEAN]

TypeOK ==
    /\ rows \in [Ids -> Row]
    /\ active \in Ids
    /\ requests \subseteq Pending
    /\ calls \in [Calls -> Call]
    /\ label \in [Calls -> Ids \cup {0}]
    /\ cancelled \in [Calls -> {Never} \cup (Nat \X Nat)]
    /\ clean \subseteq Calls
    /\ left \in [edits : Nat, faults : Nat, cancels : Nat]

\* A call that has begun is at one of its connections, and asks in one of the formats.
CallInPlace ==
    \A k \in Calls :
        /\ calls[k].step \notin {"idle", "refused"} => calls[k].at \in 1..Len(calls[k].list)
        /\ calls[k].step \in {"try", "asked", "again", "learned"} => calls[k].format \in FormatNames

USE DEF vars, table

LEMMA FormatNamesAre == FormatNames = {Formats[1], Formats[2], Formats[3]}
  BY DEF FormatNames, Formats

LEMMA FirstFormat == Formats[1] \in FormatNames
  BY FormatNamesAre

-----------------------------------------------------------------------------
\* An enabled connection is one of the table.
LEMMA EnabledAre ==
    ASSUME TypeOK
    PROVE  Enabled \subseteq Ids /\ \A c \in Enabled : rows[c] \in Connections
  BY DEF TypeOK, Enabled, Row, Free, Gone

\* What fallback_connections returns: enabled connections, at least one if there is one.
LEMMA ListedAre ==
    ASSUME TypeOK, NEW list \in fallback_connections
    PROVE  /\ list \in Seq(Ids)
           /\ \A i \in 1..Len(list) : list[i] \in Enabled
           /\ Enabled # {} => Len(list) >= 1
  <1>1. IsFiniteSet(Ids)
    BY FS_Interval, BoundsAssumption DEF Ids
  <1>2. IsFiniteSet(Enabled)
    BY <1>1, EnabledAre, FS_Subset
  <1>3. Cardinality(Enabled) \in Nat /\ (Enabled # {} => Cardinality(Enabled) # 0)
    BY <1>2, FS_CardinalityType, FS_EmptySet
  <1>4. list \in Seq(Enabled) /\ Len(list) = Cardinality(Enabled)
    BY <1>3 DEF fallback_connections
  <1> QED
    BY <1>3, <1>4, EnabledAre

LEMMA TypeInit == Init => TypeOK
  <1> SUFFICES ASSUME Init PROVE TypeOK
    OBVIOUS
  <1>1. rows \in [Ids -> Row]
    BY TablesAssumption DEF Init, Row
  <1>2. active \in Ids
    <2>1. PICK start \in Tables : TRUE
      BY DEF Init
    <2> QED BY <2>1, TablesAssumption, BoundsAssumption DEF Init, Ids
  <1>3. calls \in [Calls -> Call]
    <2>1. PICK kinds \in Kinds : calls = [k \in Calls |-> Idle(kinds[k])]
      BY DEF Init
    <2>2. \A k \in Calls : Idle(kinds[k]) \in Call
      BY <2>1, CallsAssumption DEF Idle, Call, Steps
    <2> QED BY <2>1, <2>2
  <1> QED BY <1>1, <1>2, <1>3, BoundsAssumption DEF Init, TypeOK

LEMMA BecomeType ==
    ASSUME TypeOK, NEW k \in Calls, NEW step \in Steps, Become(k, step)
    PROVE  calls' \in [Calls -> Call]
  <1>1. calls[k] \in Call
    BY DEF TypeOK
  <1>2. [calls[k] EXCEPT !.step = step] \in Call
    BY <1>1 DEF Call
  <1> QED
    BY <1>2 DEF TypeOK, Become

LEMMA AdvanceType ==
    ASSUME NEW format \in FormatNames, NEW auto
    PROVE  advance_wire_strategy(format, auto) \in FormatNames \cup {"none"}
  <1> SUFFICES ASSUME auto, format # Formats[Len(Formats)]
               PROVE  advance_wire_strategy(format, auto) \in FormatNames
    BY DEF advance_wire_strategy
  <1>1. PICK i \in DOMAIN Formats : i = CHOOSE j \in DOMAIN Formats : Formats[j] = format
    BY DEF FormatNames
  <1>2. Formats[i] = format
    BY <1>1 DEF FormatNames
  <1>3. i \in 1..2
    BY <1>2 DEF Formats
  <1>4. advance_wire_strategy(format, auto) = Formats[i + 1]
    BY <1>1 DEF advance_wire_strategy
  <1>5. i + 1 = 2 \/ i + 1 = 3
    BY <1>3
  <1> QED
    BY <1>4, <1>5, FormatNamesAre

LEMMA GiveUpType ==
    ASSUME NEW call \in Call
    PROVE  GiveUp(call) \in Call
  <1>1. call.at + 1 \in Nat
    BY DEF Call
  <1>2. [call EXCEPT !.step = "next", !.at = @ + 1] \in Call
    BY <1>1 DEF Call, Steps
  <1>3. [call EXCEPT !.step = "failed"] \in Call
    BY DEF Call, Steps, Ended
  <1> QED
    BY <1>2, <1>3 DEF GiveUp

LEMMA RejectedType ==
    ASSUME TypeOK, NEW k \in Calls, calls[k].format \in FormatNames
    PROVE  Rejected(k) \in Call
  <1> DEFINE next == advance_wire_strategy(calls[k].format, calls[k].auto)
  <1>1. calls[k] \in Call
    BY DEF TypeOK
  <1>2. next \in FormatNames \cup {"none"}
    BY AdvanceType
  <1> HIDE DEF next
  <1>3. next # "none" => [calls[k] EXCEPT !.step = "again", !.format = next] \in Call
    BY <1>1, <1>2 DEF Call, Steps
  <1> QED
    BY <1>1, <1>3, GiveUpType DEF Rejected, next

LEMMA UnparsedType ==
    ASSUME TypeOK, NEW k \in Calls
    PROVE  Unparsed(k) \in Call
  <1>1. calls[k] \in Call
    BY DEF TypeOK
  <1>2. calls[k].attempt + 1 \in Nat
    BY <1>1 DEF Call
  <1>3. [calls[k] EXCEPT !.step = "try", !.attempt = @ + 1] \in Call
    BY <1>1, <1>2 DEF Call, Steps
  <1> QED
    BY <1>1, <1>3, GiveUpType DEF Unparsed

LEMMA ConnectionIsNamed ==
    ASSUME NEW row \in Row
    PROVE  /\ row.server \in Servers \cup {"free", "gone"}
           /\ initial_wire_strategy(row.format) \in FormatNames \cup {"none"}
           /\ row \in Connections => initial_wire_strategy(row.format) \in FormatNames
  BY FirstFormat DEF Row, Connections, Free, Gone, initial_wire_strategy

LEMMA PresentAre ==
    ASSUME TypeOK, NEW c \in Present
    PROVE  c \in Ids /\ rows[c] \in Connections
  BY DEF Present, TypeOK, Row

\* Whoever steps, only the record of one call changes, and it stays in place.
LEMMA CallMoves ==
    ASSUME TypeOK, CallInPlace, NEW k \in Calls, NEW call \in Call,
           calls' = [calls EXCEPT ![k] = call],
           call.step \notin {"idle", "refused"} => call.at \in 1..Len(call.list),
           call.step \in {"try", "asked", "again", "learned"} => call.format \in FormatNames
    PROVE  calls' \in [Calls -> Call] /\ CallInPlace'
  BY DEF TypeOK, CallInPlace

LEMMA AskingIsListed ==
    ASSUME TypeOK, CallInPlace, NEW k \in Calls, calls[k].step \notin {"idle", "refused"}
    PROVE  calls[k].at \in DOMAIN calls[k].list /\ Asking(k) \in Ids
  <1>1. calls[k] \in Call
    BY DEF TypeOK
  <1>2. calls[k].list \in Seq(Ids) /\ calls[k].at \in 1..Len(calls[k].list)
    BY <1>1 DEF Call, CallInPlace
  <1> QED
    BY <1>2 DEF Asking

LEMMA StartMeans ==
    ASSUME TypeOK, NEW k \in Calls, Start(k)
    PROVE  \E call \in Call :
              /\ calls' = [calls EXCEPT ![k] = call]
              /\ call.kind = calls[k].kind /\ call.at = 1
              /\ call.step = IF Enabled = {} THEN "refused" ELSE "next"
              /\ \A i \in 1..Len(call.list) : call.list[i] \in Enabled
              /\ Enabled # {} => call.at \in 1..Len(call.list)
  <1>1. PICK list \in fallback_connections :
          calls' = [calls EXCEPT ![k].list = list, ![k].at = 1,
                                 ![k].step = IF Enabled = {} THEN "refused" ELSE "next"]
    BY DEF Start
  <1> DEFINE call == [calls[k] EXCEPT !.list = list, !.at = 1,
                                      !.step = IF Enabled = {} THEN "refused" ELSE "next"]
  <1>2. calls[k] \in Call
    BY DEF TypeOK
  <1>3. call \in Call /\ call.list = list /\ call.at = 1 /\ call.kind = calls[k].kind
        /\ call.step = IF Enabled = {} THEN "refused" ELSE "next"
    BY <1>2, ListedAre DEF Call, Steps, Ended
  <1>4. calls' = [calls EXCEPT ![k] = call]
    BY <1>1 DEF TypeOK
  <1> HIDE DEF call
  <1>5. Enabled # {} => call.at \in 1..Len(call.list)
    BY <1>3, ListedAre
  <1> QED
    BY <1>3, <1>4, <1>5, ListedAre

LEMMA StartType ==
    ASSUME TypeOK, CallInPlace, NEW k \in Calls, Start(k)
    PROVE  calls' \in [Calls -> Call] /\ CallInPlace'
  <1>1. PICK call \in Call :
          /\ calls' = [calls EXCEPT ![k] = call]
          /\ call.step = IF Enabled = {} THEN "refused" ELSE "next"
          /\ Enabled # {} => call.at \in 1..Len(call.list)
    BY StartMeans
  <1> QED
    BY <1>1, CallMoves

LEMMA ConfigureType ==
    ASSUME TypeOK, CallInPlace, NEW k \in Calls, Configure(k)
    PROVE  calls' \in [Calls -> Call] /\ CallInPlace' /\ label' \in [Calls -> Ids \cup {0}]
  <1> DEFINE row == rows[Asking(k)]
  <1> DEFINE call == [calls[k] EXCEPT
                        !.step = IF Asking(k) \notin Present THEN "error" ELSE "try",
                        !.server = row.server, !.format = initial_wire_strategy(row.format),
                        !.auto = row.format = "auto", !.attempt = 1]
  <1>1. calls' = [calls EXCEPT ![k] = call]
    BY DEF Configure, TypeOK
  <1>2. calls[k] \in Call /\ calls[k].step = "next"
    BY DEF TypeOK, Configure
  <1>3. calls[k].at \in 1..Len(calls[k].list) /\ Asking(k) \in Ids
    BY <1>2, AskingIsListed DEF CallInPlace
  <1>4. row \in Row
    BY <1>3 DEF TypeOK
  <1>5. Asking(k) \in Present => row \in Connections
    BY PresentAre
  <1> HIDE DEF row
  <1>6. /\ call \in Call
        /\ call.at = calls[k].at /\ call.list = calls[k].list
        /\ call.format = initial_wire_strategy(row.format)
        /\ call.step = IF Asking(k) \notin Present THEN "error" ELSE "try"
    BY <1>2, <1>4, ConnectionIsNamed DEF Call, Steps, Ended
  <1> HIDE DEF call
  <1>7. calls' \in [Calls -> Call] /\ CallInPlace'
    BY <1>1, <1>3, <1>4, <1>5, <1>6, CallMoves, ConnectionIsNamed
  <1> QED
    BY <1>3, <1>7 DEF Configure, TypeOK

\* Steps of a call that was asked, or whose answer is learned.
LEMMA AnsweredType ==
    ASSUME TypeOK, CallInPlace, NEW k \in Calls, calls[k].step = "asked",
           NEW call \in {Rejected(k), Unparsed(k)}
    PROVE  /\ call \in Call
           /\ call.step \notin {"idle", "refused"} => call.at \in 1..Len(call.list)
           /\ call.step \in {"try", "asked", "again", "learned"} => call.format \in FormatNames
  <1>1. /\ calls[k] \in Call /\ calls[k].format \in FormatNames
        /\ calls[k].at \in 1..Len(calls[k].list)
    BY DEF TypeOK, CallInPlace
  <1>2. call \in Call
    BY <1>1, RejectedType, UnparsedType
  <1>3. GiveUp(calls[k]).list = calls[k].list
        /\ GiveUp(calls[k]).at \in 1..Len(calls[k].list)
        /\ GiveUp(calls[k]).step \in {"next", "failed"}
    <2>1. calls[k].at + 1 \in Nat /\ Len(calls[k].list) \in Nat
      BY <1>1 DEF Call
    <2> QED BY <1>1, <2>1 DEF GiveUp, Call
  <1>4. advance_wire_strategy(calls[k].format, calls[k].auto) \in FormatNames \cup {"none"}
    BY <1>1, AdvanceType
  <1>5. call = GiveUp(calls[k])
        \/ /\ call.list = calls[k].list /\ call.at = calls[k].at
           /\ call.format \in FormatNames
    BY <1>1, <1>4 DEF Rejected, Unparsed, Call
  <1> QED
    BY <1>1, <1>2, <1>3, <1>5

\* A step that changes no more than the step of a call under way.
LEMMA BecomeMoves ==
    ASSUME TypeOK, CallInPlace, NEW k \in Calls, NEW step \in Steps \ {"idle", "refused"},
           Become(k, step), calls[k].step \in {"try", "asked", "again", "learned"}
    PROVE  calls' \in [Calls -> Call] /\ CallInPlace'
  <1> DEFINE call == [calls[k] EXCEPT !.step = step]
  <1>1. calls[k] \in Call
    BY DEF TypeOK
  <1>2. calls' = [calls EXCEPT ![k] = call]
    BY DEF TypeOK, Become
  <1>3. call \in Call /\ call.at = calls[k].at /\ call.list = calls[k].list
        /\ call.format = calls[k].format
    BY <1>1 DEF Call
  <1>4. calls[k].at \in 1..Len(calls[k].list) /\ calls[k].format \in FormatNames
    BY DEF CallInPlace
  <1> HIDE DEF call
  <1> QED
    BY <1>2, <1>3, <1>4, CallMoves

LEMMA AnswerMoves ==
    ASSUME TypeOK, CallInPlace, NEW k \in Calls, Answer(k)
    PROVE  calls' \in [Calls -> Call] /\ CallInPlace'
  <1>1. CASE \E call \in {Rejected(k), Unparsed(k)} : calls' = [calls EXCEPT ![k] = call]
    BY <1>1, AnsweredType, CallMoves DEF Answer
  <1>2. CASE \E step \in {"learned", "done"} : Become(k, step)
    BY <1>2, BecomeMoves DEF Answer, Steps, Ended
  <1> QED
    BY <1>1, <1>2 DEF Answer

LEMMA FaultMoves ==
    ASSUME TypeOK, CallInPlace, NEW k \in Calls, Fault(k)
    PROVE  calls' \in [Calls -> Call] /\ CallInPlace'
  <1>1. CASE calls' = [calls EXCEPT ![k] = Rejected(k)]
    BY <1>1, AnsweredType, CallMoves DEF Fault
  <1>2. CASE calls' = [calls EXCEPT ![k] = [calls[k] EXCEPT !.step = "error"]]
    BY <1>2, BecomeMoves DEF Fault, Become, Steps, Ended, TypeOK
  <1> QED
    BY <1>1, <1>2 DEF Fault

LEMMA SpendType ==
    ASSUME TypeOK, NEW event \in {"edits", "faults", "cancels"}, Spend(event)
    PROVE  left' \in [edits : Nat, faults : Nat, cancels : Nat]
  <1>1. left[event] - 1 \in Nat
    BY DEF TypeOK, Spend
  <1> QED
    BY <1>1 DEF TypeOK, Spend

LEMMA DisturbedType ==
    ASSUME TypeOK, NEW c
    PROVE  Disturbed(c) \subseteq Calls
  BY DEF TypeOK, Disturbed

TypeInv == TypeOK /\ CallInPlace

LEMMA CallStepType ==
    ASSUME TypeInv, NEW k \in Calls, Start(k) \/ CallStep(k) \/ Fault(k) \/ CancelToken(k)
    PROVE  TypeInv'
  <1>1. CASE Start(k)
    BY <1>1, StartType DEF TypeInv, TypeOK, Start
  <1>2. CASE Configure(k)
    BY <1>2, ConfigureType DEF TypeInv, TypeOK, Configure
  <1>3. CASE Ask(k)
    BY <1>3, BecomeMoves DEF TypeInv, TypeOK, Ask, Steps, Ended
  <1>4. CASE Answer(k)
    BY <1>4, AnswerMoves DEF TypeInv, TypeOK, Answer
  <1>5. CASE Persist(k)
    <2>1. calls' \in [Calls -> Call] /\ CallInPlace'
      BY <1>5, BecomeMoves DEF TypeInv, Persist, Steps, Ended
    <2>2. calls[k].format \in FormatNames
      BY <1>5 DEF TypeInv, CallInPlace, Persist
    <2>3. rows' \in [Ids -> Row]
      <3>1. CASE rows[Asking(k)].format = "auto" /\ Asking(k) \in Ids
        <4>1. rows[Asking(k)] \in Connections
          BY <3>1 DEF TypeInv, TypeOK, Row, Free, Gone
        <4>2. [rows[Asking(k)] EXCEPT !.format = calls[k].format] \in Connections
          BY <2>2, <4>1 DEF Connections
        <4> QED BY <1>5, <3>1, <4>2 DEF TypeInv, TypeOK, Row, Persist
      <3>2. Asking(k) \in Ids
        BY <1>5, AskingIsListed DEF Persist, TypeInv
      <3> QED BY <1>5, <3>1, <3>2 DEF Persist, TypeInv, TypeOK
    <2> QED BY <1>5, <2>1, <2>3, DisturbedType DEF Persist, TypeInv, TypeOK
  <1>6. CASE Fault(k)
    BY <1>6, FaultMoves, SpendType DEF TypeInv, TypeOK, Fault
  <1>7. CASE CancelToken(k)
    <2>1. <<calls[k].at, calls[k].attempt>> \in Nat \X Nat
      BY DEF TypeInv, TypeOK, Call
    <2> QED
      BY <1>7, <2>1, SpendType DEF TypeInv, TypeOK, CallInPlace, CancelToken
  <1> QED
    BY <1>1, <1>2, <1>3, <1>4, <1>5, <1>6, <1>7 DEF CallStep

\* What the settings page does leaves every call as it is.
LEMMA CallsStay ==
    ASSUME CallInPlace, UNCHANGED calls
    PROVE  CallInPlace'
  BY DEF CallInPlace

LEMMA ChangedAre ==
    ASSUME NEW row \in Connections
    PROVE  Changed(row) \subseteq Connections
  <1> SUFFICES ASSUME NEW changed \in Changed(row) PROVE changed \in Connections
    OBVIOUS
  <1>1. CASE changed = [row EXCEPT !.ready = ~@]
    BY <1>1 DEF Connections
  <1>2. CASE \E server \in Picks.servers : changed = [row EXCEPT !.server = server]
    BY <1>2, BoundsAssumption DEF Connections
  <1>3. CASE \E format \in Picks.formats : changed = [row EXCEPT !.format = format]
    BY <1>3, BoundsAssumption DEF Connections
  <1> QED
    BY <1>1, <1>2, <1>3 DEF Changed

LEMMA UserStepType ==
    ASSUME TypeInv, User
    PROVE  TypeInv'
  <1> USE DEF TypeInv, Settings
  <1>1. CASE Insert
    <2>1. PICK c \in Ids, row \in Connections : rows' = [rows EXCEPT ![c] = row]
      <3>1. [ready : {FALSE}, server : Picks.servers, format : {"auto"}] \subseteq Connections
        BY BoundsAssumption DEF Connections
      <3>2. {rows[d] : d \in Present} \subseteq Connections
        BY PresentAre
      <3> QED BY <1>1, <3>1, <3>2 DEF Insert
    <2> QED BY <1>1, <2>1, SpendType, CallsStay DEF Insert, TypeOK, Row
  <1>2. CASE ReadForUpdate
    <2>1. PICK c \in Present, row \in Connections : requests' = requests \cup {Request("update", c, row)}
      BY <1>2, PresentAre, ChangedAre DEF ReadForUpdate
    <2>2. Request("update", c, row) \in Pending
      BY <2>1, PresentAre DEF Request, Pending
    <2> QED BY <1>2, <2>1, <2>2, SpendType, CallsStay DEF ReadForUpdate, TypeOK
  <1>3. CASE SetActive
    BY <1>3, SpendType, CallsStay, PresentAre DEF SetActive, TypeOK
  <1>4. CASE ReadForDelete
    <2>1. PICK c \in Present : requests' = requests \cup {Request("delete", c, Gone)}
      BY <1>4 DEF ReadForDelete
    <2>2. Request("delete", c, Gone) \in Pending
      BY <2>1, PresentAre DEF Request, Pending
    <2> QED BY <1>4, <2>1, <2>2, SpendType, CallsStay DEF ReadForDelete, TypeOK
  <1>5. ASSUME NEW request \in requests, WriteUpdate(request) PROVE TypeInv'
    <2>1. request.id \in Ids /\ request.row \in Connections
      BY <1>5 DEF WriteUpdate, TypeOK, Pending
    <2> QED BY <1>5, <2>1, DisturbedType, CallsStay DEF WriteUpdate, Drop, TypeOK, Row
  <1>6. ASSUME NEW request \in requests, DeleteRow(request) PROVE TypeInv'
    <2>1. request \in [op : {"delete", "replace"}, id : Ids, row : {Gone}, active : BOOLEAN]
      BY <1>6 DEF DeleteRow, TypeOK, Pending
    <2>2. [request EXCEPT !.op = "replace"] \in Pending
      BY <2>1 DEF Pending
    <2> QED BY <1>6, <2>1, <2>2, DisturbedType, CallsStay DEF DeleteRow, Drop, TypeOK, Row
  <1>7. ASSUME NEW request \in requests, Replace(request) PROVE TypeInv'
    BY <1>7, PresentAre, CallsStay DEF Replace, Drop, TypeOK
  <1> QED
    BY <1>1, <1>2, <1>3, <1>4, <1>5, <1>6, <1>7 DEF User

LEMMA TypeStep == TypeInv /\ [Next]_vars => TypeInv'
  <1> SUFFICES ASSUME TypeInv, [Next]_vars PROVE TypeInv'
    OBVIOUS
  <1>1. CASE UNCHANGED vars
    BY <1>1 DEF TypeInv, TypeOK, CallInPlace
  <1> QED
    BY <1>1, CallStepType, UserStepType DEF Next

\* Every variable keeps its type, and every call that has begun stands at a connection
\* it was given and asks in a format that exists.
THEOREM TypeCorrect == Spec => []TypeInv
  <1>1. Init => TypeInv
    <2>1. Init => \A k \in Calls : calls[k].step = "idle"
      BY DEF Init, Idle
    <2> QED BY <2>1, TypeInit DEF TypeInv, CallInPlace
  <1> QED
    BY <1>1, TypeStep, PTL DEF Spec

-----------------------------------------------------------------------------
(* The active connection *)

LEMMA PresentIsReal ==
    ASSUME NEW c \in Ids, rows[c] \in Row
    PROVE  c \in Present <=> rows[c] \in Connections
  BY DEF Present, Row, Connections, FormatNames, Formats, Free, Gone

LEMMA PresentAfter ==
    ASSUME NEW c \in Ids, rows'[c] \in Connections
    PROVE  c \in Present'
  BY DEF Present, Connections, FormatNames, Formats, Free, Gone

\* Whatever happens to a connection that is not deleted, it stays.
LEMMA ActiveStep ==
    ASSUME TypeInv, ActiveConnectionStays, [Next]_vars
    PROVE  ActiveConnectionStays'
  <1>0. active \in Ids /\ rows[active] \in Connections
    BY PresentAre DEF ActiveConnectionStays, TypeInv
  <1>1. ASSUME NEW k \in Calls, Persist(k) PROVE ActiveConnectionStays'
    <2>1. calls[k].format \in FormatNames
      BY <1>1 DEF TypeInv, CallInPlace, Persist
    <2>2. rows'[active] \in Connections
      BY <1>0, <1>1, <2>1 DEF Persist, TypeInv, TypeOK, Connections
    <2> QED BY <1>0, <1>1, <2>2, PresentAfter DEF Persist, ActiveConnectionStays
  <1>2. CASE UNCHANGED <<rows, active>>
    BY <1>2 DEF ActiveConnectionStays, Present
  <1>3. CASE Insert
    <2>1. PICK c \in Ids : /\ \A d \in Ids : d >= c <=> rows[d] = Free
                           /\ \E row : rows' = [rows EXCEPT ![c] = row]
      BY <1>3 DEF Insert
    <2>2. rows[c] = Free /\ c # active
      BY <2>1, BoundsAssumption DEF Ids, ActiveConnectionStays, Present
    <2>3. rows'[active] = rows[active]
      BY <1>0, <2>1, <2>2 DEF TypeInv, TypeOK
    <2> QED BY <1>0, <1>3, <2>3, PresentAfter DEF Insert, ActiveConnectionStays
  <1>4. CASE SetActive
    BY <1>4 DEF SetActive, ActiveConnectionStays, Present
  <1>5. ASSUME NEW request \in requests, WriteUpdate(request) PROVE ActiveConnectionStays'
    <2>1. request.row \in Connections
      BY <1>5 DEF WriteUpdate, TypeInv, TypeOK, Pending
    <2>2. rows'[active] \in Connections
      BY <1>0, <1>5, <2>1 DEF WriteUpdate, TypeInv, TypeOK
    <2> QED BY <1>0, <1>5, <2>2, PresentAfter DEF WriteUpdate, ActiveConnectionStays
  <1>6. ASSUME NEW request \in requests, DeleteRow(request) PROVE ActiveConnectionStays'
    <2>1. rows'[active] = rows[active]
      BY <1>0, <1>6 DEF DeleteRow, Deletable, TypeInv, TypeOK
    <2> QED BY <1>0, <1>6, <2>1, PresentAfter DEF DeleteRow, ActiveConnectionStays
  <1>7. ASSUME NEW request \in requests, Replace(request) PROVE ActiveConnectionStays'
    BY <1>7 DEF Replace, ActiveConnectionStays, Present
  <1>8. ASSUME NEW k \in Calls,
               Start(k) \/ Configure(k) \/ Ask(k) \/ Answer(k) \/ Fault(k) \/ CancelToken(k)
        PROVE  UNCHANGED <<rows, active>>
    BY <1>8 DEF Start, Configure, Ask, Answer, Fault, CancelToken
  <1> QED
    BY <1>1, <1>2, <1>3, <1>4, <1>5, <1>6, <1>7, <1>8
    DEF Next, CallStep, User, ReadForUpdate, ReadForDelete

\* However the requests of the settings page overlap, the active connection is one of the
\* table: what is deleted is not active (the reference of app_settings), and what replaces
\* it, or is chosen, exists (db.rs, set_active_inference_connection and
\* delete_inference_connection).
THEOREM ActiveStays == Spec => []ActiveConnectionStays
  <1>1. Init => ActiveConnectionStays
    <2> SUFFICES ASSUME Init PROVE ActiveConnectionStays
      OBVIOUS
    <2>1. PICK start \in Tables : rows = [c \in Ids |-> IF c \in DOMAIN start THEN start[c] ELSE Free]
      BY DEF Init
    <2>2. 1 \in Ids /\ 1 \in DOMAIN start /\ start[1] \in Connections
      BY TablesAssumption, BoundsAssumption DEF Ids
    <2>3. rows[1] \in Connections
      BY <2>1, <2>2
    <2> QED BY <2>2, <2>3, PresentIsReal DEF Init, ActiveConnectionStays, Row
  <1>2. TypeInv /\ ActiveConnectionStays /\ [Next]_vars => ActiveConnectionStays'
    BY ActiveStep
  <1> QED
    BY <1>1, <1>2, TypeCorrect, PTL DEF Spec

-----------------------------------------------------------------------------
(* Who is asked *)

\* While a connection is asked, and after it has answered, the job is labelled with it.
Labelled(k) ==
    calls[k].step \in {"try", "again", "asked", "learned", "done"} => label[k] = Asking(k)

\* A JSON call whose token was cancelled asks in the attempt it was in, or is past asking.
AttemptIsCurrent(k) ==
    calls[k].kind = "json" /\ cancelled[k] # Never /\ calls[k].step \in {"again", "asked"}
    => cancelled[k] = <<calls[k].at, calls[k].attempt>>

\* What is learned is a format the server took.
LearnsWhatIsTaken(k) ==
    calls[k].step = "learned" => calls[k].format \in Accepts[calls[k].server]

AskingInv == \A k \in Calls : Labelled(k) /\ AttemptIsCurrent(k) /\ LearnsWhatIsTaken(k)

\* A call that has been answered stays at its connection or goes to the next one.
LEMMA AnsweredMeans ==
    ASSUME TypeInv, NEW k \in Calls, NEW call \in {Rejected(k), Unparsed(k)}
    PROVE  \/ call.step \in {"next", "failed"}
           \/ /\ call.step \in {"again", "try"}
              /\ call.list = calls[k].list /\ call.at = calls[k].at
              /\ call.step = "again" => call.attempt = calls[k].attempt /\ call.kind = calls[k].kind
  <1>1. calls[k] \in Call
    BY DEF TypeInv, TypeOK
  <1>2. GiveUp(calls[k]).step \in {"next", "failed"}
    BY <1>1 DEF GiveUp, Call
  <1> QED
    BY <1>1, <1>2 DEF Rejected, Unparsed, Call

\* The other calls are not concerned by the step of one.
LEMMA OthersStay ==
    ASSUME TypeInv, AskingInv, NEW k \in Calls, NEW j \in Calls, j # k,
           calls'[j] = calls[j], label'[j] = label[j], cancelled'[j] = cancelled[j]
    PROVE  Labelled(j)' /\ AttemptIsCurrent(j)' /\ LearnsWhatIsTaken(j)'
  BY DEF AskingInv, Labelled, AttemptIsCurrent, LearnsWhatIsTaken, Asking

LEMMA CallKeepsAskingInv ==
    ASSUME TypeInv, AskingInv, NEW k \in Calls,
           Start(k) \/ CallStep(k) \/ Fault(k) \/ CancelToken(k)
    PROVE  Labelled(k)' /\ AttemptIsCurrent(k)' /\ LearnsWhatIsTaken(k)'
  <1> USE DEF Labelled, AttemptIsCurrent, LearnsWhatIsTaken
  <1>0. /\ calls \in [Calls -> Call] /\ calls[k] \in Call
        /\ label \in [Calls -> Ids \cup {0}]
        /\ cancelled \in [Calls -> {Never} \cup (Nat \X Nat)]
    BY DEF TypeInv, TypeOK
  <1>1. CASE Start(k)
    <2>1. calls'[k].step \in {"next", "refused"}
      BY <1>0, <1>1, StartMeans DEF TypeInv
    <2> QED BY <2>1
  <1>2. CASE Configure(k)
    <2>1. calls'[k].step = IF Asking(k) \notin Present THEN "error" ELSE "try"
      BY <1>0, <1>2 DEF Configure, Call
    <2>2. calls'[k].at = calls[k].at /\ calls'[k].list = calls[k].list
      BY <1>0, <1>2 DEF Configure, Call
    <2>3. Asking(k) \in Present => label'[k] = Asking(k)
      BY <1>0, <1>2 DEF Configure
    <2> QED BY <2>1, <2>2, <2>3 DEF Asking
  <1>3. CASE Ask(k)
    <2>1. /\ calls[k].step \in {"try", "again"}
          /\ calls'[k] = [calls[k] EXCEPT !.step =
                IF calls[k].step = "try" /\ calls[k].kind = "json" /\ cancelled[k] # Never
                THEN "cancelled" ELSE "asked"]
      BY <1>0, <1>3 DEF Ask, Become
    <2>2. /\ calls'[k].at = calls[k].at /\ calls'[k].list = calls[k].list
          /\ calls'[k].attempt = calls[k].attempt /\ calls'[k].kind = calls[k].kind
          /\ calls'[k].step =
                IF calls[k].step = "try" /\ calls[k].kind = "json" /\ cancelled[k] # Never
                THEN "cancelled" ELSE "asked"
      BY <1>0, <2>1 DEF Call
    <2> QED BY <1>3, <2>1, <2>2 DEF Ask, AskingInv, Asking
  <1>4. CASE Answer(k)
    <2>1. CASE \E call \in {Rejected(k), Unparsed(k)} : calls' = [calls EXCEPT ![k] = call]
      <3>1. PICK call \in {Rejected(k), Unparsed(k)} : calls'[k] = call
        BY <1>0, <2>1
      <3> QED BY <1>4, <3>1, AnsweredMeans DEF Answer, AskingInv, Asking
    <2>2. CASE Taken(k) /\ Become(k, IF calls[k].kind = "json" /\ calls[k].auto THEN "learned" ELSE "done")
      <3>1. /\ calls'[k].at = calls[k].at /\ calls'[k].list = calls[k].list
            /\ calls'[k].format = calls[k].format /\ calls'[k].server = calls[k].server
            /\ calls'[k].step =
                  IF calls[k].kind = "json" /\ calls[k].auto THEN "learned" ELSE "done"
        BY <1>0, <2>2 DEF Become, Call
      <3> QED BY <1>4, <2>2, <3>1 DEF Answer, AskingInv, Asking, Taken
    <2> QED BY <1>4, <2>1, <2>2 DEF Answer
  <1>5. CASE Persist(k)
    <2>1. calls'[k].step = "done" /\ calls'[k].at = calls[k].at /\ calls'[k].list = calls[k].list
      BY <1>0, <1>5 DEF Persist, Become, Call
    <2> QED BY <1>5, <2>1 DEF Persist, AskingInv, Asking
  <1>6. CASE Fault(k)
    <2>1. CASE calls' = [calls EXCEPT ![k] = Rejected(k)]
      BY <1>0, <1>6, <2>1, AnsweredMeans DEF Fault, AskingInv, Asking
    <2>2. CASE calls' = [calls EXCEPT ![k] = [calls[k] EXCEPT !.step = "error"]]
      BY <1>0, <2>2 DEF Call
    <2> QED BY <1>6, <2>1, <2>2 DEF Fault
  <1>7. CASE CancelToken(k)
    BY <1>0, <1>7 DEF CancelToken, AskingInv, Asking
  <1> QED
    BY <1>1, <1>2, <1>3, <1>4, <1>5, <1>6, <1>7 DEF CallStep

LEMMA AskingStep == TypeInv /\ AskingInv /\ [Next]_vars => AskingInv'
  <1> SUFFICES ASSUME TypeInv, AskingInv, [Next]_vars, NEW j \in Calls
               PROVE  Labelled(j)' /\ AttemptIsCurrent(j)' /\ LearnsWhatIsTaken(j)'
    BY DEF AskingInv
  <1>1. CASE UNCHANGED <<calls, label, cancelled>>
    BY <1>1 DEF AskingInv, Labelled, AttemptIsCurrent, LearnsWhatIsTaken, Asking
  <1>2. ASSUME NEW k \in Calls, Start(k) \/ CallStep(k) \/ Fault(k) \/ CancelToken(k), j # k
        PROVE  calls'[j] = calls[j] /\ label'[j] = label[j] /\ cancelled'[j] = cancelled[j]
    BY <1>2 DEF TypeInv, TypeOK, Start, CallStep, Configure, Ask, Answer, Persist, Fault,
                CancelToken, Become
  <1>3. User => UNCHANGED <<calls, label, cancelled>>
    BY DEF User, Settings, Insert, ReadForUpdate, SetActive, ReadForDelete, WriteUpdate,
           DeleteRow, Replace
  <1> QED
    BY <1>1, <1>2, <1>3, OthersStay, CallKeepsAskingInv DEF Next

LEMMA AskingCorrect == Spec => []AskingInv
  <1>1. Init => AskingInv
    BY DEF Init, Idle, AskingInv, Labelled, AttemptIsCurrent, LearnsWhatIsTaken
  <1> QED
    BY <1>1, AskingStep, TypeCorrect, PTL DEF Spec

\* The queue names the connection that is asked, and in the end the one that answered
\* (record_inference_attempt runs before each connection is asked).
THEOREM LabelIsTrue == Spec => []LabelTellsWhoIsAsked
  <1>1. AskingInv => LabelTellsWhoIsAsked
    BY DEF AskingInv, Labelled, LabelTellsWhoIsAsked
  <1> QED
    BY <1>1, AskingCorrect, PTL

\* After its token was cancelled a JSON call asks no other connection and makes no other
\* attempt (chat_completion_json looks at the token before each one).
THEOREM CancelIsHeeded == Spec => []CancelledCallAsksNobodyElse
  <1>1. AskingInv => CancelledCallAsksNobodyElse
    BY DEF AskingInv, AttemptIsCurrent, CancelledCallAsksNobodyElse
  <1> QED
    BY <1>1, AskingCorrect, PTL

-----------------------------------------------------------------------------
(* What is learned *)

LEMMA OnlyRequestsChooseFormats ==
    ASSUME TypeInv, [Next]_vars, NEW c \in Ids,
           rows[c].format \in FormatNames, rows'[c].format # rows[c].format
    PROVE  requests' # requests
  <1>0. rows \in [Ids -> Row] /\ rows[c] # Free
    BY DEF TypeInv, TypeOK, Free, FormatNames, Formats
  <1>1. ASSUME NEW k \in Calls, Persist(k) PROVE FALSE
    BY <1>0, <1>1, "auto" \notin FormatNames DEF Persist, FormatNames, Formats
  <1>2. CASE Insert
    <2>1. PICK d \in Ids : /\ \A e \in Ids : e >= d <=> rows[e] = Free
                           /\ \E row : rows' = [rows EXCEPT ![d] = row]
      BY <1>2 DEF Insert
    <2> QED BY <1>0, <2>1, BoundsAssumption DEF Ids
  <1>3. ASSUME NEW request \in requests, WriteUpdate(request) PROVE requests' # requests
    BY <1>3 DEF WriteUpdate, Drop
  <1>4. ASSUME NEW request \in requests, DeleteRow(request) PROVE requests' # requests
    <2>1. request \in [op : {"delete", "replace"}, id : Ids, row : {Gone}, active : BOOLEAN]
      BY <1>4 DEF DeleteRow, TypeInv, TypeOK, Pending
    <2>2. [request EXCEPT !.op = "replace"] # request
      BY <1>4, <2>1 DEF DeleteRow
    <2> QED BY <1>4, <2>2 DEF DeleteRow, Drop
  <1>5. ASSUME NEW k \in Calls,
               Start(k) \/ Configure(k) \/ Ask(k) \/ Answer(k) \/ Fault(k) \/ CancelToken(k)
        PROVE  FALSE
    BY <1>5 DEF Start, Configure, Ask, Answer, Fault, CancelToken
  <1>6. ~(ReadForUpdate \/ SetActive \/ ReadForDelete)
        /\ ~\E request \in requests : Replace(request)
    BY DEF ReadForUpdate, SetActive, ReadForDelete, Replace
  <1> QED
    BY <1>1, <1>2, <1>3, <1>4, <1>5, <1>6 DEF Next, CallStep, User

LEMMA LearnedIsTaken ==
    ASSUME TypeInv, AskingInv, [Next]_vars, NEW k \in Calls,
           calls[k].step = "learned", calls'[k].step = "done",
           rows'[Asking(k)] # rows[Asking(k)], rows[Asking(k)].server = calls[k].server
    PROVE  rows'[Asking(k)].format \in Accepts[rows[Asking(k)].server]
  <1>0. calls \in [Calls -> Call] /\ rows \in [Ids -> Row] /\ Asking(k) \in Ids
    BY AskingIsListed DEF TypeInv, TypeOK
  <1>1. calls' # calls
    OBVIOUS
  <1>2. ~User
    BY <1>1 DEF User, Settings, Insert, ReadForUpdate, SetActive, ReadForDelete, WriteUpdate,
                DeleteRow, Replace
  <1>3. ASSUME NEW j \in Calls, j # k, Start(j) \/ CallStep(j) \/ Fault(j) \/ CancelToken(j)
        PROVE  calls'[k] = calls[k]
    BY <1>0, <1>3 DEF Start, CallStep, Configure, Ask, Answer, Persist, Fault, CancelToken, Become
  <1>4. Persist(k)
    BY <1>1, <1>2, <1>3 DEF Next, CallStep, Start, Configure, Ask, Answer, Fault, CancelToken
  <1>5. rows[Asking(k)].format = "auto" /\ rows[Asking(k)] \in Connections
    BY <1>0, <1>4 DEF Persist, Row, Free, Gone
  <1>6. rows'[Asking(k)].format = calls[k].format
    BY <1>0, <1>4, <1>5 DEF Persist, Connections
  <1> QED
    BY <1>6 DEF AskingInv, LearnsWhatIsTaken

\* What a call stores as learned is a format that the server took, unless the row leads to
\* another server by now; and no call stores anything over a format that was chosen
\* (persist_learned_json_format_strategy writes only where the row says 'auto').
THEOREM LearningIsTrue == Spec => LearnedFormatIsTrue
  <1>1. TypeInv /\ AskingInv /\ [Next]_vars
        => /\ \A k \in Calls : LET c == Asking(k) IN
                calls[k].step = "learned" /\ rows'[c] # rows[c] /\ calls'[k].step = "done"
                /\ rows[c].server = calls[k].server
                    => rows'[c].format \in Accepts[rows[c].server]
           /\ \A c \in Ids :
                rows[c].format \in FormatNames /\ rows'[c].format # rows[c].format
                    => requests' # requests
    BY LearnedIsTaken, OnlyRequestsChooseFormats
  <1> QED
    BY <1>1, TypeCorrect, AskingCorrect, PTL DEF Spec, LearnedFormatIsTrue

-----------------------------------------------------------------------------
(* No provider is missed *)

\* The format asked for is the connection's own, or the first that may still be taken.
Tried(k) ==
    LET row == rows[Asking(k)]
    IN  /\ calls[k].server = row.server
        /\ IF calls[k].auto
           THEN /\ row.format = "auto"
                /\ \E m \in DOMAIN Formats :
                     /\ calls[k].format = Formats[m]
                     /\ \A j \in 1..m - 1 : Formats[j] \notin Accepts[row.server]
           ELSE row.format # "auto" /\ calls[k].format = row.format

Useless(k, i) == ~Serves(rows[calls[k].list[i]], calls[k].kind)

\* A call that nothing disturbed has its connections still, and was served by none before
\* the one it is at.
Searching(k) ==
    /\ \A i \in 1..Len(calls[k].list) : rows[calls[k].list[i]] \in Connections
    /\ calls[k].step # "error"
    /\ calls[k].step = "refused" => calls[k].at = 1
    /\ \A i \in 1..calls[k].at - 1 : Useless(k, i)
    /\ calls[k].step = "failed" => Useless(k, calls[k].at) /\ calls[k].at = Len(calls[k].list)
    /\ calls[k].step \in {"try", "asked", "again"} => Tried(k)

SearchInv == \A k \in clean : calls[k].step # "idle" => Searching(k)

LEMMA AllFormats == DOMAIN Formats = 1..3 /\ Formats[Len(Formats)] = Formats[3]
  BY DEF Formats

\* The last format is followed by none, and every other by the next.
LEMMA AdvanceIsNext ==
    ASSUME NEW m \in DOMAIN Formats
    PROVE  /\ advance_wire_strategy(Formats[m], TRUE) = IF m = 3 THEN "none" ELSE Formats[m + 1]
           /\ advance_wire_strategy(Formats[m], FALSE) = "none"
  <1>1. \A i, j \in DOMAIN Formats : Formats[i] = Formats[j] => i = j
    BY DEF Formats
  <1>2. (CHOOSE i \in DOMAIN Formats : Formats[i] = Formats[m]) = m
    BY <1>1
  <1>3. Formats[m] # Formats[3] <=> m # 3
    BY <1>1, AllFormats
  <1>4. m = 3 => advance_wire_strategy(Formats[m], TRUE) = "none"
    BY <1>3, AllFormats DEF advance_wire_strategy
  <1>5. m # 3 => advance_wire_strategy(Formats[m], TRUE) = Formats[m + 1]
    BY <1>2, <1>3, AllFormats DEF advance_wire_strategy
  <1>6. advance_wire_strategy(Formats[m], FALSE) = "none"
    BY DEF advance_wire_strategy
  <1> QED
    BY <1>4, <1>5, <1>6

\* A connection whose answer in the format asked for was an error, or does not parse, serves
\* in no other format that is still to come: servers heed the first one they take.
LEMMA UselessWhenTaken ==
    ASSUME TypeInv, NEW k \in Calls, Tried(k), rows[Asking(k)] \in Connections,
           calls[k].kind = "json", calls[k].format \in Accepts[calls[k].server],
           calls[k].format \notin Good[calls[k].server]
    PROVE  ~Serves(rows[Asking(k)], calls[k].kind)
  <1> DEFINE row == rows[Asking(k)]
  <1>1. row.server \in Servers /\ "auto" \notin Good[row.server]
    BY ServersAssumption DEF Connections, FormatNames, Formats
  <1>2. CASE ~calls[k].auto
    BY <1>1, <1>2 DEF Tried, Serves
  <1>3. CASE calls[k].auto
    <2>1. PICK m \in DOMAIN Formats :
            /\ calls[k].format = Formats[m]
            /\ \A j \in 1..m - 1 : Formats[j] \notin Accepts[row.server]
      BY <1>3 DEF Tried
    <2>2. row.format = "auto" /\ calls[k].server = row.server
      BY <1>3 DEF Tried
    <2>3. ASSUME NEW i \in DOMAIN Formats, Formats[i] \in Good[row.server],
                 \A j \in 1..i - 1 : Formats[j] \notin Accepts[row.server]
          PROVE  FALSE
      <3>1. m \in 1..3 /\ i \in 1..3
        BY AllFormats
      <3>2. i # m
        BY <2>1, <2>2, <2>3
      <3>3. CASE i < m
        BY <1>1, <2>1, <2>3, <3>1, <3>3, ServersAssumption
      <3>4. CASE m < i
        BY <2>1, <2>2, <2>3, <3>1, <3>4
      <3> QED BY <3>1, <3>2, <3>3, <3>4
    <2> QED BY <1>1, <2>2, <2>3 DEF Serves
  <1> QED
    BY <1>2, <1>3

LEMMA UselessWhenRejected ==
    ASSUME TypeInv, NEW k \in Calls, Tried(k), rows[Asking(k)] \in Connections, ~Taken(k),
           calls[k].kind = "json" => advance_wire_strategy(calls[k].format, calls[k].auto) = "none"
    PROVE  ~Serves(rows[Asking(k)], calls[k].kind)
  <1> DEFINE row == rows[Asking(k)]
  <1>1. /\ row.server \in Servers /\ calls[k].server = row.server
        /\ "auto" \notin Good[row.server]
        /\ Good[row.server] \subseteq Accepts[row.server]
    BY ServersAssumption DEF Connections, FormatNames, Formats, Tried
  <1>2. CASE calls[k].kind # "json"
    BY <1>1, <1>2 DEF Taken, Serves
  <1>3. CASE calls[k].kind = "json" /\ ~calls[k].auto
    BY <1>1, <1>3 DEF Taken, Tried, Serves
  <1>4. CASE calls[k].kind = "json" /\ calls[k].auto
    <2>1. PICK m \in DOMAIN Formats :
            /\ calls[k].format = Formats[m]
            /\ \A j \in 1..m - 1 : Formats[j] \notin Accepts[row.server]
      BY <1>4 DEF Tried
    <2>2. calls[k].auto = TRUE
      BY <1>4 DEF TypeInv, TypeOK, Call
    <2>3. \A i \in DOMAIN Formats : Formats[i] # "none"
      BY DEF Formats
    <2>4. m = 3
      <3>1. advance_wire_strategy(Formats[m], TRUE) = "none"
        BY <1>4, <2>1, <2>2
      <3>2. m # 3 => m + 1 \in DOMAIN Formats
        BY AllFormats
      <3> QED BY <2>3, <3>1, <3>2, AdvanceIsNext
    <2>5. \A i \in DOMAIN Formats : Formats[i] \notin Accepts[row.server]
      BY <1>1, <1>4, <2>1, <2>4, AllFormats DEF Taken
    <2> QED BY <1>1, <1>4, <2>5 DEF Serves, Tried
  <1> QED
    BY <1>2, <1>3, <1>4

\* Who changes a connection disturbs the calls that were given it.
LEMMA RowsStay ==
    ASSUME TypeInv, [Next]_vars, NEW j \in clean', j \in clean,
           \A i \in 1..Len(calls[j].list) : rows[calls[j].list[i]] \in Connections,
           NEW i \in 1..Len(calls[j].list)
    PROVE  rows'[calls[j].list[i]] = rows[calls[j].list[i]]
  <1> DEFINE c == calls[j].list[i]
  <1>0. /\ rows \in [Ids -> Row] /\ j \in Calls /\ calls[j] \in Call
        /\ c \in Ids /\ rows[c] \in Connections
    BY DEF TypeInv, TypeOK, Call
  <1>1. ASSUME NEW d, clean' = Disturbed(d) PROVE c # d
    <2>1. i \in DOMAIN calls[j].list
      BY <1>0 DEF Call
    <2> QED BY <1>0, <1>1, <2>1 DEF Disturbed
  <1>2. ASSUME NEW k \in Calls, Persist(k) PROVE rows'[c] = rows[c]
    BY <1>0, <1>1, <1>2 DEF Persist
  <1>3. CASE Insert
    <2>1. PICK d \in Ids : /\ \A e \in Ids : e >= d <=> rows[e] = Free
                           /\ \E row : rows' = [rows EXCEPT ![d] = row]
      BY <1>3 DEF Insert
    <2>2. rows[d] = Free /\ rows[c] # Free
      BY <1>0, <2>1, BoundsAssumption DEF Ids, Connections, FormatNames, Formats, Free
    <2> QED BY <1>0, <2>1, <2>2
  <1>4. ASSUME NEW request \in requests, WriteUpdate(request) \/ DeleteRow(request)
        PROVE  rows'[c] = rows[c]
    BY <1>0, <1>1, <1>4 DEF WriteUpdate, DeleteRow
  <1>5. ASSUME NEW k \in Calls,
               Start(k) \/ Configure(k) \/ Ask(k) \/ Answer(k) \/ Fault(k) \/ CancelToken(k)
        PROVE  rows' = rows
    BY <1>5 DEF Start, Configure, Ask, Answer, Fault, CancelToken
  <1>6. ASSUME \/ ReadForUpdate \/ SetActive \/ ReadForDelete
               \/ \E request \in requests : Replace(request)
        PROVE  rows' = rows
    BY <1>6 DEF ReadForUpdate, SetActive, ReadForDelete, Replace
  <1> QED
    BY <1>2, <1>3, <1>4, <1>5, <1>6 DEF Next, CallStep, User

\* A call that does not step goes on searching as long as it is clean.
LEMMA OthersSearch ==
    ASSUME TypeInv, [Next]_vars, NEW j \in clean', j \in clean, calls'[j] = calls[j],
           calls[j].step # "idle", Searching(j)
    PROVE  Searching(j)'
  <1>1. \A i \in 1..Len(calls[j].list) : rows'[calls[j].list[i]] = rows[calls[j].list[i]]
    BY RowsStay DEF Searching
  <1>2. /\ j \in Calls /\ calls[j] \in Call
        /\ calls[j].step # "refused" => calls[j].at \in 1..Len(calls[j].list)
    BY DEF TypeInv, TypeOK, CallInPlace
  <1>3. \A i \in 1..Len(calls[j].list) : Useless(j, i)' <=> Useless(j, i)
    BY <1>1 DEF Useless
  <1>4. calls[j].step # "refused" => rows'[Asking(j)] = rows[Asking(j)]
    BY <1>1, <1>2 DEF Asking
  <1>5. Asking(j)' = Asking(j)
    BY DEF Asking
  <1>6. calls[j].step \in {"try", "asked", "again"} => Tried(j)'
    BY <1>4, <1>5 DEF Searching, Tried
  <1>7. \A i \in 1..calls[j].at - 1 : Useless(j, i)'
    <2>1. CASE calls[j].step # "refused"
      BY <1>2, <1>3, <2>1 DEF Searching, Call
    <2>2. CASE calls[j].step = "refused"
      BY <2>2 DEF Searching
    <2> QED BY <2>1, <2>2
  <1> QED
    BY <1>1, <1>2, <1>3, <1>6, <1>7 DEF Searching

\* A call that gives a connection up, for a reason that makes it useless, goes on searching.
LEMMA GivingUpSearches ==
    ASSUME TypeInv, NEW k \in Calls, Searching(k), calls[k].step = "asked",
           Useless(k, calls[k].at), UNCHANGED rows, calls'[k] = GiveUp(calls[k])
    PROVE  Searching(k)'
  <1>1. calls[k] \in Call /\ calls[k].at \in 1..Len(calls[k].list) /\ Len(calls[k].list) \in Nat
    BY DEF TypeInv, TypeOK, CallInPlace, Call
  <1>2. calls'[k].list = calls[k].list /\ calls'[k].kind = calls[k].kind
    BY <1>1 DEF GiveUp, Call
  <1>3. \A i : Useless(k, i)' <=> Useless(k, i)
    BY <1>2 DEF Useless
  <1>4. CASE calls[k].at < Len(calls[k].list)
    <2>1. calls'[k].step = "next" /\ calls'[k].at = calls[k].at + 1
      BY <1>1, <1>4 DEF GiveUp, Call
    <2>2. \A i \in 1..calls'[k].at - 1 : i \in 1..calls[k].at - 1 \/ i = calls[k].at
      BY <1>1, <2>1
    <2> QED BY <1>2, <1>3, <2>1, <2>2 DEF Searching
  <1>5. CASE ~(calls[k].at < Len(calls[k].list))
    <2>1. calls'[k].step = "failed" /\ calls'[k].at = calls[k].at
      BY <1>1, <1>5 DEF GiveUp, Call
    <2>2. calls[k].at = Len(calls[k].list)
      BY <1>1, <1>5
    <2> QED BY <1>2, <1>3, <2>1, <2>2 DEF Searching
  <1> QED
    BY <1>4, <1>5

\* A call that stays at its connection goes on searching, if what it asks for next is right.
LEMMA StayingSearches ==
    ASSUME TypeInv, NEW k \in Calls, Searching(k), UNCHANGED rows,
           calls[k].step \in {"next", "try", "asked", "again", "learned"},
           calls'[k].list = calls[k].list, calls'[k].at = calls[k].at,
           calls'[k].kind = calls[k].kind,
           calls'[k].step \notin {"error", "failed", "refused"},
           calls'[k].step \in {"try", "asked", "again"} => Tried(k)'
    PROVE  Searching(k)'
  <1>1. \A i : Useless(k, i)' <=> Useless(k, i)
    BY DEF Useless
  <1> QED
    BY <1>1 DEF Searching

LEMMA AnswerSearches ==
    ASSUME TypeInv, NEW k \in Calls, Searching(k), Answer(k)
    PROVE  Searching(k)'
  <1>0. /\ calls \in [Calls -> Call] /\ calls[k] \in Call
        /\ calls[k].step = "asked" /\ rows' = rows
        /\ calls[k].at \in 1..Len(calls[k].list)
    BY DEF TypeInv, TypeOK, CallInPlace, Answer
  <1>1. Tried(k) /\ rows[Asking(k)] \in Connections
    BY <1>0 DEF Searching, Asking
  <1> DEFINE next == advance_wire_strategy(calls[k].format, calls[k].auto)
  <1>2. CASE ~Taken(k) /\ calls' = [calls EXCEPT ![k] = Rejected(k)]
    <2>1. CASE calls[k].kind = "json" /\ next # "none"
      <3>1. /\ calls'[k].list = calls[k].list /\ calls'[k].at = calls[k].at
            /\ calls'[k].kind = calls[k].kind /\ calls'[k].step = "again"
            /\ calls'[k].server = calls[k].server /\ calls'[k].auto = calls[k].auto
            /\ calls'[k].format = next
        BY <1>0, <1>2, <2>1 DEF Rejected, Call
      <3>2. calls[k].auto
        BY <2>1 DEF advance_wire_strategy
      <3>3. PICK m \in DOMAIN Formats :
              /\ calls[k].format = Formats[m]
              /\ \A j \in 1..m - 1 : Formats[j] \notin Accepts[rows[Asking(k)].server]
        BY <1>1, <3>2 DEF Tried
      <3>4. calls[k].auto = TRUE
        BY <1>0, <3>2 DEF Call
      <3>5. m # 3 /\ next = Formats[m + 1]
        BY <2>1, <3>3, <3>4, AdvanceIsNext
      <3>6. m + 1 \in DOMAIN Formats
        BY <3>5, AllFormats
      <3>7. Formats[m] \notin Accepts[rows[Asking(k)].server]
        BY <1>1, <1>2, <2>1, <3>3 DEF Taken, Tried
      <3>8. \A j \in 1..(m + 1) - 1 : Formats[j] \notin Accepts[rows[Asking(k)].server]
        BY <3>3, <3>7, AllFormats
      <3>9. Asking(k)' = Asking(k)
        BY <3>1 DEF Asking
      <3>10. Tried(k)'
        BY <1>0, <1>1, <3>1, <3>2, <3>5, <3>6, <3>8, <3>9 DEF Tried
      <3> QED BY <1>0, <3>1, <3>10, StayingSearches
    <2>2. CASE ~(calls[k].kind = "json" /\ next # "none")
      <3>1. Useless(k, calls[k].at)
        BY <1>1, <1>2, <2>2, UselessWhenRejected DEF Useless, Asking
      <3>2. calls'[k] = GiveUp(calls[k])
        BY <1>0, <1>2, <2>2 DEF Rejected
      <3> QED BY <1>0, <3>1, <3>2, GivingUpSearches
    <2> QED BY <2>1, <2>2
  <1>3. CASE Taken(k) /\ Become(k, IF calls[k].kind = "json" /\ calls[k].auto THEN "learned" ELSE "done")
    <2>1. /\ calls'[k].list = calls[k].list /\ calls'[k].at = calls[k].at
          /\ calls'[k].kind = calls[k].kind /\ calls'[k].step \in {"learned", "done"}
      BY <1>0, <1>3 DEF Become, Call
    <2> QED BY <1>0, <2>1, StayingSearches
  <1>4. CASE /\ Taken(k) /\ calls[k].kind = "json" /\ calls[k].format \notin Good[calls[k].server]
             /\ calls' = [calls EXCEPT ![k] = Unparsed(k)]
    <2>1. CASE calls[k].attempt < MaxAttempts
      <3>1. /\ calls'[k].list = calls[k].list /\ calls'[k].at = calls[k].at
            /\ calls'[k].kind = calls[k].kind /\ calls'[k].step = "try"
            /\ calls'[k].server = calls[k].server /\ calls'[k].auto = calls[k].auto
            /\ calls'[k].format = calls[k].format
        BY <1>0, <1>4, <2>1 DEF Unparsed, Call
      <3>2. Tried(k)'
        BY <1>0, <1>1, <3>1 DEF Tried, Asking
      <3> QED BY <1>0, <3>1, <3>2, StayingSearches
    <2>2. CASE ~(calls[k].attempt < MaxAttempts)
      <3>1. Useless(k, calls[k].at)
        BY <1>1, <1>4, UselessWhenTaken DEF Useless, Asking, Taken
      <3>2. calls'[k] = GiveUp(calls[k])
        BY <1>0, <1>4, <2>2 DEF Unparsed
      <3> QED BY <1>0, <3>1, <3>2, GivingUpSearches
    <2> QED BY <2>1, <2>2
  <1> QED
    BY <1>2, <1>3, <1>4 DEF Answer

LEMMA StartSearches ==
    ASSUME TypeInv, NEW k \in Calls, Start(k)
    PROVE  Searching(k)'
  <1>1. PICK call \in Call :
          /\ calls' = [calls EXCEPT ![k] = call]
          /\ call.at = 1 /\ call.step = IF Enabled = {} THEN "refused" ELSE "next"
          /\ \A i \in 1..Len(call.list) : call.list[i] \in Enabled
    BY StartMeans DEF TypeInv
  <1>2. calls'[k] = call /\ rows' = rows
    BY <1>1 DEF TypeInv, TypeOK, Start
  <1>3. \A i \in 1..Len(call.list) : rows[call.list[i]] \in Connections
    BY <1>1, EnabledAre DEF TypeInv
  <1> QED
    BY <1>1, <1>2, <1>3 DEF Searching

LEMMA ConfigureSearches ==
    ASSUME TypeInv, NEW k \in Calls, Searching(k), Configure(k)
    PROVE  Searching(k)'
  <1> DEFINE row == rows[Asking(k)]
  <1>1. /\ calls \in [Calls -> Call] /\ calls[k] \in Call /\ rows' = rows
        /\ calls[k].step = "next"
        /\ calls[k].at \in 1..Len(calls[k].list)
    BY DEF TypeInv, TypeOK, CallInPlace, Configure
  <1>2. row \in Connections /\ Asking(k) \in Ids
    BY <1>1, AskingIsListed DEF Searching, Asking, TypeInv
  <1>3. Asking(k) \in Present
    BY <1>2, PresentIsReal DEF Row
  <1>4. /\ calls'[k].list = calls[k].list /\ calls'[k].at = calls[k].at
        /\ calls'[k].kind = calls[k].kind /\ calls'[k].step = "try"
        /\ calls'[k].server = row.server /\ calls'[k].auto = (row.format = "auto")
        /\ calls'[k].format = initial_wire_strategy(row.format)
    BY <1>1, <1>3 DEF Configure, Call
  <1>5. Asking(k)' = Asking(k)
    BY <1>4 DEF Asking
  <1>6. Tried(k)'
    <2>1. CASE row.format = "auto"
      <3>1. calls'[k].format = Formats[1] /\ 1 \in DOMAIN Formats
        BY <1>4, <2>1, AllFormats DEF initial_wire_strategy
      <3>2. \A j \in 1..1 - 1 : Formats[j] \notin Accepts[row.server]
        OBVIOUS
      <3> QED BY <1>1, <1>4, <1>5, <2>1, <3>1, <3>2 DEF Tried
    <2>2. CASE row.format # "auto"
      BY <1>1, <1>4, <1>5, <2>2 DEF Tried, initial_wire_strategy
    <2> QED BY <2>1, <2>2
  <1> QED
    BY <1>1, <1>4, <1>6, StayingSearches

LEMMA SearchStep == TypeInv /\ SearchInv /\ [Next]_vars => SearchInv'
  <1> SUFFICES ASSUME TypeInv, SearchInv, [Next]_vars,
                      NEW j \in clean', calls'[j].step # "idle"
               PROVE  Searching(j)'
    BY DEF SearchInv
  <1>1. clean' \subseteq clean
    BY DEF Next, CallStep, User, Start, Configure, Ask, Answer, Persist, Fault, CancelToken,
           Insert, ReadForUpdate, SetActive, ReadForDelete, WriteUpdate, DeleteRow, Replace,
           Settings, Drop, Disturbed
  <1>2. j \in clean /\ j \in Calls /\ (calls[j].step # "idle" => Searching(j))
    BY <1>1 DEF SearchInv, TypeInv, TypeOK
  <1>3. ASSUME NEW k \in Calls, k # j, Start(k) \/ CallStep(k) \/ Fault(k) \/ CancelToken(k)
        PROVE  calls'[j] = calls[j]
    BY <1>2, <1>3 DEF TypeInv, TypeOK, Start, CallStep, Configure, Ask, Answer, Persist, Fault,
                CancelToken, Become
  <1>4. User \/ UNCHANGED vars => calls' = calls
    BY DEF User, Settings, Insert, ReadForUpdate, SetActive, ReadForDelete, WriteUpdate,
           DeleteRow, Replace
  <1>5. CASE calls'[j] = calls[j]
    <2>1. calls[j].step # "idle"
      BY <1>5
    <2> QED BY <1>2, <1>5, <2>1, OthersSearch
  <1>6. CASE Start(j)
    BY <1>2, <1>6, StartSearches
  <1>7. CASE Configure(j)
    BY <1>2, <1>7, ConfigureSearches DEF Configure
  <1>8. CASE Ask(j)
    <2>1. /\ calls[j].step \in {"try", "again"} /\ calls \in [Calls -> Call] /\ calls[j] \in Call
          /\ rows' = rows
      BY <1>2, <1>8 DEF Ask, TypeInv, TypeOK
    <2>2. /\ calls'[j].list = calls[j].list /\ calls'[j].at = calls[j].at
          /\ calls'[j].kind = calls[j].kind /\ calls'[j].step \in {"cancelled", "asked"}
          /\ calls'[j].server = calls[j].server /\ calls'[j].auto = calls[j].auto
          /\ calls'[j].format = calls[j].format
      BY <1>2, <1>8, <2>1 DEF Ask, Become, Call
    <2>3. Tried(j)'
      BY <1>2, <2>1, <2>2 DEF Searching, Tried, Asking
    <2> QED BY <1>2, <2>1, <2>2, <2>3, StayingSearches
  <1>9. CASE Answer(j)
    BY <1>2, <1>9, AnswerSearches DEF Answer
  <1>10. CASE Persist(j)
    <2>1. /\ calls[j].step = "learned" /\ calls \in [Calls -> Call] /\ calls[j] \in Call
          /\ calls[j].at \in DOMAIN calls[j].list
      BY <1>2, <1>10, AskingIsListed DEF Persist, TypeInv, TypeOK
    <2>2. rows' = rows
      BY <1>2, <1>10, <2>1 DEF Persist, Disturbed, Asking
    <2>3. /\ calls'[j].list = calls[j].list /\ calls'[j].at = calls[j].at
          /\ calls'[j].kind = calls[j].kind /\ calls'[j].step = "done"
      BY <1>2, <1>10, <2>1 DEF Persist, Become, Call
    <2> QED BY <1>2, <2>1, <2>2, <2>3, StayingSearches
  <1>11. CASE Fault(j)
    BY <1>11 DEF Fault
  <1>12. CASE CancelToken(j)
    BY <1>5, <1>12 DEF CancelToken
  <1> QED
    BY <1>3, <1>4, <1>5, <1>6, <1>7, <1>8, <1>9, <1>10, <1>11, <1>12 DEF Next, CallStep

\* No provider is missed: a call that no fault, cancel or edit disturbed fails only if none of
\* the connections it was given could have served it (the loops over connections, formats and
\* attempts of model_fallback.rs and inference.rs).
THEOREM ProviderIsFound == Spec => []ServingProviderIsFound
  <1>1. Init => SearchInv
    BY DEF Init, Idle, SearchInv
  <1>2. TypeInv /\ SearchInv => ServingProviderIsFound
    <2> SUFFICES ASSUME TypeInv, SearchInv, NEW k \in clean,
                        calls[k].step \in {"failed", "error"}, NEW i \in DOMAIN calls[k].list
                 PROVE  Useless(k, i)
      BY DEF ServingProviderIsFound, Useless
    <2>1. Searching(k) /\ calls[k] \in Call
      BY DEF SearchInv, TypeInv, TypeOK
    <2>2. calls[k].at = Len(calls[k].list) /\ i \in 1..Len(calls[k].list)
      BY <2>1 DEF Searching, Call
    <2>3. i \in 1..calls[k].at - 1 \/ i = calls[k].at
      BY <2>1, <2>2 DEF Call
    <2> QED BY <2>1, <2>3 DEF Searching
  <1> QED
    BY <1>1, <1>2, SearchStep, TypeCorrect, PTL DEF Spec

=============================================================================
