---------------------------- MODULE MCChatReply ----------------------------
(***************************************************************************)
(* Instances of ChatReply for TLC: the settings, and how much may happen   *)
(* to a message under each.                                                *)
(***************************************************************************)
EXTENDS ChatReply

AllModes == ModeTypes
\* Neither typed state nor thought blocks.
Plain == {m \in ModeTypes : ~m.typed /\ ~m.thoughts}

\* A plain reply meets two requests, the others one. A typed reply with thought
\* blocks meets no fault: its phases are those of the typed reply without, its
\* writes those of the legacy reply with thought blocks.
RequestsPerMode == [m \in ModeTypes |-> IF m \in Plain THEN 2 ELSE 1]
FaultsPerMode == [m \in ModeTypes |-> IF m.typed /\ m.thoughts THEN 0 ELSE 1]
=============================================================================
