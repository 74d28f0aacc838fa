---------------------------- MODULE JobLifecycle ----------------------------
(***************************************************************************)
(* What the generation queue promises about the rows of generation_jobs,   *)
(* whatever the worker, the tasks, the cancel requests and the crashes do  *)
(* in between.  A row is created queued, becomes running only when a claim *)
(* chooses it under the concurrency cap and in creation order, goes back   *)
(* to queued only from running, and once settled (completed, failed or     *)
(* cancelled) is never active again.  Deleting the row's owner deletes it  *)
(* for good (ids are AUTOINCREMENT, so an id is never used twice).         *)
(*                                                                         *)
(* JobQueue implements this specification; see JobQueueProofs.             *)
(***************************************************************************)
EXTENDS Integers, FiniteSets

CONSTANTS
    Jobs,       \* ids of the rows, numbered in creation order
    Story,      \* the story whose outline a job rewrites, NoStory for the other jobs
    NoStory,
    ClaimLimit  \* most jobs one claim may start

VARIABLES status, cap

lifecycleVars == <<status, cap>>

Settled == {"completed", "failed", "cancelled"}
Active == {"queued", "running"}
Status == {"none", "deleted"} \cup Active \cup Settled

RowsIn(st, s) == {j \in Jobs : s[j] = st}
Queued == RowsIn("queued", status)
Running == RowsIn("running", status)

\* A job that rewrites the outline of a story waits while another one of that story runs.
OutlineBusy(j) ==
    /\ Story[j] # NoStory
    /\ \E r \in Running : Story[r] = Story[j]

Claimable == {j \in Queued : ~OutlineBusy(j)}

FreeSlots == LET free == cap - Cardinality(Running)
             IN  IF free < 0 THEN 0 ELSE IF free < ClaimLimit THEN free ELSE ClaimLimit

\* S is what "ORDER BY created_at LIMIT FreeSlots" returns.
OldestClaimable(S) ==
    /\ S \subseteq Claimable
    /\ Cardinality(S) <= FreeSlots
    /\ \A j \in Claimable \ S :
          /\ \A i \in S : i < j
          /\ Cardinality(S) = FreeSlots

LInit ==
    /\ status = [j \in Jobs |-> "none"]
    /\ cap \in Nat \ {0}

Submit(j) ==
    /\ status[j] = "none"
    /\ \A i \in Jobs : i < j => status[i] # "none"
    /\ status' = [status EXCEPT ![j] = "queued"]
    /\ UNCHANGED cap

Claim(S) ==
    /\ OldestClaimable(S)
    /\ status' = [j \in Jobs |-> IF j \in S THEN "running" ELSE status[j]]
    /\ UNCHANGED cap

\* A restart requeues and also forgets a concurrency set at run time; S = {} is a
\* change of the setting alone.
Requeue(S) ==
    /\ S \subseteq Running
    /\ status' = [j \in Jobs |-> IF j \in S THEN "queued" ELSE status[j]]
    /\ cap' \in Nat \ {0}

Settle(j) ==
    /\ status[j] \in Active \cup Settled
    /\ \E st \in Settled : status' = [status EXCEPT ![j] = st]
    /\ UNCHANGED cap

Delete(j) ==
    /\ status[j] \in Active \cup Settled
    /\ status' = [status EXCEPT ![j] = "deleted"]
    /\ UNCHANGED cap

LNext ==
    \/ \E j \in Jobs : Submit(j) \/ Settle(j) \/ Delete(j)
    \/ \E S \in SUBSET Jobs : Claim(S) \/ Requeue(S)

LSpec == LInit /\ [][LNext]_lifecycleVars
=============================================================================
