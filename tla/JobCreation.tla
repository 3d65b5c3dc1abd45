----------------------------- MODULE JobCreation -----------------------------
(***************************************************************************)
(* What POST /jobs promises, with no tables or transactions in sight: for  *)
(* every request (a user and a payload) there is at most one job at a      *)
(* time; whoever is told a job is told the one there is; a job that has    *)
(* been deleted is never told again, nor is its id used a second time.     *)
(***************************************************************************)
CONSTANTS Keys, Jobs

VARIABLES
  live,   \* [Keys -> SUBSET Jobs]: the job there is for a request, if any
  used,   \* SUBSET Jobs: ids ever given to a job
  told    \* SUBSET (Keys \X Jobs): which job clients have been told

creationVars == <<live, used, told>>

CreationInit ==
  /\ live = [k \in Keys |-> {}]
  /\ used = {}
  /\ told = {}

\* The client is told of its job, or its answer is lost.
Answer(k, j) == told' \in {told, told \cup {<<k, j>>}}

Create(k, j) ==
  /\ live[k] = {} /\ j \notin used
  /\ live' = [live EXCEPT ![k] = {j}]
  /\ used' = used \cup {j}
  /\ Answer(k, j)

Repeat(k, j) ==
  /\ j \in live[k]
  /\ Answer(k, j)
  /\ UNCHANGED <<live, used>>

Delete(k) ==
  /\ live' = [live EXCEPT ![k] = {}]
  /\ UNCHANGED <<used, told>>

CreationNext ==
  \E k \in Keys : Delete(k) \/ \E j \in Jobs : Create(k, j) \/ Repeat(k, j)

CreationSpec == CreationInit /\ [][CreationNext]_creationVars
=============================================================================
