---------------------------- MODULE JobLifecycle ----------------------------
(***************************************************************************)
(* What a client of the API may rely on when it polls a job: the states a  *)
(* job goes through and when its attempts counter moves, with no outbox,   *)
(* queue or worker in sight.  Completed and failed are final; the counter  *)
(* grows by one with every execution and at no other time; an execution    *)
(* begins only when none is under way.                                     *)
(***************************************************************************)
EXTENDS Naturals

CONSTANT Jobs

VARIABLES state, attempts

lifeVars == <<state, attempts>>

LifeInit ==
  /\ state = [j \in Jobs |-> "absent"]
  /\ attempts = [j \in Jobs |-> 0]

Become(j, from, to) ==
  /\ state[j] \in from
  /\ state' = [state EXCEPT ![j] = to]

Quietly(j, from, to) == Become(j, from, to) /\ UNCHANGED attempts

Begin(j) ==
  /\ Become(j, {"pending", "queued"}, "running")
  /\ attempts' = [attempts EXCEPT ![j] = @ + 1]

LifeStep(j) ==
  \/ Quietly(j, {"absent"}, "pending")
  \/ Begin(j)
  \/ \E s \in {"completed", "failed", "queued"} : Quietly(j, {"running"}, s)
  \/ Quietly(j, {"pending", "running", "queued", "completed", "failed"},
             "deleted")

LifeNext == \E j \in Jobs : LifeStep(j)

LifeSpec == LifeInit /\ [][LifeNext]_lifeVars
=============================================================================
