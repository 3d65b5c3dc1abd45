------------------------- MODULE JobLifecycleProofs -------------------------
(***************************************************************************)
(* Proofs of what holds in the pipeline while asynq never gets a second    *)
(* task for one piece of work: executions of a job exclude each other,     *)
(* attempts are counted truly and are bounded, and the pipeline implements *)
(* JobLifecycle.  The argument counts what carries a job, which is one     *)
(* event at most: as a row, as a task, or as an execution.                 *)
(***************************************************************************)
EXTENDS JobPipelineProofs

\* An execution that has counted its attempt.
Acting(x) == xphase[x] \in {"sleeping", "succeeded", "refused"}

Runs(x, e) == Busy(x) /\ xevent[x] = e

\* The event is on its way, or an execution works on it.
Alive(e) == EventInFlight(e) \/ \E x \in Executors : Runs(x, e)

\* An event becomes one task, and the task one execution.
OneTask ==
  /\ \A e \in Events : waiting[e] <= accepted[e]
  /\ \A x \in Executors :
       Busy(x) => accepted[xevent[x]] = 1 /\ waiting[xevent[x]] = 0
  /\ \A x, y \in Executors : \A e \in Events : Runs(x, e) /\ Runs(y, e) => x = y

\* A job has one such event.
OneCarrier ==
  \A e, f \in Events : Alive(e) /\ Alive(f) /\ about[e] = about[f] => e = f

\* The states in which a job waits for an execution, if it still exists.
Idling == {"pending", "queued", "deleted"}

\* The state column says how far the event of a job has come, and what an
\* execution remembers is what the columns say.
StateFits ==
  /\ \A e \in Events : EventInFlight(e) => state[about[e]] \in Idling
  /\ \A x \in Executors : xphase[x] = "loaded" => state[Job(x)] \in Idling
  /\ \A x \in Executors :
       Acting(x) =>
         /\ xlimit[x] <= ceiling[Job(x)]
         /\ \/ state[Job(x)] = "deleted"
            \/ state[Job(x)] = "running" /\ xattempt[x] = attempts[Job(x)]

\* The counters of a job; one that waits has an attempt left.
CountersFit ==
  \A j \in Jobs :
    /\ attempts[j] = starts[j]
    /\ limit[j] <= ceiling[j]
    /\ starts[j] <= ceiling[j]
    /\ state[j] \in {"pending", "queued"} => starts[j] < ceiling[j]
    /\ state[j] = "absent" => starts[j] = 0 /\ \A e \in Events : about[e] # j

CarrierInv == OneTask /\ OneCarrier /\ StateFits /\ CountersFit

LEMMA CarrierInit == Init => CarrierInv
<1> SUFFICES ASSUME Init PROVE CarrierInv
  OBVIOUS
<1> USE OutboxAssumption DEF Init, OutboxInit
<1>1. \A e \in Events : ~ EventInFlight(e)
  BY DEF EventInFlight, Held
<1>2. \A x \in Executors : ~ Busy(x) /\ ~ Acting(x) /\ xphase[x] # "loaded"
  BY DEF Busy, Acting
<1>3. OneTask
  BY <1>2 DEF OneTask, Runs
<1>4. OneCarrier
  BY <1>1, <1>2 DEF OneCarrier, Alive, Runs
<1>5. StateFits
  BY <1>1, <1>2 DEF StateFits
<1>6. CountersFit
  BY DEF CountersFit
<1> QED
  BY <1>3, <1>4, <1>5, <1>6 DEF CarrierInv

-----------------------------------------------------------------------------
(* What is alive *)

\* An event that is alive has been written, about a job.
LEMMA AliveIsWritten ==
  ASSUME Base, NEW e \in Events, Alive(e)
  PROVE  row[e] # "absent" /\ about[e] \in Jobs
<1> USE DEF Base
<1>1. row[e] # "absent"
  BY DEF IInv, TypeOK, AbsentIsFresh, BatchMatchesPhase, Phase, Linked, Alive,
     Runs, EventInFlight, Held
<1> QED
  BY <1>1 DEF Linked

\* The event of an execution is nowhere else.
LEMMA BusyIsOut ==
  ASSUME Base, OneTask, NoDuplicateTasks, NEW x \in Executors, Busy(x)
  PROVE  ~ EventInFlight(xevent[x])
<1> USE DEF Base
<1>1. /\ xevent[x] \in Events
      /\ accepted[xevent[x]] = 1
      /\ waiting[xevent[x]] = 0
  BY JobOfBusy DEF OneTask
<1>2. PendingIsFresh /\ "redisUnknown" \notin Faults
  BY DEF IInv, NoDuplicateTasks, DuplicatingFaults
<1> QED
  BY <1>1, <1>2 DEF EventInFlight, Held, PendingIsFresh

\* Written events stay about their job; nothing comes alive again.
LEMMA FewerCarriers ==
  ASSUME Base, OneCarrier,
         \A e \in Events : Alive(e)' => Alive(e),
         \A e \in Events : row[e] # "absent" => about'[e] = about[e]
  PROVE  OneCarrier'
  BY AliveIsWritten DEF OneCarrier

-----------------------------------------------------------------------------
(* The steps that begin no execution and end none *)

\* A poller moves an event on its way, never back onto it: what Redis has a
\* task for is not offered again.
LEMMA PollerAddsNothing ==
  ASSUME Base, NoDuplicateTasks, NEW p \in Pollers, PollerStep(p),
         NEW e \in Events
  PROVE  /\ EventInFlight(e)' => EventInFlight(e)
         /\ waiting[e] <= accepted[e] => waiting'[e] <= accepted'[e]
         /\ accepted[e] > 0 =>
              accepted'[e] = accepted[e] /\ waiting'[e] = waiting[e]
<1> USE DEF Base, IInv, TypeOK, RowState, Phase, EventInFlight, Held
<1>1. PendingIsFresh /\ "redisUnknown" \notin Faults
  BY DEF NoDuplicateTasks, DuplicatingFaults
<1>2. CASE Claim(p)
  BY <1>2, ClaimableIsFree DEF Claim
<1>3. CASE CommitBatch(p) \/ CommitBatchUnknown(p)
  BY <1>3 DEF CommitBatch, CommitBatchUnknown, MarkPublished, LeavePoll
<1>4. CASE RollbackBatch(p) \/ PollerDies(p)
  BY <1>4 DEF RollbackBatch, PollerDies, LeavePoll
<1>5. ASSUME NEW f \in Events, EnqueueOK(p, f)
      PROVE  /\ EventInFlight(e)' => EventInFlight(e)
             /\ waiting[e] <= accepted[e] => waiting'[e] <= accepted'[e]
             /\ accepted[e] > 0 =>
                  accepted'[e] = accepted[e] /\ waiting'[e] = waiting[e]
  <2>1. f \in batch[p] /\ accepted[f] = 0
    BY <1>1, <1>5 DEF EnqueueOK, NextOf, PendingIsFresh
  <2>2. \A q \in Pollers : batch'[q] \subseteq batch[q]
    BY <1>5 DEF EnqueueOK, Handled
  <2>3. /\ row' = row
        /\ waiting'[f] = waiting[f] + 1 /\ accepted'[f] = accepted[f] + 1
        /\ e # f => waiting'[e] = waiting[e] /\ accepted'[e] = accepted[e]
    BY <1>5 DEF EnqueueOK, StoreTask
  <2> QED
    BY <2>1, <2>2, <2>3
<1>6. ASSUME NEW f \in Events,
             EnqueueRejected(p, f) \/ UnpublishFails(p, f)
      PROVE  /\ UNCHANGED <<waiting, accepted>>
             /\ EventInFlight(e)' => EventInFlight(e)
  BY <1>6 DEF EnqueueRejected, UnpublishFails, Handled
<1>7. ASSUME NEW f \in Events, Unpublish(p, f)
      PROVE  /\ UNCHANGED <<waiting, accepted>>
             /\ EventInFlight(e)' => EventInFlight(e)
  BY <1>7 DEF Unpublish, NextOf, Handled
<1>8. \A f \in Events : ~ EnqueueUnknown(p, f)
  BY <1>1 DEF EnqueueUnknown
<1> QED
  BY <1>2, <1>3, <1>4, <1>5, <1>6, <1>7, <1>8 DEF PollerStep

LEMMA RelayKeepsCarrier ==
  ASSUME Base, Base', CarrierInv, NoDuplicateTasks,
         NEW p \in Pollers, RelayStep(p)
  PROVE  CarrierInv'
<1> USE DEF CarrierInv
<1>1. /\ UNCHANGED <<jobVars, execVars, histVars, about>>
      /\ PollerStep(p)
  BY PollerKeepsRows DEF RelayStep, Base
<1> USE DEF jobVars, execVars, histVars
<1>2. \A x \in Executors : Busy(x) => xevent[x] \in Events
  BY JobOfBusy
<1>3. OneTask'
  <2>1. \A e \in Events : waiting'[e] <= accepted'[e]
    BY <1>1, PollerAddsNothing DEF OneTask
  <2>2. \A x \in Executors :
          Busy(x)' => accepted'[xevent'[x]] = 1 /\ waiting'[xevent'[x]] = 0
    BY <1>1, <1>2, PollerAddsNothing DEF OneTask, Busy
  <2>3. \A x, y \in Executors : \A e \in Events :
          Runs(x, e)' /\ Runs(y, e)' => x = y
    BY <1>1 DEF OneTask, Runs, Busy
  <2> QED
    BY <2>1, <2>2, <2>3 DEF OneTask
<1>4. \A e \in Events : EventInFlight(e)' => EventInFlight(e)
  BY <1>1, PollerAddsNothing
<1>5. OneCarrier'
  <2>1. \A e \in Events : Alive(e)' => Alive(e)
    BY <1>1, <1>4 DEF Alive, Runs, Busy
  <2> QED
    BY <1>1, <2>1, FewerCarriers
<1>6. StateFits'
  BY <1>1, <1>4 DEF StateFits, Job, Acting
<1>7. CountersFit'
  BY <1>1 DEF CountersFit
<1> QED
  BY <1>3, <1>5, <1>6, <1>7

\* A task leaves the queue and becomes an execution.
LEMMA DequeueKeepsCarrier ==
  ASSUME Base, Base', CarrierInv, NoDuplicateTasks,
         NEW x \in Executors, NEW e \in Events, Dequeue(x, e)
  PROVE  CarrierInv'
<1> USE DEF CarrierInv, Base, PipelineTypeOK, TypeOK
<1>1. /\ waiting[e] = 1 /\ accepted[e] = 1
      /\ waiting'[e] = 0
      /\ \A f \in Events \ {e} : waiting'[f] = waiting[f]
  <2>1. accepted[e] <= 1
    BY DEF IInv, NoDoubleHandOver, NoDuplicateTasks, DuplicatingFaults
  <2>2. /\ waiting[e] > 0
        /\ waiting' = [waiting EXCEPT ![e] = @ - 1]
    BY DEF Dequeue, TakeTask
  <2>3. waiting[e] <= accepted[e]
    BY DEF OneTask
  <2>4. waiting \in [Events -> Nat] /\ accepted[e] \in Nat
    OBVIOUS
  <2> HIDE DEF CarrierInv, Base
  <2>5. waiting[e] \in Nat
    BY <2>4
  <2>6. waiting[e] = 1 /\ accepted[e] = 1
    BY <2>1, <2>2, <2>3, <2>4, <2>5
  <2>7. /\ waiting'[e] = waiting[e] - 1
        /\ \A f \in Events \ {e} : waiting'[f] = waiting[f]
    BY <2>2, <2>4
  <2> QED
    BY <2>6, <2>7
<1>2. /\ UNCHANGED <<row, about, batch, accepted, jobVars, xlimit, xattempt, histVars>>
      /\ ~ Busy(x)
      /\ xphase'[x] = "loaded" /\ xevent'[x] = e
      /\ \A y \in Executors \ {x} : xphase'[y] = xphase[y] /\ xevent'[y] = xevent[y]
  BY DEF Dequeue, Busy
<1> USE DEF jobVars, histVars
<1>3. \A y \in Executors : Busy(y) => xevent[y] # e /\ xevent[y] \in Events
  BY <1>1, JobOfBusy DEF OneTask
<1>4. \A f \in Events : EventInFlight(f)' => EventInFlight(f)
  BY <1>1, <1>2 DEF EventInFlight, Held
<1>5. EventInFlight(e)
  BY <1>1 DEF EventInFlight
<1>6. OneTask'
  <2>1. \A f \in Events : waiting'[f] <= accepted'[f]
    BY <1>1, <1>2 DEF OneTask
  <2>2. \A y \in Executors :
          Busy(y)' => accepted'[xevent'[y]] = 1 /\ waiting'[xevent'[y]] = 0
    BY <1>1, <1>2, <1>3 DEF OneTask, Busy
  <2>3. \A y, z \in Executors : \A f \in Events :
          Runs(y, f)' /\ Runs(z, f)' => y = z
    BY <1>2, <1>3 DEF OneTask, Runs, Busy
  <2> QED
    BY <2>1, <2>2, <2>3 DEF OneTask
<1>7. OneCarrier'
  <2>1. \A f \in Events : Alive(f)' => Alive(f)
    BY <1>2, <1>4, <1>5 DEF Alive, Runs, Busy
  <2> QED
    BY <1>2, <2>1, FewerCarriers
<1>8. StateFits'
  BY <1>2, <1>4, <1>5 DEF StateFits, Job, Acting
<1>9. CountersFit'
  BY <1>2 DEF CountersFit
<1> QED
  BY <1>6, <1>7, <1>8, <1>9

\* The job of an execution has no other execution and no event on its way.
LEMMA Alone ==
  ASSUME Base, OneTask, OneCarrier, NoDuplicateTasks,
         NEW x \in Executors, Busy(x)
  PROVE  /\ \A y \in Executors : Busy(y) /\ Job(y) = Job(x) => y = x
         /\ \A e \in Events : EventInFlight(e) => about[e] # Job(x)
<1>1. Runs(x, xevent[x]) /\ xevent[x] \in Events /\ Alive(xevent[x])
  BY JobOfBusy DEF Runs, Alive
<1>2. ASSUME NEW y \in Executors, Busy(y), Job(y) = Job(x)
      PROVE  y = x
  <2>1. Runs(y, xevent[y]) /\ xevent[y] \in Events /\ Alive(xevent[y])
    BY <1>2, JobOfBusy DEF Runs, Alive
  <2>2. xevent[y] = xevent[x]
    BY <1>1, <1>2, <2>1 DEF OneCarrier, Job
  <2> QED
    BY <1>1, <2>1, <2>2 DEF OneTask
<1>3. ASSUME NEW e \in Events, EventInFlight(e), about[e] = Job(x)
      PROVE  FALSE
  <2>1. e = xevent[x]
    BY <1>1, <1>3 DEF OneCarrier, Alive, Job
  <2> QED
    BY <1>3, <2>1, BusyIsOut
<1> QED
  BY <1>2, <1>3

\* CREATE, PUT and DELETE: a new job gets its first event.
LEMMA ApiKeepsCarrier ==
  ASSUME Base, Base', CarrierInv, ApiStep
  PROVE  CarrierInv'
<1> USE DEF CarrierInv
<1>1. PICK j \in Jobs : \/ \E m \in Limits : \/ \E e \in Events : CreateJob(j, e, m)
                                            \/ UpdateJobDetails(j, m)
                       \/ DeleteJob(j)
  BY DEF ApiStep
<1>2. \A x \in Executors :
        Busy(x) => /\ xevent[x] \in Events /\ row[xevent[x]] # "absent"
                   /\ Job(x) \in Jobs
  BY JobOfBusy
<1>3. \A x \in Executors : Acting(x) \/ xphase[x] = "loaded" => Busy(x)
  BY DEF Acting, Busy
<1>4. /\ state \in [Jobs -> JobState] /\ limit \in [Jobs -> Nat]
      /\ ceiling \in [Jobs -> Nat] /\ starts \in [Jobs -> Nat]
      /\ row \in [Events -> RowState] /\ about \in [Events -> Jobs \cup {NoJob}]
      /\ xlimit \in [Executors -> Nat]
  BY DEF Base, PipelineTypeOK, TypeOK
<1>5. \A e \in Events : EventInFlight(e) => row[e] # "absent" /\ about[e] \in Jobs
  BY AliveIsWritten DEF Alive
<1>6. ASSUME NEW m \in Limits, NEW e \in Events, CreateJob(j, e, m)
      PROVE  CarrierInv'
  <2>1. /\ UNCHANGED <<batch, waiting, accepted, attempts, xphase, xevent,
                       xattempt, xlimit, starts>>
        /\ state[j] = "absent" /\ state' = [state EXCEPT ![j] = "pending"]
        /\ limit' = [limit EXCEPT ![j] = m]
        /\ ceiling' = [ceiling EXCEPT ![j] = m]
        /\ row[e] = "absent" /\ row' = [row EXCEPT ![e] = "unpublished"]
        /\ about' = [about EXCEPT ![e] = j]
    BY <1>6 DEF CreateJob, InsertEvent, execVars
  <2>2. /\ m \in Nat /\ m > 0
        /\ starts[j] = 0 /\ \A f \in Events : about[f] # j
    BY <2>1, PipelineAssumption DEF CountersFit
  <2>3. \A x \in Executors :
          /\ Busy(x)' <=> Busy(x)
          /\ Acting(x)' <=> Acting(x)
          /\ Busy(x) => Job(x)' = Job(x) /\ Job(x) # j
    BY <1>2, <1>4, <2>1, <2>2 DEF Busy, Acting, Job
  <2>4. OneTask'
    BY <2>1 DEF OneTask, Runs, Busy
  <2>5. OneCarrier'
    <3>1. ASSUME NEW f \in Events \ {e}, NEW g \in Events \ {e},
                 Alive(f)', Alive(g)', about'[f] = about'[g]
          PROVE  f = g
      <4>1. Alive(f)
        BY <1>4, <2>1, <3>1 DEF EventInFlight, Held, Alive, Runs, Busy
      <4>2. Alive(g)
        BY <1>4, <2>1, <3>1 DEF EventInFlight, Held, Alive, Runs, Busy
      <4>3. about[f] = about[g]
        BY <1>4, <2>1, <3>1
      <4> QED
        BY <4>1, <4>2, <4>3 DEF OneCarrier
    <3>2. about'[e] = j /\ \A f \in Events \ {e} : about'[f] # j
      BY <1>4, <2>1, <2>2
    <3> QED
      BY <3>1, <3>2 DEF OneCarrier
  <2>6. StateFits'
    <3>1. ASSUME NEW f \in Events, EventInFlight(f)'
          PROVE  state'[about'[f]] \in Idling
      <4>1. CASE f = e
        BY <1>4, <2>1, <4>1 DEF Idling
      <4>2. CASE f # e
        <5>1. EventInFlight(f) /\ about'[f] = about[f]
          BY <1>4, <2>1, <3>1, <4>2 DEF EventInFlight, Held
        <5>2. about'[f] = about[f] /\ about[f] \in Jobs \ {j} /\ EventInFlight(f)
          BY <1>5, <2>2, <5>1
        <5> QED
          BY <1>4, <2>1, <5>2 DEF StateFits
      <4> QED
        BY <4>1, <4>2
    <3>2. \A x \in Executors : xphase'[x] = "loaded" => state'[Job(x)'] \in Idling
      BY <1>2, <1>3, <1>4, <2>1, <2>3 DEF StateFits
    <3>3. \A x \in Executors :
            Acting(x)' =>
              /\ xlimit'[x] <= ceiling'[Job(x)']
              /\ \/ state'[Job(x)'] = "deleted"
                 \/ /\ state'[Job(x)'] = "running"
                    /\ xattempt'[x] = attempts'[Job(x)']
      BY <1>2, <1>3, <1>4, <2>1, <2>3 DEF StateFits
    <3> QED
      BY <3>1, <3>2, <3>3 DEF StateFits
  <2>7. CountersFit'
    BY <1>4, <2>1, <2>2 DEF CountersFit
  <2> QED
    BY <2>4, <2>5, <2>6, <2>7
<1>7. ASSUME \/ DeleteJob(j)
             \/ \E m \in Limits : UpdateJobDetails(j, m)
      PROVE  CarrierInv'
  <2>1. /\ UNCHANGED <<row, about, batch, waiting, accepted, attempts, xphase,
                       xevent, xattempt, xlimit, starts>>
        /\ state' \in {state, [state EXCEPT ![j] = "deleted"]}
    BY <1>7 DEF DeleteJob, UpdateJobDetails, outboxVars, execVars, histVars
  <2>2. \A i \in Jobs : /\ limit'[i] <= ceiling'[i]
                       /\ ceiling[i] <= ceiling'[i]
                       /\ ceiling[i] \in Nat /\ ceiling'[i] \in Nat
    <3>1. CASE DeleteJob(j)
      BY <1>4, <3>1 DEF DeleteJob, histVars, CountersFit
    <3>2. ASSUME NEW m \in Limits, UpdateJobDetails(j, m), NEW i \in Jobs
          PROVE  /\ limit'[i] <= ceiling'[i]
                 /\ ceiling[i] <= ceiling'[i]
                 /\ ceiling[i] \in Nat /\ ceiling'[i] \in Nat
      BY <1>4, <3>2, PipelineAssumption DEF UpdateJobDetails, CountersFit
    <3> QED
      BY <1>7, <3>1, <3>2
  <2>3. \A x \in Executors : /\ Acting(x)' <=> Acting(x)
                            /\ Job(x)' = Job(x)
    BY <2>1 DEF Acting, Job
  <2>4. OneTask' /\ OneCarrier'
    <3>1. OneTask'
      BY <2>1 DEF OneTask, Runs, Busy
    <3>2. \A f \in Events : Alive(f)' => Alive(f)
      BY <2>1 DEF EventInFlight, Held, Alive, Runs, Busy
    <3> QED
      BY <2>1, <3>1, <3>2, FewerCarriers
  <2>5. StateFits'
    <3>1. \A i \in Jobs : state'[i] \in {state[i], "deleted"}
      BY <1>4, <2>1
    <3>2. ASSUME NEW f \in Events, EventInFlight(f)'
          PROVE  state'[about'[f]] \in Idling
      <4>1. EventInFlight(f) /\ about'[f] = about[f]
        BY <2>1, <3>2 DEF EventInFlight, Held
      <4>2. about'[f] = about[f] /\ about[f] \in Jobs /\ state[about[f]] \in Idling
        BY <1>5, <4>1 DEF StateFits
      <4> QED
        BY <3>1, <4>2 DEF Idling
    <3>3. \A x \in Executors : xphase'[x] = "loaded" => state'[Job(x)'] \in Idling
      BY <1>2, <1>3, <2>1, <2>3, <3>1 DEF StateFits, Idling
    <3>4. \A x \in Executors :
            Acting(x)' => /\ xlimit'[x] \in Nat
                          /\ xlimit'[x] <= ceiling[Job(x)]
                          /\ Job(x) \in Jobs
                          /\ \/ state'[Job(x)'] = "deleted"
                             \/ /\ state'[Job(x)'] = "running"
                                /\ xattempt'[x] = attempts'[Job(x)']
      BY <1>2, <1>3, <1>4, <2>1, <2>3, <3>1 DEF StateFits
    <3>5. \A x \in Executors : Acting(x)' => xlimit'[x] <= ceiling'[Job(x)']
      BY <2>2, <2>3, <3>4
    <3> QED
      BY <2>3, <3>2, <3>3, <3>4, <3>5 DEF StateFits
  <2>6. CountersFit'
    BY <1>4, <2>1, <2>2 DEF CountersFit
  <2> QED
    BY <2>4, <2>5, <2>6
<1> QED
  BY <1>1, <1>6, <1>7

-----------------------------------------------------------------------------
(* Executions begin, go on and end *)

\* A job whose execution begins was waiting for it, with an attempt left.
LEMMA StartFits ==
  ASSUME Base, CarrierInv, NEW x \in Executors,
         xphase[x] = "loaded", state[Job(x)] \in Live
  PROVE  /\ Busy(x) /\ Job(x) \in Jobs
         /\ state[Job(x)] \in {"pending", "queued"}
         /\ starts[Job(x)] < ceiling[Job(x)]
<1>1. Busy(x) /\ Job(x) \in Jobs
  BY JobOfBusy DEF Busy
<1>2. state[Job(x)] \in {"pending", "queued"}
  BY DEF CarrierInv, StateFits, Idling, Live, Unsettled, Terminal
<1> QED
  BY <1>1, <1>2 DEF CarrierInv, CountersFit

LEMMA StartKeepsCarrier ==
  ASSUME Base, Base', CarrierInv, NoDuplicateTasks,
         NEW x \in Executors, Start(x)
  PROVE  CarrierInv'
<1> DEFINE j == Job(x)
<1>1. /\ xphase[x] = "loaded" /\ state[j] \in Live
      /\ state' = [state EXCEPT ![j] = "running"]
      /\ attempts' = [attempts EXCEPT ![j] = @ + 1]
      /\ starts' = [starts EXCEPT ![j] = @ + 1]
      /\ xphase' = [xphase EXCEPT ![x] = "sleeping"]
      /\ xattempt' = [xattempt EXCEPT ![x] = attempts[j] + 1]
      /\ xlimit' = [xlimit EXCEPT ![x] = limit[j]]
      /\ UNCHANGED <<row, about, batch, waiting, accepted, limit, xevent, ceiling>>
  BY DEF Start, MarkRunning, outboxVars
<1>2. /\ Busy(x) /\ j \in Jobs
      /\ state[j] \in {"pending", "queued"} /\ starts[j] < ceiling[j]
  BY <1>1, StartFits
<1>3. /\ \A y \in Executors : xphase[y] # "idle" /\ about[xevent[y]] = j => y = x
      /\ \A e \in Events : EventInFlight(e) => about[e] # j
  BY <1>2, Alone DEF CarrierInv, Busy, Job
<1>4. /\ state \in [Jobs -> JobState] /\ limit \in [Jobs -> Nat]
      /\ ceiling \in [Jobs -> Nat] /\ starts \in [Jobs -> Nat]
      /\ attempts \in [Jobs -> Nat] /\ xphase \in [Executors -> ExecPhase]
      /\ xlimit \in [Executors -> Nat] /\ xattempt \in [Executors -> Nat]
  BY DEF Base, PipelineTypeOK
<1>5. \A y \in Executors \ {x} :
        /\ xphase'[y] = xphase[y] /\ xattempt'[y] = xattempt[y]
        /\ xlimit'[y] = xlimit[y]
  BY <1>1, <1>4
<1>6. /\ xphase'[x] = "sleeping" /\ xattempt'[x] = attempts[j] + 1
      /\ xlimit'[x] = limit[j] /\ xphase[x] # "idle"
  BY <1>1, <1>4
<1>7. OneTask'
  BY <1>1, <1>5, <1>6 DEF CarrierInv, OneTask, Runs, Busy
<1>8. \A e \in Events : EventInFlight(e)' => EventInFlight(e)
  BY <1>1 DEF EventInFlight, Held
<1>9. OneCarrier'
  <2>1. \A e \in Events : Alive(e)' => Alive(e)
    BY <1>1, <1>5, <1>6 DEF Alive, EventInFlight, Held, Runs, Busy
  <2> QED
    BY <1>1, <2>1, FewerCarriers DEF CarrierInv
<1>10. StateFits'
  <2>1. ASSUME NEW e \in Events, EventInFlight(e)'
        PROVE  state'[about'[e]] \in Idling
    <3>1. EventInFlight(e)
      BY <1>1, <2>1 DEF EventInFlight, Held
    <3>2. about[e] \in Jobs \ {j} /\ state[about[e]] \in Idling
      BY <1>3, <3>1, AliveIsWritten DEF CarrierInv, StateFits, Alive
    <3> QED
      BY <1>1, <1>4, <3>2
  <2>2. ASSUME NEW y \in Executors \ {x}, xphase[y] # "idle"
        PROVE  /\ Job(y) \in Jobs \ {j}
               /\ state'[Job(y)] = state[Job(y)]
               /\ attempts'[Job(y)] = attempts[Job(y)]
    <3>1. Job(y) \in Jobs \ {j}
      BY <1>3, <2>2, JobOfBusy DEF Busy, Job
    <3> QED
      BY <1>1, <1>4, <3>1
  <2>3. ASSUME NEW y \in Executors, xphase'[y] = "loaded"
        PROVE  state'[about'[xevent'[y]]] \in Idling
    BY <1>1, <1>5, <1>6, <2>2, <2>3 DEF CarrierInv, StateFits, Job
  <2>4. ASSUME NEW y \in Executors,
               xphase'[y] \in {"sleeping", "succeeded", "refused"}
        PROVE  LET i == about'[xevent'[y]] IN
               /\ xlimit'[y] <= ceiling'[i]
               /\ \/ state'[i] = "deleted"
                  \/ state'[i] = "running" /\ xattempt'[y] = attempts'[i]
    <3>1. CASE y = x
      BY <1>1, <1>2, <1>4, <1>6, <3>1 DEF CarrierInv, CountersFit, Job
    <3>2. CASE y # x
      BY <1>1, <1>5, <2>2, <2>4, <3>2 DEF CarrierInv, StateFits, Acting, Job
    <3> QED
      BY <3>1, <3>2
  <2> QED
    BY <2>1, <2>3, <2>4 DEF StateFits, Acting, Job
<1>11. CountersFit'
  BY <1>1, <1>2, <1>4 DEF CarrierInv, CountersFit
<1> QED
  BY <1>7, <1>9, <1>10, <1>11 DEF CarrierInv

\* The webhook has answered: nothing is written.
LEMMA WebhookKeepsCarrier ==
  ASSUME Base, Base', CarrierInv, NEW x \in Executors,
         WebhookSucceeds(x) \/ WebhookFails(x)
  PROVE  CarrierInv'
<1>1. UNCHANGED <<row, about, batch, waiting, accepted, state, attempts, limit,
                  xevent, xattempt, xlimit, starts, ceiling>>
  BY DEF WebhookSucceeds, WebhookFails, Advance, outboxVars, jobVars, histVars
<1>2. /\ xphase[x] = "sleeping" /\ xphase'[x] \in {"succeeded", "refused"}
      /\ \A y \in Executors \ {x} : xphase'[y] = xphase[y]
  BY DEF WebhookSucceeds, WebhookFails, Advance, Base, PipelineTypeOK
<1>3. OneTask'
  BY <1>1, <1>2 DEF CarrierInv, OneTask, Runs, Busy
<1>4. OneCarrier'
  <2>1. \A e \in Events : Alive(e)' => Alive(e)
    BY <1>1, <1>2 DEF Alive, EventInFlight, Held, Runs, Busy
  <2> QED
    BY <1>1, <2>1, FewerCarriers DEF CarrierInv
<1>5. StateFits'
  <2>1. \A e \in Events : EventInFlight(e)' => EventInFlight(e)
    BY <1>1 DEF EventInFlight, Held
  <2> QED
    BY <1>1, <1>2, <2>1 DEF CarrierInv, StateFits, Acting, Job
<1>6. CountersFit'
  BY <1>1 DEF CarrierInv, CountersFit
<1> QED
  BY <1>3, <1>4, <1>5, <1>6 DEF CarrierInv

\* Without SIGTERM the end of an execution puts no task back.
LEMMA EndReleases ==
  ASSUME Base, NoDuplicateTasks, NEW x \in Executors, Ends(x)
  PROVE  /\ UNCHANGED <<waiting, batch, accepted, limit, ceiling>>
         /\ xphase'[x] = "idle"
         /\ \A y \in Executors \ {x} :
              /\ xphase'[y] = xphase[y] /\ xevent'[y] = xevent[y]
              /\ xattempt'[y] = xattempt[y] /\ xlimit'[y] = xlimit[y]
<1>1. /\ Busy(x)
      /\ \/ Finish(x) \/ AbortTask(x)
         \/ (Done(x) \/ Archive(x)) /\ UNCHANGED waiting
      /\ UNCHANGED <<batch, accepted, limit, ceiling>>
  BY EndShape
<1>2. ~ PutBack(x)
  BY DEF PutBack, NoDuplicateTasks, DuplicatingFaults
<1>3. Release(x) /\ UNCHANGED waiting
  BY <1>1, <1>2 DEF Finish, AbortTask, Done, Archive
<1> QED
  BY <1>1, <1>3 DEF Release, Base, PipelineTypeOK

\* What the end of an execution writes: nothing, a start whose handler saw an
\* error, a final outcome, or a retry with its event.
LEMMA EndEffect ==
  ASSUME NEW x \in Executors, Ends(x)
  PROVE  \/ UNCHANGED <<row, about, state, attempts, starts>>
         \/ /\ xphase[x] = "loaded" /\ state[Job(x)] \in Live
            /\ MarkRunning(Job(x))
            /\ UNCHANGED <<row, about>>
         \/ /\ Acting(x)
            /\ \E s \in {"completed", "failed"} : RecordOutcome(x, s)
            /\ UNCHANGED <<row, about, starts>>
         \/ /\ Acting(x) /\ xattempt[x] < xlimit[x]
            /\ RecordOutcome(x, "queued")
            /\ \E e \in Events : InsertEvent(e, Job(x))
            /\ UNCHANGED starts
<1> USE DEF outboxVars, jobVars, histVars, Acting
<1>1. CASE \/ ExecutorDies(x) \/ AbortTask(x) \/ StartMissing(x) \/ StartFails(x)
           \/ RandomFailure(x) \/ CompleteFails(x) \/ OutcomeFails(x)
  BY <1>1 DEF ExecutorDies, AbortTask, StartMissing, StartFails, RandomFailure,
     CompleteFails, OutcomeFails
<1>2. CASE StartUnknown(x)
  BY <1>2 DEF StartUnknown
<1>3. CASE Complete(x) \/ CompleteUnknown(x) \/ GiveUp(x)
  BY <1>3 DEF Complete, CompleteUnknown, GiveUp
<1>4. CASE \E e \in Events : Retry(x, e)
  BY <1>4 DEF Retry
<1> QED
  BY <1>1, <1>2, <1>3, <1>4 DEF Ends

\* The columns of the job of x after the end of x; those of others stay.
LEMMA EndColumns ==
  ASSUME Base, CarrierInv, NEW x \in Executors, Ends(x)
  PROVE  LET j == Job(x) IN
         /\ Busy(x) /\ j \in Jobs
         /\ \A i \in Jobs \ {j} : /\ state'[i] = state[i]
                                  /\ attempts'[i] = attempts[i]
                                  /\ starts'[i] = starts[i]
         /\ \/ /\ UNCHANGED <<row, about>>
               /\ state'[j] = state[j]
               /\ attempts'[j] = attempts[j] /\ starts'[j] = starts[j]
            \/ /\ UNCHANGED <<row, about>>
               /\ state[j] \in {"pending", "queued"} /\ state'[j] = "running"
               /\ attempts'[j] = attempts[j] + 1 /\ starts'[j] = starts[j] + 1
               /\ starts[j] < ceiling[j]
            \/ /\ UNCHANGED <<row, about>>
               /\ state[j] = "running" /\ state'[j] \in {"completed", "failed"}
               /\ attempts'[j] = attempts[j] /\ starts'[j] = starts[j]
            \/ /\ \E e \in Events : InsertEvent(e, j)
               /\ \/ state[j] = "deleted" /\ state'[j] = "deleted"
                  \/ state[j] = "running" /\ state'[j] = "queued"
               /\ attempts'[j] = attempts[j] /\ starts'[j] = starts[j]
               /\ state[j] = "running" => attempts[j] < ceiling[j]
<1> DEFINE j == Job(x)
<1>1. Busy(x) /\ j \in Jobs
  BY EndShape, JobOfBusy
<1>2. /\ state \in [Jobs -> JobState] /\ attempts \in [Jobs -> Nat]
      /\ starts \in [Jobs -> Nat] /\ ceiling \in [Jobs -> Nat]
      /\ xlimit \in [Executors -> Nat] /\ xattempt \in [Executors -> Nat]
  BY DEF Base, PipelineTypeOK
<1>3. CASE UNCHANGED <<row, about, state, attempts, starts>>
  BY <1>1, <1>3
<1>4. CASE /\ xphase[x] = "loaded" /\ state[j] \in Live
           /\ MarkRunning(j)
           /\ UNCHANGED <<row, about>>
  BY <1>1, <1>2, <1>4, StartFits DEF MarkRunning
<1>5. ASSUME Acting(x), NEW s \in {"completed", "failed", "queued"},
             RecordOutcome(x, s), UNCHANGED starts
      PROVE  /\ \A i \in Jobs \ {j} : /\ state'[i] = state[i]
                                      /\ attempts'[i] = attempts[i]
             /\ attempts'[j] = attempts[j]
             /\ \/ state[j] = "deleted" /\ state'[j] = "deleted"
                \/ state[j] = "running" /\ state'[j] = s
             /\ state[j] = "running" => xattempt[x] = attempts[j]
             /\ xlimit[x] <= ceiling[j]
  <2>1. /\ xlimit[x] <= ceiling[j]
        /\ \/ state[j] = "deleted"
           \/ state[j] = "running" /\ xattempt[x] = attempts[j]
    BY <1>5 DEF CarrierInv, StateFits
  <2> QED
    BY <1>1, <1>2, <1>5, <2>1 DEF RecordOutcome, Live, Unsettled, Terminal
<1>6. CASE /\ Acting(x)
           /\ \E s \in {"completed", "failed"} : RecordOutcome(x, s)
           /\ UNCHANGED <<row, about, starts>>
  BY <1>1, <1>5, <1>6
<1>7. CASE /\ Acting(x) /\ xattempt[x] < xlimit[x]
           /\ RecordOutcome(x, "queued")
           /\ \E e \in Events : InsertEvent(e, j)
           /\ UNCHANGED starts
  <2>1. state[j] = "running" => attempts[j] < ceiling[j]
    BY <1>1, <1>2, <1>5, <1>7
  <2> QED
    BY <1>1, <1>5, <1>7, <2>1
<1> QED
  BY <1>3, <1>4, <1>6, <1>7, EndEffect

LEMMA EndKeepsCarrier ==
  ASSUME Base, Base', CarrierInv, NoDuplicateTasks,
         NEW x \in Executors, Ends(x)
  PROVE  CarrierInv'
<1> DEFINE j == Job(x)
<1>1. /\ UNCHANGED <<waiting, batch, accepted, limit, ceiling>>
      /\ xphase'[x] = "idle"
      /\ \A y \in Executors \ {x} :
           /\ xphase'[y] = xphase[y] /\ xevent'[y] = xevent[y]
           /\ xattempt'[y] = xattempt[y] /\ xlimit'[y] = xlimit[y]
  BY EndReleases
<1>2. /\ Busy(x) /\ j \in Jobs
      /\ \A i \in Jobs \ {j} : /\ state'[i] = state[i]
                               /\ attempts'[i] = attempts[i]
                               /\ starts'[i] = starts[i]
  BY EndColumns
<1>3. /\ \A y \in Executors : xphase[y] # "idle" /\ about[xevent[y]] = j => y = x
      /\ \A e \in Events : EventInFlight(e) => about[e] # j
  BY <1>2, Alone DEF CarrierInv, Busy, Job
<1>4. /\ state \in [Jobs -> JobState] /\ limit \in [Jobs -> Nat]
      /\ ceiling \in [Jobs -> Nat] /\ starts \in [Jobs -> Nat]
      /\ attempts \in [Jobs -> Nat]
      /\ row \in [Events -> RowState] /\ about \in [Events -> Jobs \cup {NoJob}]
  BY DEF Base, PipelineTypeOK, TypeOK
<1>5. /\ \/ UNCHANGED <<row, about>>
         \/ \E e \in Events : InsertEvent(e, j) /\ state'[j] \in Idling
      /\ \A f \in Events : row[f] # "absent" => row'[f] = row[f] /\ about'[f] = about[f]
  BY <1>4, EndColumns DEF InsertEvent, Idling
<1>6. ASSUME NEW f \in Events, row[f] # "absent", Alive(f)'
      PROVE  Alive(f) /\ about'[f] = about[f] /\ about[f] \in Jobs \ {j}
  <2>1. /\ row'[f] = row[f] /\ about'[f] = about[f]
        /\ about[f] \in Jobs
    BY <1>5, <1>6 DEF Base, Linked
  <2>2. CASE EventInFlight(f)'
    <3>1. EventInFlight(f)
      BY <1>1, <2>1, <2>2 DEF EventInFlight, Held
    <3> QED
      BY <1>3, <2>1, <3>1 DEF Alive
  <2>3. ASSUME NEW y \in Executors, xphase'[y] # "idle", xevent'[y] = f
        PROVE  Alive(f) /\ about[f] # j
    <3>1. y # x /\ xphase[y] # "idle" /\ xevent[y] = f
      BY <1>1, <2>3
    <3> QED
      BY <1>3, <3>1 DEF Alive, Runs, Busy
  <2> QED
    BY <1>6, <2>1, <2>2, <2>3 DEF Alive, Runs, Busy
<1>7. ASSUME NEW f \in Events, row[f] = "absent", Alive(f)'
      PROVE  /\ InsertEvent(f, j)
             /\ about'[f] = j /\ state'[j] \in Idling
  <2>1. row'[f] # "absent"
    BY <1>7 DEF Base, IInv, TypeOK, AbsentIsFresh, BatchMatchesPhase, Phase,
       Linked, Alive, Runs, EventInFlight, Held
  <2> QED
    BY <1>4, <1>5, <1>7, <2>1 DEF InsertEvent
<1>8. OneTask'
  BY <1>1 DEF CarrierInv, OneTask, Runs, Busy
<1>9. OneCarrier'
  <2>1. ASSUME NEW f \in Events, NEW g \in Events,
               Alive(f)', Alive(g)', about'[f] = about'[g]
        PROVE  f = g
    <3>1. CASE row[f] # "absent" /\ row[g] # "absent"
      BY <1>6, <2>1, <3>1 DEF CarrierInv, OneCarrier
    <3>2. CASE row[f] = "absent" /\ row[g] = "absent"
      BY <1>4, <1>7, <2>1, <3>2 DEF InsertEvent
    <3>3. CASE row[f] = "absent" /\ row[g] # "absent"
      BY <1>6, <1>7, <2>1, <3>3
    <3>4. CASE row[f] # "absent" /\ row[g] = "absent"
      BY <1>6, <1>7, <2>1, <3>4
    <3> QED
      BY <3>1, <3>2, <3>3, <3>4
  <2> QED
    BY <2>1 DEF OneCarrier
<1>10. StateFits'
  <2>1. ASSUME NEW f \in Events, EventInFlight(f)'
        PROVE  state'[about'[f]] \in Idling
    <3>1. CASE row[f] = "absent"
      BY <1>7, <2>1, <3>1 DEF Alive
    <3>2. CASE row[f] # "absent"
      <4>1. about'[f] = about[f] /\ about[f] \in Jobs \ {j}
        BY <1>6, <2>1, <3>2 DEF Alive
      <4>2. EventInFlight(f)
        BY <1>1, <1>5, <2>1, <3>2 DEF EventInFlight, Held
      <4> QED
        BY <1>2, <4>1, <4>2 DEF CarrierInv, StateFits
    <3> QED
      BY <3>1, <3>2
  <2>2. ASSUME NEW y \in Executors, xphase'[y] # "idle"
        PROVE  LET i == Job(y) IN
               /\ y # x /\ i \in Jobs
               /\ about'[xevent'[y]] = i
               /\ state'[i] = state[i] /\ attempts'[i] = attempts[i]
    <3>1. y # x /\ xphase[y] # "idle" /\ xevent'[y] = xevent[y]
      BY <1>1, <2>2
    <3>2. xevent[y] \in Events /\ row[xevent[y]] # "absent" /\ Job(y) \in Jobs \ {j}
      BY <1>3, <3>1, JobOfBusy DEF Busy, Job
    <3> QED
      BY <1>2, <1>5, <3>1, <3>2 DEF Job
  <2>3. ASSUME NEW y \in Executors, xphase'[y] = "loaded"
        PROVE  state'[about'[xevent'[y]]] \in Idling
    BY <1>1, <2>2, <2>3 DEF CarrierInv, StateFits
  <2>4. ASSUME NEW y \in Executors,
               xphase'[y] \in {"sleeping", "succeeded", "refused"}
        PROVE  LET i == about'[xevent'[y]] IN
               /\ xlimit'[y] <= ceiling'[i]
               /\ \/ state'[i] = "deleted"
                  \/ state'[i] = "running" /\ xattempt'[y] = attempts'[i]
    BY <1>1, <2>2, <2>4 DEF CarrierInv, StateFits, Acting
  <2> QED
    BY <2>1, <2>3, <2>4 DEF StateFits, Acting, Job
<1>11. CountersFit'
  <2>1. ASSUME NEW i \in Jobs
        PROVE  /\ attempts'[i] = starts'[i]
               /\ limit'[i] <= ceiling'[i]
               /\ starts'[i] <= ceiling'[i]
               /\ state'[i] \in {"pending", "queued"} => starts'[i] < ceiling'[i]
    <3>1. /\ attempts[i] = starts[i] /\ limit[i] <= ceiling[i]
          /\ starts[i] <= ceiling[i]
          /\ state[i] \in {"pending", "queued"} => starts[i] < ceiling[i]
          /\ starts[i] \in Nat /\ ceiling[i] \in Nat
      BY <1>4 DEF CarrierInv, CountersFit
    <3>2. CASE i = j
      BY <1>1, <3>1, <3>2, EndColumns
    <3>3. CASE i # j
      BY <1>1, <1>2, <3>1, <3>3
    <3> QED
      BY <3>2, <3>3
  <2>2. state'[j] # "absent"
    <3>1. state[j] # "absent"
      BY <1>2, JobOfBusy DEF CarrierInv, CountersFit, Job
    <3> QED
      BY <3>1, EndColumns
  <2>3. ASSUME NEW i \in Jobs, state'[i] = "absent"
        PROVE  starts'[i] = 0 /\ \A f \in Events : about'[f] # i
    BY <1>2, <1>4, <1>5, <2>2, <2>3 DEF CarrierInv, CountersFit, InsertEvent
  <2> QED
    BY <2>1, <2>3 DEF CountersFit
<1> QED
  BY <1>8, <1>9, <1>10, <1>11 DEF CarrierInv

-----------------------------------------------------------------------------
(* The theorems *)

LEMMA CarrierStep ==
  ASSUME Base, CarrierInv, NoDuplicateTasks, [Next]_vars
  PROVE  CarrierInv'
<1>1. Base'
  BY BaseStep
<1>2. CASE UNCHANGED vars
  BY <1>2 DEF vars, outboxVars, jobVars, execVars, histVars, CarrierInv,
     OneTask, OneCarrier, StateFits, CountersFit, Alive, Runs, Busy, Acting,
     Job, EventInFlight, Held
<1>3. CASE Next
  BY <1>1, <1>3, NextSorted, ApiKeepsCarrier, RelayKeepsCarrier,
     DequeueKeepsCarrier, StartKeepsCarrier, WebhookKeepsCarrier,
     EndKeepsCarrier
<1> QED
  BY <1>2, <1>3

\* Stated as an implication, because which faults occur is a constant.
CarrierIfNoDuplicates == NoDuplicateTasks => CarrierInv

LEMMA CarrierInvariance == Spec => []CarrierIfNoDuplicates
<1>1. Init => CarrierIfNoDuplicates
  BY CarrierInit DEF CarrierIfNoDuplicates
<1>2. Base /\ CarrierIfNoDuplicates /\ [Next]_vars => CarrierIfNoDuplicates'
  BY CarrierStep DEF CarrierIfNoDuplicates, NoDuplicateTasks
<1> QED
  BY <1>1, <1>2, BaseInvariance, PTL DEF Spec

\* While asynq has one task for one piece of work, no two goroutines execute
\* a job at a time, although ProcessJobTask takes no lock that outlives its
\* first transaction and never looks at the state it finds.
THEOREM ExecutionsExclude == Spec => []OneExecution
<1>1. Base /\ CarrierIfNoDuplicates => OneExecution
  BY Alone DEF OneExecution, CarrierIfNoDuplicates, CarrierInv
<1> QED
  BY <1>1, CarrierInvariance, BaseInvariance, PTL

\* Then the attempts column, which every outcome overwrites from memory, is
\* the number of executions that reached "running".
THEOREM AttemptsAreCounted == Spec => []AttemptsCountStarts
<1>1. CarrierIfNoDuplicates => AttemptsCountStarts
  BY DEF AttemptsCountStarts, CarrierIfNoDuplicates, CarrierInv, CountersFit
<1> QED
  BY <1>1, CarrierInvariance, PTL

\* And a job is executed at most as often as the largest max_retries it ever
\* had, whatever PUT requests do to max_retries while it is executed.
THEOREM StartsAreBounded == Spec => []StartsBounded
<1>1. CarrierIfNoDuplicates => StartsBounded
  BY DEF StartsBounded, CarrierIfNoDuplicates, CarrierInv, CountersFit
<1> QED
  BY <1>1, CarrierInvariance, PTL

\* Every step of the pipeline is a step of the life of one job, or invisible.
LEMMA LifeStepOrStutter ==
  ASSUME Base, CarrierInv, NoDuplicateTasks, [Next]_vars
  PROVE  [Lifecycle!LifeNext]_(Lifecycle!lifeVars)
<1> USE DEF Lifecycle!LifeNext, Lifecycle!LifeStep, Lifecycle!lifeVars,
    Lifecycle!Quietly, Lifecycle!Begin, Lifecycle!Become
<1>1. state \in [Jobs -> JobState] /\ attempts \in [Jobs -> Nat]
  BY DEF Base, PipelineTypeOK
<1>2. CASE \/ UNCHANGED vars
           \/ \E p \in Pollers : RelayStep(p)
           \/ \E x \in Executors : \/ \E e \in Events : Dequeue(x, e)
                                  \/ WebhookSucceeds(x) \/ WebhookFails(x)
  BY <1>2 DEF vars, jobVars, RelayStep, Dequeue, WebhookSucceeds, WebhookFails
<1>3. CASE ApiStep
  BY <1>3 DEF ApiStep, CreateJob, UpdateJobDetails, DeleteJob, Live, Unsettled,
     Terminal
<1>4. ASSUME NEW x \in Executors, Start(x)
      PROVE  Lifecycle!LifeNext
  <2>1. Job(x) \in Jobs /\ state[Job(x)] \in {"pending", "queued"}
    BY <1>4, StartFits DEF Start
  <2> QED
    BY <1>4, <2>1 DEF Start, MarkRunning
<1>5. ASSUME NEW x \in Executors, Ends(x)
      PROVE  [Lifecycle!LifeNext]_(Lifecycle!lifeVars)
  <2> DEFINE j == Job(x)
  <2>1. state' \in [Jobs -> JobState] /\ attempts' \in [Jobs -> Nat]
    BY <1>5, EndTypes
  <2>2. /\ j \in Jobs
        /\ \A i \in Jobs \ {j} : state'[i] = state[i] /\ attempts'[i] = attempts[i]
    BY <1>5, EndColumns
  <2>3. /\ state' = [state EXCEPT ![j] = state'[j]]
        /\ attempts' = [attempts EXCEPT ![j] = attempts'[j]]
    BY <1>1, <2>1, <2>2
  <2>4. \/ state'[j] = state[j] /\ attempts'[j] = attempts[j]
        \/ /\ state[j] \in {"pending", "queued"} /\ state'[j] = "running"
           /\ attempts'[j] = attempts[j] + 1
        \/ /\ state[j] = "running"
           /\ state'[j] \in {"completed", "failed", "queued"}
           /\ attempts'[j] = attempts[j]
    BY <1>5, EndColumns
  <2>5. attempts'[j] = attempts[j] => attempts' = attempts
    BY <1>1, <2>1, <2>2
  <2>6. state'[j] = state[j] => state' = state
    BY <1>1, <2>1, <2>2
  <2> HIDE DEF j
  <2> QED
    BY <2>2, <2>3, <2>4, <2>5, <2>6
<1> QED
  BY <1>2, <1>3, <1>4, <1>5, NextSorted

\* While tasks are not duplicated the pipeline implements the lifecycle a
\* client sees: completed and failed are final but for DELETE, an execution
\* begins only from pending or queued, and only then does attempts move.
THEOREM PipelineImplementsLifecycle ==
  ASSUME NoDuplicateTasks
  PROVE  Spec => ImplementsLifecycle
<1>1. Init => Lifecycle!LifeInit
  BY DEF Init, Lifecycle!LifeInit
<1>2. Base /\ CarrierIfNoDuplicates /\ [Next]_vars
        => [Lifecycle!LifeNext]_(Lifecycle!lifeVars)
  BY LifeStepOrStutter DEF CarrierIfNoDuplicates
<1> QED
  BY <1>1, <1>2, BaseInvariance, CarrierInvariance, PTL
     DEF Spec, ImplementsLifecycle, Lifecycle!LifeSpec
-----------------------------------------------------------------------------
(* Acknowledged jobs: those of which a handler has accepted a 2xx answer *)

\* What an execution remembers is the attempts column, also of a deleted job.
MemoryFits == \A x \in Executors : Acting(x) => xattempt[x] = attempts[Job(x)]

\* An acknowledged job has no event on its way, and no execution but the one
\* whose outcome is still to be written.
AckFits ==
  \A a \in acked :
    /\ state[a[1]] # "absent"
    /\ a[2] = attempts[a[1]]
    /\ \A e \in Events : EventInFlight(e) => about[e] # a[1]
    /\ \A x \in Executors : Busy(x) /\ Job(x) = a[1] => xphase[x] = "succeeded"

AckInv == MemoryFits /\ AckFits

\* Steps that neither acknowledge nor count nor write events.
LEMMA QuietKeepsAck ==
  ASSUME Base, AckInv, [Next]_vars,
         UNCHANGED <<attempts, acked, xattempt>>,
         \A j \in Jobs : state'[j] = "absent" => state[j] = "absent",
         \A e \in Events : EventInFlight(e)' =>
           \/ EventInFlight(e) /\ about'[e] = about[e]
           \/ state[about'[e]] = "absent",
         \A x \in Executors : Busy(x)' =>
           \/ /\ Busy(x) /\ xevent'[x] = xevent[x]
              /\ \/ xphase'[x] = xphase[x]
                 \/ xphase[x] = "sleeping" /\ xphase'[x] = "refused"
           \/ /\ xphase'[x] = "loaded" /\ xevent'[x] \in Events
              /\ EventInFlight(xevent'[x]) /\ about' = about
  PROVE  AckInv'
<1>1. \A x \in Executors :
        Busy(x)' /\ Busy(x) /\ xevent'[x] = xevent[x] => Job(x)' = Job(x)
  BY BusyKeepsJob
<1>2. MemoryFits'
  <2> SUFFICES ASSUME NEW x \in Executors, Acting(x)'
               PROVE  xattempt'[x] = attempts'[Job(x)']
    BY DEF MemoryFits
  <2>1. Busy(x)' /\ xphase'[x] # "loaded"
    BY DEF Acting, Busy
  <2>2. Acting(x) /\ Job(x)' = Job(x)
    BY <1>1, <2>1 DEF Acting
  <2> QED
    BY <2>2 DEF AckInv, MemoryFits
<1>3. ASSUME NEW a \in acked'
      PROVE  /\ state'[a[1]] # "absent"
             /\ a[2] = attempts'[a[1]]
             /\ \A e \in Events : EventInFlight(e)' => about'[e] # a[1]
             /\ \A x \in Executors :
                  Busy(x)' /\ Job(x)' = a[1] => xphase'[x] = "succeeded"
  <2>1. /\ a \in acked /\ a[1] \in Jobs
        /\ state[a[1]] # "absent"
        /\ a[2] = attempts[a[1]]
        /\ \A e \in Events : EventInFlight(e) => about[e] # a[1]
        /\ \A x \in Executors :
             Busy(x) /\ Job(x) = a[1] => xphase[x] = "succeeded"
    BY <1>3 DEF AckInv, AckFits, Base, PipelineTypeOK
  <2>2. ASSUME NEW x \in Executors, Busy(x)', Job(x)' = a[1]
        PROVE  xphase'[x] = "succeeded"
    <3>1. CASE /\ Busy(x) /\ xevent'[x] = xevent[x]
               /\ \/ xphase'[x] = xphase[x]
                  \/ xphase[x] = "sleeping" /\ xphase'[x] = "refused"
      <4>1. Job(x) = a[1]
        BY <1>1, <2>2, <3>1
      <4> QED
        BY <2>1, <3>1, <4>1
    <3>2. CASE /\ xevent'[x] \in Events
               /\ EventInFlight(xevent'[x]) /\ about' = about
      BY <2>1, <2>2, <3>2 DEF Job
    <3> QED
      BY <2>2, <3>1, <3>2
  <2> QED
    BY <2>1, <2>2
<1> QED
  BY <1>2, <1>3 DEF AckInv, AckFits

\* A handler accepts a 2xx answer: the job of the execution has nothing else under
\* way, so this is its last attempt.
LEMMA AcknowledgingKeepsAck ==
  ASSUME Base, CarrierInv, AckInv, NoDuplicateTasks,
         NEW x \in Executors, WebhookSucceeds(x)
  PROVE  AckInv'
<1> DEFINE j == Job(x)
<1>1. /\ UNCHANGED <<row, about, batch, waiting, state, attempts, xevent,
                     xattempt>>
      /\ acked' = acked \cup {<<j, xattempt[x]>>}
      /\ xphase[x] = "sleeping" /\ xphase'[x] = "succeeded"
      /\ \A y \in Executors \ {x} : xphase'[y] = xphase[y]
  BY DEF WebhookSucceeds, Advance, outboxVars, jobVars, Base, PipelineTypeOK
<1>2. Busy(x) /\ Acting(x) /\ j \in Jobs
  BY <1>1, JobOfBusy DEF Busy, Acting
<1>3. /\ \A y \in Executors : Busy(y) /\ Job(y) = j => y = x
      /\ \A e \in Events : EventInFlight(e) => about[e] # j
  BY <1>2, Alone DEF CarrierInv
<1>4. xattempt[x] = attempts[j] /\ state[j] # "absent"
  BY <1>2 DEF AckInv, MemoryFits, CarrierInv, StateFits
<1>5. MemoryFits'
  BY <1>1 DEF AckInv, MemoryFits, Acting, Job
<1>6. \A e \in Events : EventInFlight(e)' => EventInFlight(e)
  BY <1>1 DEF EventInFlight, Held
<1>7. \A y \in Executors : Busy(y)' => Busy(y) /\ Job(y)' = Job(y)
  BY <1>1 DEF Busy, Job
<1>8. ASSUME NEW a \in acked'
      PROVE  /\ state'[a[1]] # "absent"
             /\ a[2] = attempts'[a[1]]
             /\ \A e \in Events : EventInFlight(e)' => about'[e] # a[1]
             /\ \A y \in Executors :
                  Busy(y)' /\ Job(y)' = a[1] => xphase'[y] = "succeeded"
  <2>1. CASE a[1] = j /\ a[2] = xattempt[x]
    BY <1>1, <1>3, <1>4, <1>6, <1>7, <2>1
  <2>2. CASE a \in acked
    BY <1>1, <1>6, <1>7, <2>2 DEF AckInv, AckFits
  <2> QED
    BY <1>1, <1>8, <2>1, <2>2
<1> QED
  BY <1>5, <1>8 DEF AckInv, AckFits

\* Counting an attempt: the job had not been acknowledged, since an execution
\* of it was about to begin.
LEMMA StartKeepsAck ==
  ASSUME Base, CarrierInv, AckInv, NoDuplicateTasks, [Next]_vars,
         NEW x \in Executors, Start(x)
  PROVE  AckInv'
<1> DEFINE j == Job(x)
<1>1. /\ xphase[x] = "loaded" /\ state[j] \in Live
      /\ state' = [state EXCEPT ![j] = "running"]
      /\ attempts' = [attempts EXCEPT ![j] = @ + 1]
      /\ xphase' = [xphase EXCEPT ![x] = "sleeping"]
      /\ xattempt' = [xattempt EXCEPT ![x] = attempts[j] + 1]
      /\ UNCHANGED <<row, about, batch, waiting, xevent, acked>>
  BY DEF Start, MarkRunning, outboxVars
<1>2. Busy(x) /\ j \in Jobs
  BY <1>1, JobOfBusy DEF Busy
<1>3. \A y \in Executors : Busy(y) /\ Job(y) = j => y = x
  BY <1>2, Alone DEF CarrierInv
<1>4. /\ state \in [Jobs -> JobState] /\ attempts \in [Jobs -> Nat]
      /\ xphase \in [Executors -> ExecPhase]
      /\ xattempt \in [Executors -> Nat]
      /\ acked \in SUBSET (Jobs \X Nat)
  BY DEF Base, PipelineTypeOK
<1>5. \A y \in Executors :
        /\ Job(y)' = Job(y)
        /\ Busy(y)' => Busy(y)
        /\ y # x => xphase'[y] = xphase[y] /\ xattempt'[y] = xattempt[y]
  BY <1>1, <1>2, <1>4 DEF Busy, Job
<1>6. /\ xphase'[x] = "sleeping" /\ xattempt'[x] = attempts[j] + 1
      /\ attempts'[j] = attempts[j] + 1
      /\ \A i \in Jobs \ {j} : /\ attempts'[i] = attempts[i]
                               /\ state'[i] = state[i]
  BY <1>1, <1>2, <1>4
<1>7. \A e \in Events : EventInFlight(e)' => EventInFlight(e)
  BY <1>1 DEF EventInFlight, Held
<1>8. MemoryFits'
  <2> SUFFICES ASSUME NEW y \in Executors, Acting(y)'
               PROVE  xattempt'[y] = attempts'[Job(y)']
    BY DEF MemoryFits
  <2>1. CASE y = x
    BY <1>5, <1>6, <2>1
  <2>2. CASE y # x
    <3>1. Acting(y) /\ Busy(y)
      BY <1>5, <2>2 DEF Acting, Busy
    <3>2. Job(y) \in Jobs \ {j}
      BY <1>3, <2>2, <3>1, JobOfBusy
    <3> QED
      BY <1>5, <1>6, <2>2, <3>1, <3>2 DEF AckInv, MemoryFits
  <2> QED
    BY <2>1, <2>2
<1>9. \A a \in acked : a[1] \in Jobs \ {j}
  BY <1>1, <1>2, <1>4 DEF AckInv, AckFits
<1> HIDE DEF j
<1>10. ASSUME NEW a \in acked'
      PROVE  /\ state'[a[1]] # "absent"
             /\ a[2] = attempts'[a[1]]
             /\ \A e \in Events : EventInFlight(e)' => about'[e] # a[1]
             /\ \A y \in Executors :
                  Busy(y)' /\ Job(y)' = a[1] => xphase'[y] = "succeeded"
  <2>1. a \in acked /\ a[1] \in Jobs \ {j}
    BY <1>1, <1>9, <1>10
  <2>2. /\ state[a[1]] # "absent" /\ a[2] = attempts[a[1]]
        /\ \A e \in Events : EventInFlight(e) => about[e] # a[1]
        /\ \A y \in Executors :
             Busy(y) /\ Job(y) = a[1] => xphase[y] = "succeeded"
    BY <2>1 DEF AckInv, AckFits
  <2>3. Job(x) = j
    BY DEF j
  <2> QED
    BY <1>1, <1>5, <1>6, <1>7, <2>1, <2>2, <2>3
<1> QED
  BY <1>8, <1>10 DEF AckInv, AckFits

\* An execution ends.  It counts or writes an event only if its job has not
\* been acknowledged.
LEMMA EndKeepsAck ==
  ASSUME Base, CarrierInv, AckInv, NoDuplicateTasks, [Next]_vars,
         NEW x \in Executors, Ends(x)
  PROVE  AckInv'
<1> DEFINE j == Job(x)
<1>1. /\ UNCHANGED <<waiting, batch>>
      /\ xphase'[x] = "idle"
      /\ \A y \in Executors \ {x} :
           /\ xphase'[y] = xphase[y] /\ xevent'[y] = xevent[y]
           /\ xattempt'[y] = xattempt[y]
  BY EndReleases
<1>2. /\ Busy(x) /\ j \in Jobs
      /\ \A i \in Jobs \ {j} : /\ state'[i] = state[i]
                               /\ attempts'[i] = attempts[i]
  BY EndColumns
<1>3. /\ \A y \in Executors : Busy(y) /\ Job(y) = j => y = x
      /\ \A e \in Events : EventInFlight(e) => about[e] # j
  BY <1>2, Alone DEF CarrierInv
<1>4. UNCHANGED acked /\ acked \in SUBSET (Jobs \X Nat)
  BY EndShape DEF Base, PipelineTypeOK
<1>5. \A y \in Executors :
        Busy(y)' => /\ y # x /\ Busy(y) /\ Job(y)' = Job(y)
                    /\ Job(y) \in Jobs \ {j}
  <2> SUFFICES ASSUME NEW y \in Executors, Busy(y)'
               PROVE  /\ y # x /\ Busy(y) /\ Job(y)' = Job(y)
                      /\ Job(y) \in Jobs \ {j}
    OBVIOUS
  <2>1. y # x /\ Busy(y) /\ xevent'[y] = xevent[y]
    BY <1>1 DEF Busy
  <2>2. Job(y)' = Job(y)
    BY <2>1, BusyKeepsJob
  <2> QED
    BY <1>3, <2>1, <2>2, JobOfBusy
<1>6. MemoryFits'
  <2> SUFFICES ASSUME NEW y \in Executors, Acting(y)'
               PROVE  xattempt'[y] = attempts'[Job(y)']
    BY DEF MemoryFits
  <2>1. y # x /\ Job(y)' = Job(y) /\ Job(y) \in Jobs \ {j}
    BY <1>5 DEF Acting, Busy
  <2> QED
    BY <1>1, <1>2, <2>1 DEF AckInv, MemoryFits, Acting
<1>7. ASSUME NEW a \in acked, a[1] = j
      PROVE  /\ UNCHANGED <<row, about>>
             /\ attempts'[j] = attempts[j] /\ state'[j] # "absent"
  <2>1. xphase[x] = "succeeded" /\ state[j] # "absent"
    BY <1>2, <1>7 DEF AckInv, AckFits
  <2>2. ~ \E e \in Events : Retry(x, e)
    BY <2>1 DEF Retry
  <2>3. ~ StartUnknown(x)
    BY <2>1 DEF StartUnknown
  <2>4. UNCHANGED <<row, about>>
    BY <2>2 DEF Ends, ExecutorDies, AbortTask, StartMissing, StartFails,
       StartUnknown, RandomFailure, Complete, CompleteFails, CompleteUnknown,
       GiveUp, OutcomeFails, outboxVars
  <2>5. ~ \E e \in Events : InsertEvent(e, j)
    <3> SUFFICES ASSUME NEW e \in Events, InsertEvent(e, j) PROVE FALSE
      OBVIOUS
    <3> QED
      BY <2>4 DEF InsertEvent, Base, PipelineTypeOK, TypeOK
  <2>6. state[j] \notin {"pending", "queued"}
    <3>1. Acting(x)
      BY <2>1 DEF Acting
    <3> QED
      BY <3>1 DEF CarrierInv, StateFits
  <2> QED
    BY <2>1, <2>4, <2>5, <2>6, EndColumns
<1>8. ASSUME NEW e \in Events, EventInFlight(e)'
      PROVE  \/ EventInFlight(e) /\ about'[e] = about[e]
             \/ about'[e] = j /\ InsertEvent(e, j)
  <2>1. \/ UNCHANGED <<row, about>>
        \/ \E f \in Events : InsertEvent(f, j)
    BY EndShape
  <2> QED
    BY <1>1, <1>8, <2>1
       DEF EventInFlight, Held, InsertEvent, Base, PipelineTypeOK, TypeOK
<1> HIDE DEF j
<1>9. ASSUME NEW a \in acked'
      PROVE  /\ state'[a[1]] # "absent"
             /\ a[2] = attempts'[a[1]]
             /\ \A e \in Events : EventInFlight(e)' => about'[e] # a[1]
             /\ \A y \in Executors :
                  Busy(y)' /\ Job(y)' = a[1] => xphase'[y] = "succeeded"
  <2>1. /\ a \in acked /\ a[1] \in Jobs
        /\ state[a[1]] # "absent" /\ a[2] = attempts[a[1]]
        /\ \A e \in Events : EventInFlight(e) => about[e] # a[1]
        /\ \A y \in Executors :
             Busy(y) /\ Job(y) = a[1] => xphase[y] = "succeeded"
    BY <1>4, <1>9 DEF AckInv, AckFits
  <2>2. state'[a[1]] # "absent" /\ a[2] = attempts'[a[1]]
    BY <1>2, <1>7, <2>1
  <2>3. ASSUME NEW e \in Events, EventInFlight(e)', about'[e] = a[1]
        PROVE  FALSE
    <3>1. about'[e] = j /\ InsertEvent(e, j)
      BY <1>8, <2>1, <2>3
    <3> QED
      BY <1>7, <2>1, <2>3, <3>1 DEF InsertEvent, Base, PipelineTypeOK, TypeOK
  <2>4. \A y \in Executors :
          Busy(y)' /\ Job(y)' = a[1] => xphase'[y] = "succeeded"
    BY <1>1, <1>5, <2>1
  <2> QED
    BY <2>2, <2>3, <2>4
<1> QED
  BY <1>6, <1>9 DEF AckInv, AckFits

LEMMA AckStep ==
  ASSUME Base, CarrierInv, AckInv, NoDuplicateTasks, [Next]_vars
  PROVE  AckInv'
<1>1. CASE UNCHANGED vars
  BY <1>1, QuietKeepsAck DEF vars, outboxVars, jobVars, execVars, histVars,
     EventInFlight, Held, Busy
<1>2. CASE ApiStep
  <2>1. /\ UNCHANGED <<attempts, acked, xattempt, xphase, xevent, batch, waiting>>
        /\ \A j \in Jobs : state'[j] = "absent" => state[j] = "absent"
    BY <1>2 DEF ApiStep, CreateJob, UpdateJobDetails, DeleteJob, outboxVars,
       execVars, histVars, Base, PipelineTypeOK
  <2>2. \A e \in Events : EventInFlight(e)' =>
          \/ EventInFlight(e) /\ about'[e] = about[e]
          \/ state[about'[e]] = "absent"
    <3>1. \/ UNCHANGED <<row, about>>
          \/ \E j \in Jobs, f \in Events : state[j] = "absent" /\ InsertEvent(f, j)
      BY <1>2 DEF ApiStep, CreateJob, UpdateJobDetails, DeleteJob, outboxVars
    <3> QED
      BY <2>1, <3>1
         DEF EventInFlight, Held, InsertEvent, Base, PipelineTypeOK, TypeOK
  <2> QED
    BY <2>1, <2>2, QuietKeepsAck DEF Busy
<1>3. ASSUME NEW p \in Pollers, RelayStep(p)
      PROVE  AckInv'
  <2>1. /\ PollerStep(p) /\ about' = about
        /\ UNCHANGED <<state, attempts, acked, xattempt, xphase, xevent>>
    BY <1>3, PollerKeepsRows DEF RelayStep, Base, jobVars, execVars, histVars
  <2>2. \A e \in Events : EventInFlight(e)' => EventInFlight(e)
    BY <2>1, PollerAddsNothing
  <2> QED
    BY <2>1, <2>2, QuietKeepsAck DEF Busy
<1>4. ASSUME NEW x \in Executors, NEW e \in Events, Dequeue(x, e)
      PROVE  AckInv'
  <2>1. /\ waiting[e] > 0 /\ waiting' = [waiting EXCEPT ![e] = @ - 1]
        /\ UNCHANGED <<row, about, batch, state, attempts, acked, xattempt>>
        /\ xphase' = [xphase EXCEPT ![x] = "loaded"]
        /\ xevent' = [xevent EXCEPT ![x] = e]
    BY <1>4 DEF Dequeue, TakeTask, jobVars, histVars
  <2>2. \A f \in Events : EventInFlight(f)' => EventInFlight(f)
    BY <2>1 DEF EventInFlight, Held, Base, PipelineTypeOK, TypeOK
  <2>3. EventInFlight(e)
    BY <2>1 DEF EventInFlight
  <2> QED
    BY <2>1, <2>2, <2>3, QuietKeepsAck DEF Busy, Base, PipelineTypeOK
<1>5. ASSUME NEW x \in Executors, WebhookFails(x)
      PROVE  AckInv'
  BY <1>5, QuietKeepsAck DEF WebhookFails, Advance, outboxVars, jobVars,
     histVars, EventInFlight, Held, Busy, Base, PipelineTypeOK
<1> QED
  BY <1>1, <1>2, <1>3, <1>4, <1>5, NextSorted, StartKeepsAck,
     AcknowledgingKeepsAck, EndKeepsAck

AckIfNoDuplicates == NoDuplicateTasks => AckInv

\* While tasks are not duplicated no execution of a job begins after a handler
\* has accepted a 2xx answer for it (read in time and to its end), although the
\* handler may fail to write the outcome (processor.go:126) and nothing in the
\* first transaction would stop another execution.
THEOREM NothingAfterAcceptedAnswer == Spec => []AcceptedAnswerIsLast
<1>1. Init => AckIfNoDuplicates
  BY DEF Init, AckIfNoDuplicates, AckInv, MemoryFits, AckFits, Acting
<1>2. Base /\ CarrierIfNoDuplicates /\ AckIfNoDuplicates /\ [Next]_vars
        => AckIfNoDuplicates'
  BY AckStep DEF AckIfNoDuplicates, CarrierIfNoDuplicates, NoDuplicateTasks
<1>3. AckIfNoDuplicates => AcceptedAnswerIsLast
  BY DEF AckIfNoDuplicates, AckInv, AckFits, AcceptedAnswerIsLast
<1> QED
  BY <1>1, <1>2, <1>3, BaseInvariance, CarrierInvariance, PTL DEF Spec

-----------------------------------------------------------------------------
(* What a client may conclude from the state it is shown *)

\* "completed" and "failed" are the last word on a job, short of DELETE, while
\* tasks are not duplicated: the first transaction of ProcessJobTask, which
\* writes "running" over any state, never meets a finished job.
THEOREM FinishedIsFinal ==
  ASSUME NoDuplicateTasks
  PROVE  Spec => [][\A j \in Jobs : state[j] \in Terminal
                                    => state'[j] \in {state[j], "deleted"}]_vars
<1>1. ASSUME Base, CarrierInv, [Next]_vars, NEW j \in Jobs, state[j] \in Terminal
      PROVE  state'[j] \in {state[j], "deleted"}
  <2>1. state \in [Jobs -> JobState]
    BY <1>1 DEF Base, PipelineTypeOK
  <2>2. [Lifecycle!LifeNext]_(Lifecycle!lifeVars)
    BY <1>1, LifeStepOrStutter
  <2>3. CASE UNCHANGED Lifecycle!lifeVars
    BY <2>3 DEF Lifecycle!lifeVars
  <2>4. ASSUME NEW i \in Jobs, Lifecycle!LifeStep(i)
        PROVE  state'[j] \in {state[j], "deleted"}
    BY <1>1, <2>1, <2>4 DEF Lifecycle!LifeStep, Lifecycle!Quietly,
       Lifecycle!Begin, Lifecycle!Become, Terminal
  <2> QED
    BY <2>2, <2>3, <2>4 DEF Lifecycle!LifeNext
<1>2. Base /\ CarrierIfNoDuplicates /\ [Next]_vars =>
        [\A j \in Jobs : state[j] \in Terminal
                         => state'[j] \in {state[j], "deleted"}]_vars
  BY <1>1 DEF CarrierIfNoDuplicates
<1> QED
  BY <1>2, BaseInvariance, CarrierInvariance, PTL DEF Spec

\* A job that is shown as running is being executed, in the attempt it shows,
\* or its execution came to an end that left a named mark.
RunningIsExecuted ==
  NoDuplicateTasks =>
    \A j \in Jobs : state[j] = "running" =>
      \/ Excused(j)
      \/ \E x \in Executors :
           Acting(x) /\ Job(x) = j /\ xattempt[x] = attempts[j]

\* "running" is stale only where the code drops work: an outcome that was not
\* written, an archived task, a swallowed error.
THEOREM RunningIsTrue == Spec => []RunningIsExecuted
<1>1. ASSUME Base, NoJobVanishes, CarrierInv, NoDuplicateTasks,
             NEW j \in Jobs, state[j] = "running", ~ Excused(j)
      PROVE  \E x \in Executors :
               Acting(x) /\ Job(x) = j /\ xattempt[x] = attempts[j]
  <2>1. Carried(j)
    BY <1>1 DEF NoJobVanishes, Unsettled
  <2>2. ~ \E e \in Events : about[e] = j /\ EventInFlight(e)
    BY <1>1 DEF CarrierInv, StateFits, Idling
  <2>3. PICK x \in Executors : Busy(x) /\ Job(x) = j
    BY <2>1, <2>2 DEF Carried
  <2>4. Acting(x)
    BY <1>1, <2>3 DEF Busy, Acting, Base, PipelineTypeOK, ExecPhase, CarrierInv,
       StateFits, Idling
  <2> QED
    BY <1>1, <2>3, <2>4 DEF CarrierInv, StateFits
<1>2. Base /\ NoJobVanishes /\ CarrierIfNoDuplicates => RunningIsExecuted
  BY <1>1 DEF CarrierIfNoDuplicates, RunningIsExecuted
<1> QED
  BY <1>2, BaseInvariance, NoJobEverVanishes, CarrierInvariance, PTL

\* README: "Failed jobs are automatically retried".  The injected failure
\* (rand.Float32() < 0.2) is not: it strands the job, by StrandedForGood for
\* all time, and the job shows "running" to its clients although nothing is
\* wrong with the database, Redis or the receiver.
THEOREM InjectedFailureStrands ==
  ASSUME NoDuplicateTasks
  PROVE  Spec => [][\A x \in Executors, j \in Jobs :
                      RandomFailure(x) /\ Job(x) = j =>
                        /\ Stranded(j)'
                        /\ state'[j] \in {"running", "deleted"}]_vars
<1>1. ASSUME Base, CarrierInv, NEW x \in Executors, NEW j \in Jobs,
             RandomFailure(x), Job(x) = j
      PROVE  Stranded(j)' /\ state'[j] \in {"running", "deleted"}
  <2>1. /\ Busy(x) /\ Acting(x)
        /\ UNCHANGED <<row, about, batch, waiting, state>>
    BY <1>1 DEF RandomFailure, Busy, Acting, outboxVars, jobVars
  <2>2. /\ \A y \in Executors : Busy(y) /\ Job(y) = Job(x) => y = x
        /\ \A e \in Events : EventInFlight(e) => about[e] # Job(x)
    BY <1>1, <2>1, Alone DEF CarrierInv
  <2>3. /\ ~ Busy(x)'
        /\ \A y \in Executors \ {x} : Busy(y)' => Busy(y) /\ Job(y)' = Job(y)
    BY <1>1, <2>1 DEF RandomFailure, Archive, Release, Busy, Job, Base,
       PipelineTypeOK
  <2>4. \A e \in Events : EventInFlight(e)' => EventInFlight(e)
    BY <2>1 DEF EventInFlight, Held
  <2>5. ~ Carried(j)'
    BY <1>1, <2>1, <2>2, <2>3, <2>4 DEF Carried
  <2>6. state[j] \in {"running", "deleted"}
    BY <1>1, <2>1 DEF CarrierInv, StateFits
  <2> QED
    BY <2>1, <2>5, <2>6 DEF Stranded
<1>2. Base /\ CarrierIfNoDuplicates /\ [Next]_vars =>
        [\A x \in Executors, j \in Jobs :
           RandomFailure(x) /\ Job(x) = j =>
             /\ Stranded(j)'
             /\ state'[j] \in {"running", "deleted"}]_vars
  BY <1>1 DEF CarrierIfNoDuplicates
<1> QED
  BY <1>2, BaseInvariance, CarrierInvariance, PTL DEF Spec
=============================================================================
