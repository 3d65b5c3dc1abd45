-------------------------- MODULE JobPipelineProofs --------------------------
(***************************************************************************)
(* Proofs about the job pipeline, for any number of jobs, events, pollers  *)
(* and executors, any limits and any set of faults.                        *)
(***************************************************************************)
EXTENDS JobPipeline, OutboxProofs

\* Written events are about jobs, and executors work on written events.
Linked ==
  /\ \A e \in Events : row[e] # "absent" => about[e] \in Jobs
  /\ \A x \in Executors :
       Busy(x) => xevent[x] \in Events /\ row[xevent[x]] # "absent"

Base == PipelineTypeOK /\ IInv /\ Linked

-----------------------------------------------------------------------------
(* Type correctness, and the relay's invariant inside the pipeline *)

LEMMA BaseInit == Init => Base
<1> SUFFICES ASSUME Init PROVE Base
  OBVIOUS
<1>1. IInv
  BY InvInit DEF Init
<1>2. PipelineTypeOK
  BY <1>1 DEF Init, PipelineTypeOK, IInv, JobState, ExecPhase
<1>3. Linked
  BY DEF Init, OutboxInit, Linked, Busy
<1> QED
  BY <1>1, <1>2, <1>3 DEF Base

\* The relay's invariant survives whatever the pipeline does to the rows and
\* to the queue: new rows, and tasks of written events.
LEMMA QueueKeepsIInv ==
  ASSUME IInv,
         UNCHANGED <<phase, batch, accepted, dropped>>,
         \/ UNCHANGED <<row, about>>
         \/ \E e \in Events, j \in Jobs : InsertEvent(e, j),
         waiting' \in [Events -> Nat],
         \A e \in Events : row'[e] = "absent" => waiting'[e] = 0
  PROVE  IInv'
<1> USE DEF IInv, TypeOK, RowState, Phase
<1>1. CASE UNCHANGED <<row, about>>
  BY <1>1 DEF BatchMatchesPhase, AbsentIsFresh, DroppedIsGone, OneHolder,
     NoEventForgotten, PendingIsFresh, NoDoubleHandOver, Held
<1>2. ASSUME NEW e \in Events, NEW j \in Jobs, InsertEvent(e, j)
      PROVE  IInv'
  <2> USE <1>2 DEF InsertEvent
  <2>1. TypeOK'
    OBVIOUS
  <2>2. BatchMatchesPhase' /\ OneHolder' /\ NoDoubleHandOver'
    BY DEF BatchMatchesPhase, OneHolder, NoDoubleHandOver
  <2>3. AbsentIsFresh' /\ PendingIsFresh'
    BY DEF AbsentIsFresh, PendingIsFresh
  <2>4. DroppedIsGone'
    BY DEF DroppedIsGone
  <2>5. NoEventForgotten'
    BY DEF NoEventForgotten, Held
  <2> QED
    BY <2>1, <2>2, <2>3, <2>4, <2>5
<1> QED
  BY <1>1, <1>2

\* Pollers change neither which rows there are nor what they are about.
LEMMA PollerKeepsRows ==
  ASSUME IInv, NEW p \in Pollers, PollerStep(p)
  PROVE  /\ about' = about
         /\ \A e \in Events : row'[e] = "absent" <=> row[e] = "absent"
<1> USE DEF IInv, TypeOK, RowState, Phase, BatchMatchesPhase
<1>1. CASE \/ Claim(p) \/ RollbackBatch(p) \/ PollerDies(p)
           \/ \E e \in Events : \/ EnqueueOK(p, e) \/ EnqueueRejected(p, e)
                                \/ EnqueueUnknown(p, e) \/ UnpublishFails(p, e)
  BY <1>1 DEF Claim, RollbackBatch, PollerDies, EnqueueOK, EnqueueRejected,
     EnqueueUnknown, UnpublishFails
<1>2. CASE CommitBatch(p) \/ CommitBatchUnknown(p)
  BY <1>2 DEF CommitBatch, CommitBatchUnknown, MarkPublished
<1>3. ASSUME NEW e \in Events, Unpublish(p, e)
      PROVE  /\ about' = about
             /\ \A f \in Events : row'[f] = "absent" <=> row[f] = "absent"
  BY <1>3 DEF Unpublish, NextOf
<1> QED
  BY <1>1, <1>2, <1>3 DEF PollerStep

\* The job of a busy executor.
LEMMA JobOfBusy ==
  ASSUME Base, NEW x \in Executors, Busy(x)
  PROVE  /\ xevent[x] \in Events
         /\ row[xevent[x]] # "absent"
         /\ Job(x) \in Jobs
  BY DEF Base, Linked, Job

\* What the end of an execution does to the queue and to the executors.
LEMMA FinishKeeps ==
  ASSUME Base, NEW x \in Executors, Busy(x),
         \/ Finish(x) \/ AbortTask(x)
         \/ (Done(x) \/ Archive(x)) /\ UNCHANGED waiting
  PROVE  /\ waiting' \in [Events -> Nat]
         /\ \A e \in Events : row[e] = "absent" => waiting'[e] = 0
         /\ xphase' \in [Executors -> ExecPhase]
         /\ xevent' \in [Executors -> Events \cup {NoEvent}]
         /\ xattempt' \in [Executors -> Nat]
         /\ xlimit' \in [Executors -> Nat]
         /\ archived' \in SUBSET Events
         /\ \A y \in Executors : xphase'[y] # "idle" => /\ xphase[y] # "idle"
                                                     /\ xevent'[y] = xevent[y]
<1>1. /\ xevent[x] \in Events
      /\ row[xevent[x]] # "absent"
  BY JobOfBusy
<1>2. TypeOK /\ AbsentIsFresh
  BY DEF Base, IInv
<1>3. /\ waiting' \in [Events -> Nat]
      /\ \A e \in Events : row[e] = "absent" => waiting'[e] = 0
  BY <1>1, <1>2 DEF TypeOK, AbsentIsFresh, Finish, AbortTask, PutBack,
     PutBackTask
<1>4. Release(x) /\ (archived' = archived \/ archived' = archived \cup {xevent[x]})
  BY DEF Finish, AbortTask, PutBack, Done, Archive
<1> QED
  BY <1>1, <1>3, <1>4 DEF Release, Base, PipelineTypeOK, ExecPhase

\* Steps that leave the executors and the history alone, API requests.
LEMMA ApiKeepsBase ==
  ASSUME Base, ApiStep
  PROVE  Base'
<1> USE PipelineAssumption
    DEF Base, PipelineTypeOK, Linked, Busy, JobState, Live, Unsettled, Terminal
<1>1. PICK j \in Jobs : \/ \E m \in Limits : \/ \E e \in Events : CreateJob(j, e, m)
                                            \/ UpdateJobDetails(j, m)
                       \/ DeleteJob(j)
  BY DEF ApiStep
<1>2. ASSUME NEW m \in Limits, NEW e \in Events, CreateJob(j, e, m)
      PROVE  Base'
  <2> USE <1>2 DEF CreateJob, execVars
  <2>1. IInv'
    BY QueueKeepsIInv DEF TypeOK, IInv, AbsentIsFresh, InsertEvent
  <2>2. PipelineTypeOK'
    BY <2>1 DEF IInv
  <2>3. Linked'
    BY DEF InsertEvent, TypeOK
  <2> QED
    BY <2>1, <2>2, <2>3
<1>3. ASSUME NEW m \in Limits, UpdateJobDetails(j, m)
      PROVE  Base'
  <2> USE <1>3 DEF UpdateJobDetails, execVars, outboxVars
  <2>1. IInv'
    BY QueueKeepsIInv DEF TypeOK, IInv, AbsentIsFresh
  <2>2. PipelineTypeOK'
    BY <2>1 DEF IInv
  <2> QED
    BY <2>1, <2>2
<1>4. CASE DeleteJob(j)
  <2> USE <1>4 DEF DeleteJob, execVars, outboxVars, histVars
  <2>1. IInv'
    BY QueueKeepsIInv DEF TypeOK, IInv, AbsentIsFresh
  <2>2. PipelineTypeOK'
    BY <2>1 DEF IInv
  <2> QED
    BY <2>1, <2>2
<1> QED
  BY <1>1, <1>2, <1>3, <1>4

LEMMA RelayKeepsBase ==
  ASSUME Base, NEW p \in Pollers, RelayStep(p)
  PROVE  Base'
<1> USE DEF Base, RelayStep, jobVars, execVars, histVars
<1>1. IInv'
  BY InvStep DEF OutboxNext
<1>2. PipelineTypeOK'
  BY <1>1 DEF IInv, PipelineTypeOK
<1>3. Linked'
  BY PollerKeepsRows DEF Linked, Busy, PipelineTypeOK
<1> QED
  BY <1>1, <1>2, <1>3

LEMMA DequeueKeepsBase ==
  ASSUME Base, NEW x \in Executors, NEW e \in Events, Dequeue(x, e)
  PROVE  Base'
<1> USE DEF Base, Dequeue, TakeTask, jobVars, histVars, PipelineTypeOK,
    ExecPhase
<1>1. IInv'
  BY QueueKeepsIInv DEF TypeOK, IInv, AbsentIsFresh
<1>2. PipelineTypeOK'
  BY <1>1 DEF IInv
<1>3. Linked'
  BY DEF Linked, Busy, TypeOK, IInv, AbsentIsFresh
<1> QED
  BY <1>1, <1>2, <1>3

\* A handler that goes on: only its own variables and its job change.
LEMMA AdvanceKeepsBase ==
  ASSUME Base, NEW x \in Executors,
         Start(x) \/ WebhookSucceeds(x) \/ WebhookFails(x)
  PROVE  Base'
<1> USE DEF Base, PipelineTypeOK, JobState, ExecPhase
<1>1. /\ Busy(x) /\ xevent[x] \in Events /\ Job(x) \in Jobs
  BY JobOfBusy DEF Start, WebhookSucceeds, WebhookFails, Busy
<1>2. UNCHANGED <<outboxVars, xevent, archived, ceiling, abandoned, limit>>
  BY DEF Start, WebhookSucceeds, WebhookFails, Advance, jobVars, histVars
<1>3. IInv'
  BY <1>2, QueueKeepsIInv DEF TypeOK, IInv, AbsentIsFresh, outboxVars
<1>4. PipelineTypeOK'
  <2>1. CASE Start(x)
    BY <1>1, <1>2, <1>3, <2>1 DEF Start, MarkRunning, IInv
  <2>2. CASE WebhookSucceeds(x)
    BY <1>1, <1>2, <1>3, <2>2 DEF WebhookSucceeds, Advance, jobVars, IInv
  <2>3. CASE WebhookFails(x)
    BY <1>1, <1>2, <1>3, <2>3 DEF WebhookFails, Advance, jobVars, histVars, IInv
  <2> QED
    BY <2>1, <2>2, <2>3
<1>5. Linked'
  <2>1. \A y \in Executors : xphase'[y] # "idle" => xphase[y] # "idle"
    BY <1>1 DEF Start, WebhookSucceeds, WebhookFails, Advance, Busy
  <2> QED
    BY <1>2, <2>1 DEF Linked, Busy, outboxVars
<1> QED
  BY <1>3, <1>4, <1>5

\* An execution that ends, recording an outcome or not.
Ends(x) ==
  \/ ExecutorDies(x) \/ AbortTask(x)
  \/ StartMissing(x) \/ StartFails(x) \/ StartUnknown(x)
  \/ RandomFailure(x) \/ Complete(x) \/ CompleteFails(x)
  \/ CompleteUnknown(x) \/ GiveUp(x) \/ OutcomeFails(x)
  \/ \E e \in Events : Retry(x, e)

\* Whatever ends an execution releases the executor and leaves the relay to
\* itself, but for the event of a retry.
LEMMA EndShape ==
  ASSUME NEW x \in Executors, Ends(x)
  PROVE  /\ Busy(x)
         /\ \/ Finish(x) \/ AbortTask(x)
            \/ (Done(x) \/ Archive(x)) /\ UNCHANGED waiting
         /\ UNCHANGED <<phase, batch, accepted, dropped, limit, ceiling, acked>>
         /\ \/ UNCHANGED <<row, about>>
            \/ \E e \in Events : InsertEvent(e, Job(x))
  BY DEF Ends, Busy, ExecutorDies, AbortTask, StartMissing, StartFails,
     StartUnknown, RandomFailure, Complete, CompleteFails, CompleteUnknown,
     GiveUp, OutcomeFails, Retry, RecordOutcome, outboxVars, jobVars, histVars

\* The job columns an ending execution may write.
LEMMA EndTypes ==
  ASSUME Base, NEW x \in Executors, Ends(x)
  PROVE  /\ state' \in [Jobs -> JobState]
         /\ attempts' \in [Jobs -> Nat]
         /\ starts' \in [Jobs -> Nat]
         /\ abandoned' \in SUBSET Jobs
<1> USE DEF Base, PipelineTypeOK, JobState
<1>1. Job(x) \in Jobs
  BY EndShape, JobOfBusy
<1>2. ASSUME NEW s \in {"completed", "failed", "queued"}, RecordOutcome(x, s)
      PROVE  state' \in [Jobs -> JobState] /\ attempts' \in [Jobs -> Nat]
  BY <1>1, <1>2 DEF RecordOutcome
<1>3. CASE \/ ExecutorDies(x) \/ AbortTask(x) \/ StartMissing(x) \/ StartFails(x)
           \/ RandomFailure(x) \/ CompleteFails(x) \/ OutcomeFails(x)
  BY <1>1, <1>3 DEF ExecutorDies, AbortTask, StartMissing, StartFails,
     RandomFailure, CompleteFails, OutcomeFails, jobVars, histVars
<1>4. CASE StartUnknown(x)
  BY <1>1, <1>4 DEF StartUnknown, MarkRunning
<1>5. CASE Complete(x) \/ CompleteUnknown(x)
  BY <1>2, <1>5 DEF Complete, CompleteUnknown, histVars
<1>6. CASE GiveUp(x)
  BY <1>2, <1>6 DEF GiveUp, histVars
<1>7. ASSUME NEW e \in Events, Retry(x, e)
      PROVE  /\ state' \in [Jobs -> JobState]
             /\ attempts' \in [Jobs -> Nat]
             /\ starts' \in [Jobs -> Nat]
             /\ abandoned' \in SUBSET Jobs
  BY <1>2, <1>7 DEF Retry, histVars
<1> QED
  BY <1>3, <1>4, <1>5, <1>6, <1>7 DEF Ends

LEMMA EndKeepsBase ==
  ASSUME Base, NEW x \in Executors, Ends(x)
  PROVE  Base'
<1>1. Busy(x) /\ Job(x) \in Jobs
  BY EndShape, JobOfBusy
<1>2. /\ waiting' \in [Events -> Nat]
      /\ \A e \in Events : row[e] = "absent" => waiting'[e] = 0
      /\ \A y \in Executors : xphase'[y] # "idle" => /\ xphase[y] # "idle"
                                                  /\ xevent'[y] = xevent[y]
  BY <1>1, EndShape, FinishKeeps
<1>3. \A e \in Events : row'[e] = "absent" => row[e] = "absent"
  BY EndShape DEF InsertEvent, Base, IInv, TypeOK
<1>4. IInv'
  BY <1>1, <1>2, <1>3, EndShape, QueueKeepsIInv DEF Base
<1>5. PipelineTypeOK'
  <2>1. /\ xphase' \in [Executors -> ExecPhase]
        /\ xevent' \in [Executors -> Events \cup {NoEvent}]
        /\ xattempt' \in [Executors -> Nat]
        /\ xlimit' \in [Executors -> Nat]
        /\ archived' \in SUBSET Events
    BY <1>1, EndShape, FinishKeeps
  <2>2. UNCHANGED <<limit, ceiling, acked>>
    BY EndShape
  <2>3. /\ state' \in [Jobs -> JobState]
        /\ attempts' \in [Jobs -> Nat]
        /\ starts' \in [Jobs -> Nat]
        /\ abandoned' \in SUBSET Jobs
    BY EndTypes
  <2> QED
    BY <1>4, <2>1, <2>2, <2>3 DEF Base, PipelineTypeOK, IInv
<1>6. Linked'
  <2>1. \A e \in Events : row'[e] # "absent" => about'[e] \in Jobs
    BY <1>1, EndShape DEF InsertEvent, Base, IInv, TypeOK, Linked
  <2> QED
    BY <1>2, <1>3, <2>1 DEF Base, Linked, Busy
<1> QED
  BY <1>4, <1>5, <1>6 DEF Base

\* The steps of the pipeline, sorted by what they do to an execution.
LEMMA NextSorted ==
  ASSUME Next
  PROVE  \/ ApiStep
         \/ \E p \in Pollers : RelayStep(p)
         \/ \E x \in Executors : \/ \E e \in Events : Dequeue(x, e)
                                \/ Start(x) \/ WebhookSucceeds(x)
                                \/ WebhookFails(x)
                                \/ Ends(x)
  BY DEF Next, HandlerStep, Ends

LEMMA BaseStep ==
  ASSUME Base, [Next]_vars
  PROVE  Base'
<1>1. CASE UNCHANGED vars
  BY <1>1 DEF vars, outboxVars, jobVars, execVars, histVars, Base, IInv, TypeOK,
     PipelineTypeOK, Linked, Busy, BatchMatchesPhase, AbsentIsFresh,
     DroppedIsGone, OneHolder, NoEventForgotten, PendingIsFresh,
     NoDoubleHandOver, Held
<1>2. CASE Next
  BY <1>2, NextSorted, ApiKeepsBase, RelayKeepsBase, DequeueKeepsBase,
     AdvanceKeepsBase, EndKeepsBase
<1> QED
  BY <1>1, <1>2

THEOREM BaseInvariance == Spec => []Base
<1>1. Base /\ [Next]_vars => Base'
  BY BaseStep
<1> QED
  BY BaseInit, <1>1, PTL DEF Spec

\* The columns of jobs, the variables of the handlers and asynq's lists have
\* the values their declarations say, whatever fails.
THEOREM PipelineTypeCorrect == Spec => []PipelineTypeOK
<1>1. Base => PipelineTypeOK
  BY DEF Base
<1> QED
  BY BaseInvariance, <1>1, PTL

-----------------------------------------------------------------------------
(* The relay inside the pipeline *)

\* The steps of the pipeline as the relay sees them: a poller's own, a row
\* written together with a job or its retry, or tasks that come and go.
LEMMA RelayView ==
  ASSUME Base, [Next]_vars
  PROVE  \/ \E p \in Pollers : PollerStep(p)
         \/ /\ UNCHANGED <<phase, batch, accepted, dropped>>
            /\ \/ UNCHANGED <<row, about>>
               \/ \E e \in Events, j \in Jobs : InsertEvent(e, j)
<1>1. CASE UNCHANGED vars
  BY <1>1 DEF vars, outboxVars
<1>2. CASE ApiStep
  BY <1>2 DEF ApiStep, CreateJob, UpdateJobDetails, DeleteJob, outboxVars
<1>3. ASSUME NEW p \in Pollers, RelayStep(p)
      PROVE  PollerStep(p)
  BY <1>3 DEF RelayStep
<1>4. ASSUME NEW x \in Executors, NEW e \in Events, Dequeue(x, e)
      PROVE  UNCHANGED <<phase, batch, accepted, dropped, row, about>>
  BY <1>4 DEF Dequeue
<1>5. ASSUME NEW x \in Executors, Start(x) \/ WebhookSucceeds(x) \/ WebhookFails(x)
      PROVE  UNCHANGED <<phase, batch, accepted, dropped, row, about>>
  BY <1>5 DEF Start, WebhookSucceeds, WebhookFails, outboxVars
<1>6. ASSUME NEW x \in Executors, Ends(x)
      PROVE  /\ UNCHANGED <<phase, batch, accepted, dropped>>
             /\ \/ UNCHANGED <<row, about>>
                \/ \E e \in Events, j \in Jobs : InsertEvent(e, j)
  BY <1>6, EndShape, JobOfBusy
<1> QED
  BY <1>1, <1>2, <1>3, <1>4, <1>5, <1>6, NextSorted

\* A row that is written is owed.
LEMMA WritingOwes ==
  ASSUME IInv, NEW e \in Events, NEW j \in Jobs, InsertEvent(e, j),
         UNCHANGED <<accepted, dropped>>
  PROVE  Delivery!Next
<1>1. /\ DeliveryStatus(e) = "none" /\ DeliveryStatus(e)' = "owed"
      /\ \A f \in Events \ {e} : DeliveryStatus(f)' = DeliveryStatus(f)
  BY DEF InsertEvent, DeliveryStatus, IInv, TypeOK, AbsentIsFresh, DroppedIsGone
<1> QED
  BY <1>1 DEF Delivery!Next, Delivery!Owe, Delivery!Move

\* The relay keeps the promise of EventDelivery in the whole system, not only
\* when a server does nothing but take tasks: workers write rows as well, and
\* asynq puts tasks back at SIGTERM.
THEOREM PipelineImplementsDelivery == Spec => ImplementsDelivery
<1>1. Init => Delivery!Init
  BY DeliveryInit DEF Init
<1>2. ASSUME Base, [Next]_vars
      PROVE  [Delivery!Next]_[e \in Events |-> DeliveryStatus(e)]
  <2>1. IInv
    BY <1>2 DEF Base
  <2>2. ASSUME NEW p \in Pollers, PollerStep(p)
        PROVE  [Delivery!Next]_[e \in Events |-> DeliveryStatus(e)]
    BY <2>1, <2>2, DeliveryStep DEF OutboxNext
  <2>3. CASE UNCHANGED <<row, accepted, dropped>>
    BY <2>3, DeliveryStutter
  <2>4. ASSUME NEW e \in Events, NEW j \in Jobs, InsertEvent(e, j),
               UNCHANGED <<accepted, dropped>>
        PROVE  Delivery!Next
    BY <2>1, <2>4, WritingOwes
  <2> QED
    BY <1>2, <2>2, <2>3, <2>4, RelayView
<1> QED
  BY <1>1, <1>2, BaseInvariance, PTL DEF Spec, ImplementsDelivery, Delivery!Spec

\* The rest of the system leaves pollers apart, lets no event be forgotten
\* and none be handed over twice.
THEOREM RelayHoldsInPipeline ==
  Spec => [](OneHolder /\ NoEventForgotten /\ NoDoubleHandOver)
<1>1. Base => OneHolder /\ NoEventForgotten /\ NoDoubleHandOver
  BY DEF Base, IInv
<1> QED
  BY <1>1, BaseInvariance, PTL

\* At-least-once delivery in the whole system, without lossy faults.
THEOREM PipelineDeliversIfLossless ==
  ASSUME Faults \cap LossyFaults = {}
  PROVE  Spec => []AtLeastOnce
<1>1. Init => dropped = {}
  BY DEF Init, OutboxInit
<1>2. ASSUME Base, dropped = {}, [Next]_vars
      PROVE  dropped' = {}
  BY <1>2, RelayView, LosslessPoller
<1>3. Base /\ dropped = {} /\ [Next]_vars => (dropped = {})'
  BY <1>2
<1>4. Base /\ dropped = {} => AtLeastOnce
  BY DEF Base, IInv, NoEventForgotten, AtLeastOnce
<1> QED
  BY <1>1, <1>3, <1>4, BaseInvariance, PTL DEF Spec

\* Without SIGTERM, which puts tasks back, the pipeline implements the relay
\* on its own: what Outbox takes for "some server" and "some writer" covers
\* all that jobs, handlers and requests do to rows and tasks.
THEOREM PipelineImplementsOutbox ==
  ASSUME "shutdown" \notin Faults
  PROVE  Spec => OutboxSpec
<1>1. Init => OutboxInit
  BY DEF Init
<1>2. ASSUME Base, [Next]_vars
      PROVE  [OutboxNext]_outboxVars
  <2> USE DEF OutboxNext
  <2>1. CASE UNCHANGED vars
    BY <2>1 DEF vars
  <2>2. CASE ApiStep
    BY <2>2 DEF ApiStep, CreateJob, UpdateJobDetails, DeleteJob, Write
  <2>3. ASSUME NEW p \in Pollers, RelayStep(p)
        PROVE  OutboxNext
    BY <2>3 DEF RelayStep
  <2>4. ASSUME NEW x \in Executors, NEW e \in Events, Dequeue(x, e)
        PROVE  OutboxNext
    BY <2>4 DEF Dequeue, Consume
  <2>5. ASSUME NEW x \in Executors,
               Start(x) \/ WebhookSucceeds(x) \/ WebhookFails(x)
        PROVE  UNCHANGED outboxVars
    BY <2>5 DEF Start, WebhookSucceeds, WebhookFails
  <2>6. ASSUME NEW x \in Executors, Ends(x)
        PROVE  [OutboxNext]_outboxVars
    <3>1. UNCHANGED waiting
      BY <2>6, EndShape DEF Finish, AbortTask, PutBack
    <3>2. /\ UNCHANGED <<phase, batch, accepted, dropped>>
          /\ \/ UNCHANGED <<row, about>>
             \/ \E e \in Events, j \in Jobs : InsertEvent(e, j)
      BY <1>2, <2>6, EndShape, JobOfBusy
    <3> QED
      BY <3>1, <3>2 DEF Write, outboxVars
  <2> QED
    BY <1>2, <2>1, <2>2, <2>3, <2>4, <2>5, <2>6, NextSorted
<1> QED
  BY <1>1, <1>2, BaseInvariance, PTL DEF Spec, OutboxSpec

\* Nothing brings a deleted job back: not an outcome written after DELETE
\* (UpdateJobState finds no row), not a late task or its retry event, whatever
\* fails and however many tasks there are.
THEOREM DeletedStaysDeleted ==
  Spec => [][\A j \in Jobs : state[j] = "deleted" => state'[j] = "deleted"]_vars
<1>1. ASSUME Base, [Next]_vars, NEW j \in Jobs, state[j] = "deleted"
      PROVE  state'[j] = "deleted"
  <2> USE DEF Live, Unsettled, Terminal
  <2>1. state \in [Jobs -> JobState]
    BY <1>1 DEF Base, PipelineTypeOK
  <2>2. CASE UNCHANGED vars
    BY <1>1, <2>2 DEF vars, jobVars
  <2>3. CASE ApiStep
    BY <1>1, <2>1, <2>3 DEF ApiStep, CreateJob, UpdateJobDetails, DeleteJob
  <2>4. ASSUME NEW x \in Executors, Start(x)
        PROVE  state'[j] = "deleted"
    BY <1>1, <2>1, <2>4 DEF Start, MarkRunning
  <2>5. ASSUME NEW x \in Executors, Ends(x)
        PROVE  state'[j] = "deleted"
    <3>1. CASE UNCHANGED jobVars
      BY <1>1, <3>1 DEF jobVars
    <3>2. CASE StartUnknown(x)
      BY <1>1, <2>1, <3>2 DEF StartUnknown, MarkRunning
    <3>3. ASSUME NEW s \in JobState, RecordOutcome(x, s)
          PROVE  state'[j] = "deleted"
      BY <1>1, <2>1, <3>3 DEF RecordOutcome
    <3> QED
      BY <2>5, <3>1, <3>2, <3>3 DEF Ends, ExecutorDies, AbortTask, StartMissing,
         StartFails, RandomFailure, Complete, CompleteFails, CompleteUnknown,
         GiveUp, OutcomeFails, Retry, JobState
  <2> QED
    BY <1>1, <2>2, <2>3, <2>4, <2>5, NextSorted
       DEF RelayStep, Dequeue, WebhookSucceeds, WebhookFails, jobVars
<1>2. Base /\ [Next]_vars =>
        [\A j \in Jobs : state[j] = "deleted" => state'[j] = "deleted"]_vars
  BY <1>1
<1> QED
  BY <1>2, BaseInvariance, PTL DEF Spec

-----------------------------------------------------------------------------
(* No job vanishes *)

\* A poller step takes an event in flight on, or gives it up; it can do so
\* only by one of the lossy faults.
LEMMA PollerKeepsFlight ==
  ASSUME IInv, NEW p \in Pollers, PollerStep(p),
         NEW e \in Events, EventInFlight(e)
  PROVE  \/ EventInFlight(e)'
         \/ e \in dropped' /\ Faults \cap LossyFaults # {}
<1> USE DEF IInv, TypeOK, RowState, Phase, BatchMatchesPhase, EventInFlight,
    Held, LossyFaults, StatementsFail
<1>1. CASE Claim(p)
  BY <1>1 DEF Claim
<1>2. CASE CommitBatch(p)
  BY <1>2 DEF CommitBatch, MarkPublished
<1>3. CASE RollbackBatch(p)
  BY <1>3 DEF RollbackBatch, LeavePoll
<1>4. CASE CommitBatchUnknown(p)
  BY <1>4 DEF CommitBatchUnknown, MarkPublished, LeavePoll
<1>5. CASE PollerDies(p)
  BY <1>5 DEF PollerDies, LeavePoll
<1>6. ASSUME NEW f \in Events,
             EnqueueOK(p, f) \/ EnqueueRejected(p, f) \/ EnqueueUnknown(p, f)
      PROVE  EventInFlight(e)'
  BY <1>6 DEF EnqueueOK, EnqueueRejected, EnqueueUnknown, StoreTask, Handled,
     NextOf
<1>7. ASSUME NEW f \in Events, Unpublish(p, f)
      PROVE  EventInFlight(e)'
  BY <1>7 DEF Unpublish, Handled, NextOf
<1>8. ASSUME NEW f \in Events, UnpublishFails(p, f)
      PROVE  \/ EventInFlight(e)'
             \/ e \in dropped' /\ Faults \cap LossyFaults # {}
  BY <1>8 DEF UnpublishFails, Handled, NextOf
<1> QED
  BY <1>1, <1>2, <1>3, <1>4, <1>5, <1>6, <1>7, <1>8 DEF PollerStep

\* Pollers give up events only by the lossy faults, and forget none.
LEMMA PollerKeepsDropped ==
  ASSUME NEW p \in Pollers, PollerStep(p)
  PROVE  dropped \subseteq dropped'
  BY DEF PollerStep, Claim, CommitBatch, RollbackBatch, CommitBatchUnknown,
     PollerDies, EnqueueOK, EnqueueRejected, EnqueueUnknown, Unpublish,
     UnpublishFails

\* Nothing takes back that a job is excused.
LEMMA EndKeepsExcuse ==
  ASSUME NEW x \in Executors, Ends(x)
  PROVE  archived \subseteq archived' /\ abandoned \subseteq abandoned'
  BY DEF Ends, ExecutorDies, AbortTask, StartMissing, StartFails,
     StartUnknown, RandomFailure, Complete, CompleteFails, CompleteUnknown,
     GiveUp, OutcomeFails, Retry, Finish, PutBack, Done, Archive, histVars

\* An event keeps its job.
LEMMA EventsKeepJobs ==
  ASSUME IInv, NEW e \in Events, row[e] # "absent",
         \/ UNCHANGED about
         \/ \E f \in Events, j \in Jobs : InsertEvent(f, j)
  PROVE  about'[e] = about[e]
  BY DEF InsertEvent, IInv, TypeOK

\* After the end of an execution its own job is settled, carried or excused.
LEMMA EndKeepsOwnJob ==
  ASSUME Base, NEW x \in Executors, Ends(x),
         NEW j \in Jobs, j = Job(x), state'[j] \in Unsettled
  PROVE  Carried(j)' \/ Excused(j)'
<1>1. Busy(x) /\ xevent[x] \in Events /\ row[xevent[x]] # "absent"
  BY EndShape, JobOfBusy
<1>2. about'[xevent[x]] = j
  BY <1>1, EndShape, EventsKeepJobs DEF Base, Job
<1>3. TypeOK
  BY DEF Base, IInv
<1>4. CASE archived' = archived \cup {xevent[x]}
  BY <1>1, <1>2, <1>4 DEF Excused
<1>5. CASE AbortTask(x) \/ PutBack(x)
  <2>1. waiting'[xevent[x]] > 0
    BY <1>1, <1>3, <1>5 DEF AbortTask, PutBack, PutBackTask, TypeOK
  <2> QED
    BY <1>1, <1>2, <2>1 DEF Carried, EventInFlight
<1>6. CASE j \in abandoned'
  BY <1>6 DEF Excused
<1>7. ASSUME NEW e \in Events, Retry(x, e)
      PROVE  Carried(j)'
  <2>1. row'[e] = "unpublished" /\ about'[e] = j
    BY <1>3, <1>7 DEF Retry, InsertEvent, TypeOK
  <2> QED
    BY <2>1 DEF Carried, EventInFlight
<1>8. CASE StartMissing(x)
  BY <1>1, <1>8 DEF StartMissing, Unsettled, jobVars
<1>9. CASE Complete(x) \/ GiveUp(x)
  <2>1. PICK s \in {"completed", "failed"} : RecordOutcome(x, s)
    BY <1>9 DEF Complete, GiveUp
  <2> QED
    BY <1>1, <2>1
       DEF RecordOutcome, Base, PipelineTypeOK, Live, Unsettled, Terminal
<1> QED
  BY <1>4, <1>5, <1>6, <1>7, <1>8, <1>9
     DEF Ends, ExecutorDies, StartFails, StartUnknown, RandomFailure,
     CompleteFails, CompleteUnknown, OutcomeFails, Archive

\* The end of an execution is no matter for other jobs.
LEMMA EndKeepsOtherJobs ==
  ASSUME Base, NEW x \in Executors, Ends(x), NEW j \in Jobs, j # Job(x)
  PROVE  /\ state'[j] = state[j]
         /\ Carried(j) => Carried(j)'
         /\ Excused(j) => Excused(j)'
<1>1. Busy(x) /\ xevent[x] \in Events /\ Job(x) \in Jobs
  BY EndShape, JobOfBusy
<1>2. state'[j] = state[j]
  BY <1>1 DEF Ends, ExecutorDies, AbortTask, StartMissing, StartFails,
     StartUnknown, MarkRunning, RandomFailure, Complete, CompleteFails,
     CompleteUnknown, GiveUp, OutcomeFails, Retry, RecordOutcome, jobVars,
     Base, PipelineTypeOK
<1>3. \A e \in Events : row[e] # "absent" => about'[e] = about[e]
  BY <1>1, EndShape, EventsKeepJobs DEF Base
<1>4. \A e \in Events : EventInFlight(e) => row[e] # "absent"
  BY DEF EventInFlight, Held, Base, IInv, TypeOK, Phase, BatchMatchesPhase,
     AbsentIsFresh
<1>5. \A e \in Events : EventInFlight(e) => EventInFlight(e)'
  <2>1. UNCHANGED batch /\ \A e \in Events : row[e] = "unpublished" =>
                                             row'[e] = "unpublished"
    BY <1>1, EndShape DEF InsertEvent, Base, IInv, TypeOK
  <2>2. \A e \in Events : waiting[e] > 0 => waiting'[e] > 0
    BY <1>1, EndShape DEF Finish, AbortTask, PutBack, PutBackTask, Base, IInv,
       TypeOK
  <2> QED
    BY <2>1, <2>2 DEF EventInFlight, Held
<1>6. \A y \in Executors : Busy(y) /\ y # x => Busy(y)' /\ xevent'[y] = xevent[y]
  BY EndShape DEF Finish, AbortTask, PutBack, Done, Archive, Release, Busy,
     Base, PipelineTypeOK
<1>7. Carried(j) => Carried(j)'
  <2>1. ASSUME NEW e \in Events, about[e] = j, EventInFlight(e)
        PROVE  Carried(j)'
    BY <1>3, <1>4, <1>5, <2>1 DEF Carried
  <2>2. ASSUME NEW y \in Executors, Busy(y), Job(y) = j
        PROVE  Carried(j)'
    BY <1>3, <1>6, <2>2, JobOfBusy DEF Carried, Job
  <2> QED
    BY <2>1, <2>2 DEF Carried
<1>8. Excused(j) => Excused(j)'
  <2>1. \A e \in Events : about[e] = j => about'[e] = j
    BY <1>3, OutboxAssumption DEF Base, IInv, AbsentIsFresh
  <2> QED
    BY <2>1, EndShape, EndKeepsExcuse DEF Excused
<1> QED
  BY <1>2, <1>7, <1>8

\* API requests disturb neither events nor executions, and put a job into an
\* unsettled state only together with an event.
LEMMA ApiKeepsCarried ==
  ASSUME Base, ApiStep, NEW j \in Jobs
  PROVE  /\ Carried(j) => Carried(j)'
         /\ Excused(j) => Excused(j)'
         /\ \/ state'[j] \in {state[j], "deleted"}
            \/ \E e \in Events : about'[e] = j /\ row'[e] = "unpublished"
<1> USE DEF Base, IInv, TypeOK, PipelineTypeOK
<1>1. PICK i \in Jobs : \/ \E m \in Limits : \/ \E e \in Events : CreateJob(i, e, m)
                                            \/ UpdateJobDetails(i, m)
                       \/ DeleteJob(i)
  BY DEF ApiStep
<1>2. ASSUME NEW m \in Limits, NEW e \in Events, CreateJob(i, e, m)
      PROVE  /\ Carried(j) => Carried(j)'
             /\ Excused(j) => Excused(j)'
             /\ \/ state'[j] \in {state[j], "deleted"}
                \/ \E f \in Events : about'[f] = j /\ row'[f] = "unpublished"
  <2> USE <1>2 DEF CreateJob, InsertEvent, execVars
  <2>1. \A f \in Events : about[f] = j => about'[f] = j
    BY OutboxAssumption DEF AbsentIsFresh
  <2>2. \A f \in Events : EventInFlight(f) => EventInFlight(f)'
    BY DEF EventInFlight, Held
  <2>3. \A x \in Executors : Busy(x) /\ Job(x) = j => Busy(x)' /\ Job(x)' = j
    BY <2>1 DEF Busy, Job, Linked
  <2> QED
    BY <2>1, <2>2, <2>3 DEF Carried, Excused
<1>3. CASE DeleteJob(i) \/ \E m \in Limits : UpdateJobDetails(i, m)
  BY <1>3 DEF DeleteJob, UpdateJobDetails, Carried, Excused, EventInFlight, Held,
     Busy, Job, outboxVars, execVars, histVars
<1> QED
  BY <1>1, <1>2, <1>3

LEMMA NoJobVanishesStep ==
  ASSUME Base, NoJobVanishes, [Next]_vars
  PROVE  NoJobVanishes'
<1> SUFFICES ASSUME NEW j \in Jobs, state'[j] \in Unsettled
             PROVE  Carried(j)' \/ Excused(j)'
  BY DEF NoJobVanishes
<1> USE DEF Base, IInv, TypeOK, PipelineTypeOK
<1>1. CASE UNCHANGED vars
  BY <1>1 DEF vars, outboxVars, jobVars, execVars, histVars, NoJobVanishes,
     Carried, Excused, EventInFlight, Held, Busy, Job
<1>2. CASE ApiStep
  BY <1>2, ApiKeepsCarried
     DEF NoJobVanishes, Carried, EventInFlight, Unsettled
<1>3. ASSUME NEW p \in Pollers, RelayStep(p)
      PROVE  Carried(j)' \/ Excused(j)'
  <2>1. /\ PollerStep(p) /\ about' = about
        /\ UNCHANGED <<state, xphase, xevent, archived, abandoned>>
    BY <1>3, PollerKeepsRows DEF RelayStep, jobVars, execVars, histVars
  <2>2. Carried(j) \/ Excused(j)
    BY <2>1 DEF NoJobVanishes
  <2>3. ASSUME NEW e \in Events, about[e] = j, EventInFlight(e)
        PROVE  Carried(j)' \/ Excused(j)'
    BY <2>1, <2>3, PollerKeepsFlight DEF Carried, Excused
  <2>4. ASSUME NEW x \in Executors, Busy(x), Job(x) = j
        PROVE  Carried(j)'
    BY <2>1, <2>4 DEF Carried, Busy, Job
  <2>5. CASE Excused(j)
    BY <2>1, <2>5, PollerKeepsDropped DEF Excused
  <2> QED
    BY <2>2, <2>3, <2>4, <2>5 DEF Carried
<1>4. ASSUME NEW x \in Executors, NEW e \in Events, Dequeue(x, e)
      PROVE  Carried(j)' \/ Excused(j)'
  <2> USE <1>4 DEF Dequeue, TakeTask, jobVars, histVars, ExecPhase
  <2>1. Excused(j) => Excused(j)'
    BY DEF Excused
  <2>2. Busy(x)' /\ Job(x)' = about[e] /\ ~Busy(x)
    BY DEF Busy, Job
  <2>3. \A y \in Executors : Busy(y) => Busy(y)' /\ Job(y)' = Job(y)
    BY <2>2 DEF Busy, Job
  <2>4. \A f \in Events : EventInFlight(f) /\ f # e => EventInFlight(f)'
    BY DEF EventInFlight, Held
  <2>5. Carried(j) => Carried(j)'
    BY <2>2, <2>3, <2>4 DEF Carried
  <2> QED
    BY <2>1, <2>5 DEF NoJobVanishes
<1>5. ASSUME NEW x \in Executors, Start(x) \/ WebhookSucceeds(x) \/ WebhookFails(x)
      PROVE  Carried(j)' \/ Excused(j)'
  <2>1. /\ UNCHANGED <<outboxVars, xevent, archived, abandoned>>
        /\ Busy(x) /\ Busy(x)'
        /\ \A y \in Executors : Busy(y) => Busy(y)'
    BY <1>5 DEF Start, WebhookSucceeds, WebhookFails, Advance, Busy, jobVars,
       histVars
  <2>2. Job(x) \in Jobs
    BY <2>1, JobOfBusy
  <2>3. state'[j] = state[j] \/ j = Job(x)
    BY <1>5, <2>2 DEF Start, MarkRunning, WebhookSucceeds, WebhookFails, jobVars
  <2>4. /\ Carried(j) => Carried(j)'
        /\ Excused(j) => Excused(j)'
    BY <2>1 DEF Carried, Excused, EventInFlight, Held, Job, outboxVars
  <2>5. CASE j = Job(x)
    BY <2>1, <2>4, <2>5 DEF Carried
  <2>6. CASE state'[j] = state[j]
    BY <2>4, <2>6 DEF NoJobVanishes
  <2> QED
    BY <2>3, <2>5, <2>6
<1>6. ASSUME NEW x \in Executors, Ends(x)
      PROVE  Carried(j)' \/ Excused(j)'
  BY <1>6, EndKeepsOwnJob, EndKeepsOtherJobs DEF NoJobVanishes
<1> QED
  BY <1>1, <1>2, <1>3, <1>4, <1>5, <1>6, NextSorted

\* A job that is neither finished nor deleted has an event, a task or an
\* execution under way, unless a failure the model names dropped it: no
\* interleaving of pollers, handlers and requests loses a job.
THEOREM NoJobEverVanishes == Spec => []NoJobVanishes
<1>1. Init => NoJobVanishes
  BY DEF Init, NoJobVanishes, Unsettled
<1>2. Base /\ NoJobVanishes /\ [Next]_vars => NoJobVanishes'
  BY NoJobVanishesStep
<1> QED
  BY <1>1, <1>2, BaseInvariance, PTL DEF Spec

-----------------------------------------------------------------------------
(* What the columns state and attempts say *)

\* The attempt number an execution remembers was counted, and an execution
\* about to complete its job has accepted a 2xx answer in that attempt.
MemoryIsTrue ==
  \A x \in Executors :
    /\ xphase[x] \in {"sleeping", "succeeded", "refused"} =>
         xattempt[x] <= starts[Job(x)]
    /\ xphase[x] = "succeeded" => <<Job(x), xattempt[x]>> \in acked

ColumnsInv ==
  /\ AttemptsNeverOvercount
  /\ CompletedWasAcknowledged
  /\ MemoryIsTrue

\* Executions that go on, or do nothing, keep their event, hence their job.
LEMMA BusyKeepsJob ==
  ASSUME Base, [Next]_vars, NEW x \in Executors, Busy(x), Busy(x)',
         xevent'[x] = xevent[x]
  PROVE  Job(x)' = Job(x)
<1>1. xevent[x] \in Events /\ row[xevent[x]] # "absent"
  BY JobOfBusy
<1>2. UNCHANGED about \/ \E f \in Events, j \in Jobs : InsertEvent(f, j)
  <2>1. CASE ApiStep
    BY <2>1 DEF ApiStep, CreateJob, UpdateJobDetails, DeleteJob, outboxVars
  <2>2. ASSUME NEW p \in Pollers, RelayStep(p)
        PROVE  UNCHANGED about
    BY <2>2, PollerKeepsRows DEF Base, RelayStep
  <2>3. ASSUME NEW y \in Executors, NEW e \in Events, Dequeue(y, e)
        PROVE  UNCHANGED about
    BY <2>3 DEF Dequeue
  <2>4. ASSUME NEW y \in Executors,
               Start(y) \/ WebhookSucceeds(y) \/ WebhookFails(y)
        PROVE  UNCHANGED about
    BY <2>4 DEF Start, WebhookSucceeds, WebhookFails, outboxVars
  <2>5. ASSUME NEW y \in Executors, Ends(y)
        PROVE  UNCHANGED about \/ \E f \in Events, j \in Jobs : InsertEvent(f, j)
    BY <2>5, EndShape, JobOfBusy
  <2>6. CASE UNCHANGED vars
    BY <2>6 DEF vars, outboxVars
  <2> QED
    BY <2>1, <2>2, <2>3, <2>4, <2>5, <2>6, NextSorted
<1> QED
  BY <1>1, <1>2, EventsKeepJobs DEF Base, Job

\* A step in which no handler moves and no attempt is counted.
LEMMA QuietKeepsColumns ==
  ASSUME Base, ColumnsInv, [Next]_vars,
         UNCHANGED <<attempts, xattempt, starts, acked>>,
         \A j \in Jobs : state'[j] = "completed" => state[j] = "completed",
         \A x \in Executors : \/ xphase'[x] \in {"idle", "loaded"}
                             \/ /\ xphase'[x] = xphase[x]
                                /\ xevent'[x] = xevent[x]
  PROVE  ColumnsInv'
<1>1. \A x \in Executors :
        xphase'[x] \in {"sleeping", "succeeded", "refused"} =>
          /\ xphase'[x] = xphase[x]
          /\ Job(x)' = Job(x)
  BY BusyKeepsJob DEF Busy
<1> QED
  BY <1>1 DEF ColumnsInv, AttemptsNeverOvercount, CompletedWasAcknowledged,
     MemoryIsTrue

\* Counting an attempt: the job is not completed any more.
LEMMA CountingKeepsColumns ==
  ASSUME Base, ColumnsInv, [Next]_vars, NEW x \in Executors,
         Start(x) \/ StartUnknown(x)
  PROVE  ColumnsInv'
<1> USE DEF Base, PipelineTypeOK
<1>1. Busy(x) /\ Job(x) \in Jobs
  BY JobOfBusy DEF Start, StartUnknown, Busy
<1>2. /\ MarkRunning(Job(x)) /\ UNCHANGED <<about, acked>>
      /\ \A y \in Executors \ {x} : /\ xphase'[y] = xphase[y]
                                   /\ xevent'[y] = xevent[y]
                                   /\ xattempt'[y] = xattempt[y]
      /\ \/ xphase'[x] = "idle"
         \/ /\ xphase'[x] = "sleeping" /\ xevent'[x] = xevent[x]
            /\ xattempt'[x] = attempts[Job(x)] + 1
  BY DEF Start, StartUnknown, Done, Release, outboxVars
<1>3. \A j \in Jobs : starts'[j] \in Nat /\ starts[j] <= starts'[j]
  BY <1>1, <1>2 DEF MarkRunning
<1>4. AttemptsNeverOvercount'
  BY <1>1, <1>2 DEF MarkRunning, ColumnsInv, AttemptsNeverOvercount
<1>5. CompletedWasAcknowledged'
  BY <1>1, <1>2 DEF MarkRunning, ColumnsInv, CompletedWasAcknowledged
<1>6. ASSUME NEW y \in Executors,
             xphase'[y] \in {"sleeping", "succeeded", "refused"}
      PROVE  /\ xattempt'[y] <= starts'[Job(y)']
             /\ xphase'[y] = "succeeded" => <<Job(y)', xattempt'[y]>> \in acked'
  <2>1. CASE y = x
    BY <1>1, <1>2, <1>6, <2>1
       DEF Job, MarkRunning, ColumnsInv, AttemptsNeverOvercount
  <2>2. CASE y # x
    <3>0. xphase'[y] = xphase[y] /\ xevent'[y] = xevent[y]
      BY <1>2, <2>2
    <3>1. Job(y) \in Jobs /\ Job(y)' = Job(y)
      <4>1. Busy(y)
        BY <1>6, <3>0 DEF Busy
      <4>2. Job(y) \in Jobs
        BY <4>1, JobOfBusy
      <4> QED
        BY <1>2, <3>0, <4>2 DEF Job
    <3>2. /\ xattempt'[y] = xattempt[y] /\ xattempt[y] \in Nat
          /\ xattempt[y] <= starts[Job(y)]
          /\ xphase[y] = "succeeded" => <<Job(y), xattempt[y]>> \in acked
      BY <1>2, <1>6, <2>2, <3>0 DEF ColumnsInv, MemoryIsTrue
    <3> QED
      BY <1>2, <1>3, <3>0, <3>1, <3>2
  <2> QED
    BY <2>1, <2>2
<1>7. MemoryIsTrue'
  BY <1>6 DEF MemoryIsTrue, Job
<1> QED
  BY <1>4, <1>5, <1>7 DEF ColumnsInv

\* Writing an outcome with the remembered attempt number.
LEMMA OutcomeKeepsColumns ==
  ASSUME Base, ColumnsInv, [Next]_vars, NEW x \in Executors, Ends(x),
         NEW s \in {"completed", "failed", "queued"}, RecordOutcome(x, s),
         xphase[x] = IF s = "completed" THEN "succeeded" ELSE "refused",
         UNCHANGED histVars
  PROVE  ColumnsInv'
<1> USE DEF Base, PipelineTypeOK, histVars
<1>1. Busy(x) /\ Job(x) \in Jobs
  BY EndShape, JobOfBusy
<1>2. AttemptsNeverOvercount'
  BY <1>1 DEF RecordOutcome, ColumnsInv, AttemptsNeverOvercount, MemoryIsTrue
<1>3. CompletedWasAcknowledged'
  BY <1>1 DEF RecordOutcome, ColumnsInv, CompletedWasAcknowledged, MemoryIsTrue,
     Live, Unsettled, Terminal
<1>4. \A y \in Executors :
        Busy(y)' => /\ xphase'[y] = xphase[y]
                    /\ xattempt'[y] = xattempt[y]
                    /\ Job(y)' = Job(y)
  <2>1. Release(x)
    BY EndShape DEF Finish, AbortTask, PutBack, Done, Archive
  <2> QED
    BY <2>1, BusyKeepsJob DEF Release, Busy
<1>5. MemoryIsTrue'
  BY <1>4 DEF ColumnsInv, MemoryIsTrue, Busy
<1> QED
  BY <1>2, <1>3, <1>5 DEF ColumnsInv

LEMMA ColumnsStep ==
  ASSUME Base, ColumnsInv, [Next]_vars
  PROVE  ColumnsInv'
<1> USE DEF Base, PipelineTypeOK
<1>1. CASE UNCHANGED vars
  BY <1>1 DEF vars, outboxVars, jobVars, execVars, histVars, ColumnsInv,
     AttemptsNeverOvercount, CompletedWasAcknowledged, MemoryIsTrue, Job
<1>2. CASE ApiStep
  BY <1>2, QuietKeepsColumns
     DEF ApiStep, CreateJob, UpdateJobDetails, DeleteJob, execVars, histVars,
     IInv, TypeOK
<1>3. ASSUME NEW p \in Pollers, RelayStep(p)
      PROVE  ColumnsInv'
  BY <1>3, QuietKeepsColumns DEF RelayStep, jobVars, execVars, histVars
<1>4. ASSUME NEW x \in Executors, NEW e \in Events, Dequeue(x, e)
      PROVE  ColumnsInv'
  BY <1>4, QuietKeepsColumns DEF Dequeue, jobVars, histVars
<1>5. ASSUME NEW x \in Executors, Start(x)
      PROVE  ColumnsInv'
  BY <1>5, CountingKeepsColumns
<1>6. ASSUME NEW x \in Executors, WebhookSucceeds(x) \/ WebhookFails(x)
      PROVE  ColumnsInv'
  <2>1. /\ UNCHANGED <<state, attempts, xattempt, starts, about, xevent>>
        /\ acked \subseteq acked'
        /\ xphase[x] = "sleeping"
        /\ \A y \in Executors :
             \/ xphase'[y] = xphase[y]
             \/ /\ y = x
                /\ xphase'[y] = "succeeded" => <<Job(y), xattempt[y]>> \in acked'
    BY <1>6 DEF WebhookSucceeds, WebhookFails, Advance, outboxVars, jobVars,
       histVars
  <2>2. MemoryIsTrue'
    BY <2>1 DEF ColumnsInv, MemoryIsTrue, Job
  <2> QED
    BY <2>1, <2>2
       DEF ColumnsInv, AttemptsNeverOvercount, CompletedWasAcknowledged
<1>7. ASSUME NEW x \in Executors, Ends(x)
      PROVE  ColumnsInv'
  <2>1. CASE Complete(x) \/ CompleteUnknown(x)
    BY <1>7, <2>1, OutcomeKeepsColumns DEF Complete, CompleteUnknown
  <2>2. CASE GiveUp(x) \/ \E e \in Events : Retry(x, e)
    BY <1>7, <2>2, OutcomeKeepsColumns DEF GiveUp, Retry
  <2>3. CASE StartUnknown(x)
    BY <2>3, CountingKeepsColumns
  <2>4. CASE \/ ExecutorDies(x) \/ AbortTask(x) \/ StartMissing(x) \/ StartFails(x)
             \/ RandomFailure(x) \/ CompleteFails(x) \/ OutcomeFails(x)
    <3>1. UNCHANGED <<state, attempts, starts, acked>>
      BY <2>4 DEF ExecutorDies, AbortTask, StartMissing, StartFails,
         RandomFailure, CompleteFails, OutcomeFails, jobVars, histVars
    <3>2. Release(x)
      BY <2>4 DEF ExecutorDies, AbortTask, StartMissing, StartFails,
         RandomFailure, CompleteFails, OutcomeFails, PutBack, Done, Archive
    <3>3. \A y \in Executors :
            Busy(y)' => /\ xphase'[y] = xphase[y]
                        /\ xattempt'[y] = xattempt[y]
                        /\ Job(y)' = Job(y)
      BY <3>2, BusyKeepsJob DEF Release, Busy
    <3>4. MemoryIsTrue'
      BY <3>1, <3>3 DEF ColumnsInv, MemoryIsTrue, Busy
    <3> QED
      BY <3>1, <3>4
         DEF ColumnsInv, AttemptsNeverOvercount, CompletedWasAcknowledged
  <2> QED
    BY <1>7, <2>1, <2>2, <2>3, <2>4 DEF Ends
<1> QED
  BY <1>1, <1>2, <1>3, <1>4, <1>5, <1>6, <1>7, NextSorted

LEMMA ColumnsInvariance == Spec => []ColumnsInv
<1>1. Init => ColumnsInv
  BY DEF Init, ColumnsInv, AttemptsNeverOvercount, CompletedWasAcknowledged,
     MemoryIsTrue
<1>2. Base /\ ColumnsInv /\ [Next]_vars => ColumnsInv'
  BY ColumnsStep
<1> QED
  BY <1>1, <1>2, BaseInvariance, PTL DEF Spec

\* A completed job had a 2xx answer accepted in the attempt it shows, whatever
\* duplicates there were and whatever executions remembered.
THEOREM CompletedMeansAcknowledged == Spec => []CompletedWasAcknowledged
<1>1. ColumnsInv => CompletedWasAcknowledged
  BY DEF ColumnsInv
<1> QED
  BY ColumnsInvariance, <1>1, PTL

\* The attempts column never exceeds the number of executions that began.
THEOREM AttemptsWereMade == Spec => []AttemptsNeverOvercount
<1>1. ColumnsInv => AttemptsNeverOvercount
  BY DEF ColumnsInv
<1> QED
  BY ColumnsInvariance, <1>1, PTL

-----------------------------------------------------------------------------
(* Waiting jobs *)

\* An execution of j that has not begun is on its way.
Awaited(j) ==
  \/ \E e \in Events : about[e] = j /\ EventInFlight(e)
  \/ \E x \in Executors : xphase[x] = "loaded" /\ Job(x) = j

\* Events in flight stay so unless they are dequeued.
LEMMA FlightKept ==
  ASSUME Base, UNCHANGED batch,
         \/ UNCHANGED <<row, about>>
         \/ \E f \in Events, j \in Jobs : InsertEvent(f, j),
         \A e \in Events : waiting[e] > 0 => waiting'[e] > 0,
         NEW j \in Jobs
  PROVE  \A e \in Events : about[e] = j /\ EventInFlight(e) =>
                            about'[e] = j /\ EventInFlight(e)'
<1> USE DEF Base, IInv, TypeOK
<1>1. \A e \in Events : about[e] = j => about'[e] = j
  BY OutboxAssumption DEF AbsentIsFresh, InsertEvent
<1>2. \A e \in Events : row[e] = "unpublished" => row'[e] = "unpublished"
  BY DEF InsertEvent
<1> QED
  BY <1>1, <1>2 DEF EventInFlight, Held

LEMMA WaitingStep ==
  ASSUME Base, WaitingJobIsCarried, [Next]_vars
  PROVE  WaitingJobIsCarried'
<1> SUFFICES ASSUME Faults \cap LossyFaults = {},
                    NEW j \in Jobs, state'[j] \in {"pending", "queued"}
             PROVE  Awaited(j)'
  BY DEF WaitingJobIsCarried, Awaited
<1> USE DEF Base, PipelineTypeOK, LossyFaults
<1>0. state[j] \in {"pending", "queued"} => Awaited(j)
  BY DEF WaitingJobIsCarried, Awaited
<1>1. CASE UNCHANGED vars
  BY <1>0, <1>1 DEF vars, outboxVars, jobVars, execVars, Awaited, EventInFlight,
     Held, Job
<1>2. CASE ApiStep
  <2>1. /\ UNCHANGED <<batch, waiting, xphase, xevent>>
        /\ \/ UNCHANGED <<row, about>>
           \/ \E f \in Events, i \in Jobs : InsertEvent(f, i)
    BY <1>2 DEF ApiStep, CreateJob, UpdateJobDetails, DeleteJob, outboxVars,
       execVars
  <2>2. CASE state[j] \in {"pending", "queued"}
    <3>1. CASE \E e \in Events : about[e] = j /\ EventInFlight(e)
      BY <2>1, <3>1, FlightKept DEF Awaited
    <3>2. ASSUME NEW x \in Executors, xphase[x] = "loaded", Job(x) = j
          PROVE  Awaited(j)'
      <4>1. Busy(x) /\ Busy(x)' /\ xevent'[x] = xevent[x]
        BY <2>1, <3>2 DEF Busy
      <4> QED
        BY <2>1, <3>2, <4>1, BusyKeepsJob DEF Awaited
    <3> QED
      BY <1>0, <2>2, <3>1, <3>2 DEF Awaited
  <2>3. CASE state[j] \notin {"pending", "queued"}
    BY <1>2, <2>3, ApiKeepsCarried DEF Awaited, EventInFlight
  <2> QED
    BY <2>2, <2>3
<1>3. ASSUME NEW p \in Pollers, RelayStep(p)
      PROVE  Awaited(j)'
  <2>1. /\ PollerStep(p) /\ about' = about
        /\ UNCHANGED <<state, xphase, xevent>>
    BY <1>3, PollerKeepsRows DEF RelayStep, jobVars, execVars
  <2> QED
    BY <1>0, <2>1, PollerKeepsFlight DEF Awaited, Job
<1>4. ASSUME NEW x \in Executors, NEW e \in Events, Dequeue(x, e)
      PROVE  Awaited(j)'
  <2> USE <1>4 DEF Dequeue, TakeTask, jobVars, ExecPhase
  <2>1. xphase'[x] = "loaded" /\ Job(x)' = about[e] /\ xphase[x] = "idle"
    BY DEF Job
  <2>2. \A y \in Executors : xphase[y] = "loaded" =>
                               xphase'[y] = "loaded" /\ Job(y)' = Job(y)
    BY <2>1 DEF Job
  <2>3. \A f \in Events : EventInFlight(f) /\ f # e => EventInFlight(f)'
    BY DEF EventInFlight, Held, IInv, TypeOK
  <2> QED
    BY <1>0, <2>1, <2>2, <2>3 DEF Awaited
<1>5. ASSUME NEW x \in Executors, Start(x) \/ WebhookSucceeds(x) \/ WebhookFails(x)
      PROVE  Awaited(j)'
  <2>1. /\ UNCHANGED <<outboxVars, xevent>> /\ Job(x) \in Jobs
        /\ \A y \in Executors \ {x} : xphase'[y] = xphase[y]
    BY <1>5, JobOfBusy DEF Start, WebhookSucceeds, WebhookFails, Advance, Busy
  <2>2. state'[j] = state[j] /\ (Job(x) # j \/ xphase[x] # "loaded")
    BY <1>5, <2>1 DEF Start, MarkRunning, WebhookSucceeds, WebhookFails, jobVars
  <2> QED
    BY <1>0, <2>1, <2>2 DEF Awaited, Job, EventInFlight, Held, outboxVars
<1>6. ASSUME NEW x \in Executors, Ends(x)
      PROVE  Awaited(j)'
  <2>1. /\ Busy(x) /\ Job(x) \in Jobs
        /\ Release(x) /\ UNCHANGED waiting
    BY <1>6, EndShape, JobOfBusy
       DEF Finish, AbortTask, PutBack, Done, Archive
  <2>2. UNCHANGED batch
    BY <1>6, EndShape
  <2>3. \/ UNCHANGED <<row, about>>
        \/ \E f \in Events, i \in Jobs : InsertEvent(f, i)
    BY <1>6, <2>1, EndShape
  <2>4. ASSUME NEW e \in Events, Retry(x, e), j = Job(x)
        PROVE  Awaited(j)'
    BY <2>4 DEF Retry, InsertEvent, Awaited, EventInFlight, IInv, TypeOK
  <2>5. CASE state'[j] = state[j] /\ (Job(x) # j \/ xphase[x] # "loaded")
    <3>1. CASE \E e \in Events : about[e] = j /\ EventInFlight(e)
      BY <2>1, <2>2, <2>3, <3>1, FlightKept DEF Awaited
    <3>2. ASSUME NEW y \in Executors, xphase[y] = "loaded", Job(y) = j
          PROVE  Awaited(j)'
      <4>1. Busy(y) /\ xphase'[y] = "loaded" /\ Busy(y)' /\ xevent'[y] = xevent[y]
        BY <2>1, <2>5, <3>2 DEF Busy, Release
      <4> QED
        BY <3>2, <4>1, BusyKeepsJob DEF Awaited
    <3> QED
      BY <1>0, <2>5, <3>1, <3>2 DEF Awaited
  <2>6. CASE state'[j] # state[j] \/ (Job(x) = j /\ xphase[x] = "loaded")
    <3>1. ~(ExecutorDies(x) \/ AbortTask(x) \/ StartFails(x) \/ StartUnknown(x)
            \/ CompleteUnknown(x))
      BY DEF ExecutorDies, AbortTask, PutBack, StartFails, StartUnknown,
         CompleteUnknown
    <3>2. CASE StartMissing(x)
      BY <2>1, <2>6, <3>2 DEF StartMissing, jobVars
    <3>3. CASE RandomFailure(x) \/ CompleteFails(x) \/ OutcomeFails(x)
      BY <2>6, <3>3 DEF RandomFailure, CompleteFails, OutcomeFails, jobVars
    <3>4. CASE Complete(x) \/ GiveUp(x)
      <4>1. PICK s \in {"completed", "failed"} : RecordOutcome(x, s)
        BY <3>4 DEF Complete, GiveUp
      <4>2. xphase[x] # "loaded"
        BY <3>4 DEF Complete, GiveUp
      <4> QED
        BY <2>1, <2>6, <4>1, <4>2 DEF RecordOutcome
    <3>5. ASSUME NEW e \in Events, Retry(x, e)
          PROVE  j = Job(x)
      BY <2>1, <2>6, <3>5 DEF Retry, RecordOutcome
    <3> QED
      BY <1>6, <2>4, <3>1, <3>2, <3>3, <3>4, <3>5 DEF Ends
  <2> QED
    BY <2>5, <2>6
<1> QED
  BY <1>1, <1>2, <1>3, <1>4, <1>5, <1>6, NextSorted

\* Only database errors and the ends of processes strand a pending or queued
\* job; Redis, the receiver and injected failures do not.
THEOREM WaitingJobsAreCarried == Spec => []WaitingJobIsCarried
<1>1. Init => WaitingJobIsCarried
  BY DEF Init, WaitingJobIsCarried
<1>2. Base /\ WaitingJobIsCarried /\ [Next]_vars => WaitingJobIsCarried'
  BY WaitingStep
<1> QED
  BY <1>1, <1>2, BaseInvariance, PTL DEF Spec

-----------------------------------------------------------------------------
(* Nothing looks again at a job without a task *)

\* A poller moves an event on its way, never back onto it.
LEMMA PollerAddsNoFlight ==
  ASSUME IInv, NEW p \in Pollers, PollerStep(p),
         NEW e \in Events, EventInFlight(e)'
  PROVE  EventInFlight(e)
<1> USE DEF IInv, TypeOK, RowState, Phase, EventInFlight, Held
<1>1. CASE Claim(p)
  BY <1>1, ClaimableIsFree DEF Claim
<1>2. CASE CommitBatch(p) \/ CommitBatchUnknown(p)
  BY <1>2 DEF CommitBatch, CommitBatchUnknown, MarkPublished, LeavePoll
<1>3. CASE RollbackBatch(p) \/ PollerDies(p)
  BY <1>3 DEF RollbackBatch, PollerDies, LeavePoll
<1>4. ASSUME NEW f \in Events, EnqueueOK(p, f) \/ EnqueueUnknown(p, f)
      PROVE  EventInFlight(e)
  <2>1. f \in batch[p] /\ row' = row
    BY <1>4 DEF EnqueueOK, EnqueueUnknown, NextOf
  <2>2. \A q \in Pollers : batch'[q] \subseteq batch[q]
    BY <1>4 DEF EnqueueOK, EnqueueUnknown, Handled
  <2>3. e # f => waiting'[e] = waiting[e]
    BY <1>4 DEF EnqueueOK, EnqueueUnknown, StoreTask
  <2> QED
    BY <2>1, <2>2, <2>3
<1>5. ASSUME NEW f \in Events,
             EnqueueRejected(p, f) \/ UnpublishFails(p, f) \/ Unpublish(p, f)
      PROVE  EventInFlight(e)
  BY <1>5 DEF EnqueueRejected, UnpublishFails, Unpublish, NextOf, Handled
<1> QED
  BY <1>1, <1>2, <1>3, <1>4, <1>5 DEF PollerStep

Stranded(j) == state[j] # "absent" /\ ~ Carried(j)

\* A step that gives j no event and no execution, and another execution no
\* other job.
LEMMA StrandedKept ==
  ASSUME Base, [Next]_vars, NEW j \in Jobs, ~ Carried(j),
         \A e \in Events : EventInFlight(e)' =>
            \/ EventInFlight(e) /\ about'[e] = about[e]
            \/ about'[e] # j,
         \A x \in Executors : Busy(x)' =>
            \/ Busy(x) /\ xevent'[x] = xevent[x]
            \/ about'[xevent'[x]] # j
  PROVE  ~ Carried(j)'
<1>1. ASSUME NEW x \in Executors, Busy(x)', Job(x)' = j
      PROVE  FALSE
  <2>1. about'[xevent'[x]] = j
    BY <1>1 DEF Job
  <2>2. Busy(x) /\ xevent'[x] = xevent[x]
    BY <1>1, <2>1
  <2>3. Job(x) = j
    BY <1>1, <2>2, BusyKeepsJob
  <2> QED
    BY <2>2, <2>3 DEF Carried
<1>2. ASSUME NEW e \in Events, EventInFlight(e)', about'[e] = j
      PROVE  FALSE
  BY <1>2 DEF Carried
<1> QED
  BY <1>1, <1>2 DEF Carried

LEMMA StrandedStep ==
  ASSUME Base, [Next]_vars, NEW j \in Jobs, Stranded(j)
  PROVE  /\ Stranded(j)'
         /\ state'[j] \in {state[j], "deleted"}
         /\ attempts'[j] = attempts[j]
<1> DEFINE Left == state'[j] \in {state[j], "deleted"} /\ attempts'[j] = attempts[j]
<1>0. /\ state[j] # "absent" /\ ~ Carried(j)
      /\ \A x \in Executors : Busy(x) => Job(x) # j /\ Job(x) \in Jobs
                                        /\ xevent[x] \in Events
                                        /\ row[xevent[x]] # "absent"
      /\ \A e \in Events : EventInFlight(e) => about[e] # j
      /\ \A e \in Events : EventInFlight(e) => row[e] # "absent"
  <2>1. \A e \in Events : EventInFlight(e) => row[e] # "absent"
    BY DEF Base, IInv, TypeOK, AbsentIsFresh, BatchMatchesPhase, Phase,
       EventInFlight, Held
  <2> QED
    BY <2>1, JobOfBusy DEF Stranded, Carried
<1>1. /\ state \in [Jobs -> JobState] /\ attempts \in [Jobs -> Nat]
      /\ about \in [Events -> Jobs \cup {NoJob}] /\ waiting \in [Events -> Nat]
      /\ row \in [Events -> RowState] /\ xphase \in [Executors -> ExecPhase]
      /\ xevent \in [Executors -> Events \cup {NoEvent}]
  BY DEF Base, PipelineTypeOK, TypeOK
<1>2. CASE UNCHANGED vars
  <2>1. Left
    BY <1>2 DEF vars, jobVars
  <2>2. ~ Carried(j)'
    BY <1>0, <1>2, StrandedKept DEF vars, outboxVars, execVars, EventInFlight,
       Held, Busy
  <2> QED
    BY <1>0, <2>1, <2>2 DEF Stranded
<1>3. ASSUME NEW i \in Jobs, NEW e \in Events, NEW m \in Limits, CreateJob(i, e, m)
      PROVE  Left /\ ~ Carried(j)'
  <2>1. /\ i # j /\ row[e] = "absent" /\ about'[e] = i
        /\ \A f \in Events \ {e} : row'[f] = row[f] /\ about'[f] = about[f]
        /\ UNCHANGED <<batch, waiting, xphase, xevent>>
    BY <1>0, <1>1, <1>3 DEF CreateJob, InsertEvent, execVars
  <2>2. Left
    BY <1>1, <1>3, <2>1 DEF CreateJob
  <2>3. ~ Carried(j)'
    BY <1>0, <2>1, StrandedKept DEF EventInFlight, Held, Busy
  <2> QED
    BY <2>2, <2>3
<1>4. ASSUME NEW i \in Jobs,
             (\E m \in Limits : UpdateJobDetails(i, m)) \/ DeleteJob(i)
      PROVE  Left /\ ~ Carried(j)'
  <2>1. UNCHANGED <<outboxVars, execVars>>
    BY <1>4 DEF UpdateJobDetails, DeleteJob
  <2>2. Left
    BY <1>1, <1>4 DEF UpdateJobDetails, DeleteJob
  <2>3. ~ Carried(j)'
    BY <1>0, <2>1, StrandedKept DEF outboxVars, execVars, EventInFlight, Held, Busy
  <2> QED
    BY <2>2, <2>3
<1>5. ASSUME NEW p \in Pollers, RelayStep(p)
      PROVE  Left /\ ~ Carried(j)'
  <2>1. PollerStep(p) /\ IInv /\ UNCHANGED <<jobVars, execVars>>
    BY <1>5 DEF RelayStep, Base
  <2>2. UNCHANGED about
    BY <2>1, PollerKeepsRows
  <2>3. \A e \in Events : EventInFlight(e)' => EventInFlight(e)
    BY <2>1, PollerAddsNoFlight
  <2> QED
    BY <1>0, <2>1, <2>2, <2>3, StrandedKept DEF jobVars, execVars, Busy
<1>6. ASSUME NEW x \in Executors, NEW e \in Events, Dequeue(x, e)
      PROVE  Left /\ ~ Carried(j)'
  <2>1. /\ UNCHANGED <<row, about, batch, jobVars>>
        /\ about[e] # j /\ waiting[e] > 0
        /\ \A f \in Events : waiting'[f] > 0 => waiting[f] > 0
    BY <1>0, <1>1, <1>6 DEF Dequeue, TakeTask, EventInFlight
  <2>2. /\ xevent'[x] = e
        /\ \A y \in Executors \ {x} :
             xphase'[y] = xphase[y] /\ xevent'[y] = xevent[y]
    BY <1>1, <1>6 DEF Dequeue
  <2>3. \A f \in Events : EventInFlight(f)' => EventInFlight(f)
    BY <2>1 DEF EventInFlight, Held
  <2> QED
    BY <1>0, <2>1, <2>2, <2>3, StrandedKept DEF jobVars, Busy
<1>7. ASSUME NEW x \in Executors,
             Start(x) \/ WebhookSucceeds(x) \/ WebhookFails(x)
      PROVE  Left /\ ~ Carried(j)'
  <2>1. Busy(x) /\ Job(x) # j /\ Job(x) \in Jobs
    BY <1>0, <1>7 DEF Start, WebhookSucceeds, WebhookFails, Busy
  <2>2. Left
    BY <1>1, <1>7, <2>1 DEF Start, MarkRunning, WebhookSucceeds, WebhookFails,
       jobVars
  <2>3. /\ UNCHANGED <<row, about, batch, waiting, xevent>>
        /\ \A y \in Executors \ {x} : xphase'[y] = xphase[y]
    BY <1>1, <1>7 DEF Start, WebhookSucceeds, WebhookFails, Advance, outboxVars
  <2>4. ~ Carried(j)'
    BY <1>0, <2>1, <2>3, StrandedKept DEF EventInFlight, Held, Busy
  <2> QED
    BY <2>2, <2>4
<1>8. ASSUME NEW x \in Executors, Ends(x)
      PROVE  Left /\ ~ Carried(j)'
  <2>1. /\ Busy(x) /\ Job(x) # j /\ Job(x) \in Jobs /\ xevent[x] \in Events
        /\ row[xevent[x]] # "absent"
    BY <1>0, <1>8, EndShape
  <2>2. Left
    <3>1. CASE UNCHANGED jobVars
      BY <3>1 DEF jobVars
    <3>2. CASE StartUnknown(x)
      BY <1>1, <2>1, <3>2 DEF StartUnknown, MarkRunning
    <3>3. ASSUME NEW s \in JobState, RecordOutcome(x, s)
          PROVE  Left
      BY <1>1, <2>1, <3>3 DEF RecordOutcome
    <3> QED
      BY <1>8, <3>1, <3>2, <3>3 DEF Ends, ExecutorDies, AbortTask, StartMissing,
         StartFails, RandomFailure, Complete, CompleteFails, CompleteUnknown,
         GiveUp, OutcomeFails, Retry, JobState
  <2>3. Release(x) /\ \/ UNCHANGED waiting
                      \/ PutBackTask(xevent[x])
    BY <1>8, EndShape DEF Finish, AbortTask, PutBack, Done, Archive
  <2>4. \A f \in Events \ {xevent[x]} : waiting'[f] = waiting[f]
    BY <1>1, <2>1, <2>3 DEF PutBackTask
  <2>5. /\ ~ Busy(x)'
        /\ \A y \in Executors \ {x} :
             xphase'[y] = xphase[y] /\ xevent'[y] = xevent[y]
    BY <1>1, <2>3 DEF Release, Busy
  <2>6. UNCHANGED batch
    BY <1>8, EndShape
  <2>7. CASE UNCHANGED <<row, about>>
    BY <1>0, <2>1, <2>2, <2>4, <2>5, <2>6, <2>7, StrandedKept
       DEF EventInFlight, Held, Busy, Job
  <2>8. ASSUME NEW e \in Events, InsertEvent(e, Job(x))
        PROVE  Left /\ ~ Carried(j)'
    <3>1. /\ row[e] = "absent" /\ about'[e] = Job(x)
          /\ \A f \in Events \ {e} : row'[f] = row[f] /\ about'[f] = about[f]
      BY <1>1, <2>8 DEF InsertEvent
    <3>2. about'[xevent[x]] # j
      BY <2>1, <3>1 DEF Job
    <3>3. \A f \in Events : EventInFlight(f)' =>
            (EventInFlight(f) /\ about'[f] = about[f]) \/ about'[f] # j
      BY <1>0, <2>1, <2>4, <2>6, <3>1, <3>2 DEF EventInFlight, Held
    <3> QED
      BY <1>0, <2>2, <2>5, <3>3, StrandedKept DEF Busy
  <2> QED
    BY <1>8, <2>7, <2>8, EndShape
<1>9. ASSUME ApiStep
      PROVE  Left /\ ~ Carried(j)'
  BY <1>3, <1>4, <1>9 DEF ApiStep
<1> QED
  BY <1>0, <1>2, <1>5, <1>6, <1>7, <1>8, <1>9, NextSorted DEF Stranded

\* A job that no event, task or execution carries is out of the system's
\* sight: whatever happens later, nothing executes it, its state and attempts
\* stay as they are, and only DELETE ends it.  The code has no sweep over the
\* table jobs, so that what NoJobVanishes excuses is never made good.
THEOREM StrandedForGood ==
  Spec => [][\A j \in Jobs : Stranded(j) =>
                /\ Stranded(j)'
                /\ state'[j] \in {state[j], "deleted"}
                /\ attempts'[j] = attempts[j]]_vars
<1>1. Base /\ [Next]_vars =>
        [\A j \in Jobs : Stranded(j) =>
           /\ Stranded(j)'
           /\ state'[j] \in {state[j], "deleted"}
           /\ attempts'[j] = attempts[j]]_vars
  BY StrandedStep
<1> QED
  BY <1>1, BaseInvariance, PTL DEF Spec
=============================================================================
