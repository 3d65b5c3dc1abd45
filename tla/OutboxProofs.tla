---------------------------- MODULE OutboxProofs ----------------------------
(***************************************************************************)
(* Proofs about the outbox relay, for any number of jobs, events and       *)
(* pollers, any batch limit and any set of faults.                         *)
(***************************************************************************)
EXTENDS Outbox, TLAPS

\* A poller's batch consists of unpublished rows while its transaction is
\* open and of published rows afterwards; an idle poller has none.
BatchMatchesPhase ==
  \A p \in Pollers : \A e \in batch[p] :
    /\ phase[p] # "idle"
    /\ phase[p] = "locked" => row[e] = "unpublished"
    /\ phase[p] \in {"enqueue", "cleanup"} => row[e] = "published"

\* A row not yet written has no history.
AbsentIsFresh ==
  \A e \in Events :
    row[e] = "absent" => accepted[e] = 0 /\ waiting[e] = 0 /\ about[e] = NoJob

\* What a poller gave up stays given up: no poller has it, and its row says
\* that it is published.
DroppedIsGone ==
  \A e \in dropped : row[e] = "published" /\ \A p \in Pollers : e \notin batch[p]

\* As long as Redis hides no stored task, an event that is still to be handed
\* over has not been handed over.
PendingIsFresh ==
  "redisUnknown" \notin Faults =>
    /\ \A e \in Events : row[e] = "unpublished" => accepted[e] = 0
    /\ \A p \in Pollers : \A e \in batch[p] : accepted[e] = 0

IInv ==
  /\ TypeOK
  /\ BatchMatchesPhase
  /\ AbsentIsFresh
  /\ DroppedIsGone
  /\ OneHolder
  /\ NoEventForgotten
  /\ PendingIsFresh
  /\ NoDoubleHandOver

-----------------------------------------------------------------------------
(* Type correctness *)

\* Every step of the relay keeps its variables in their types.
LEMMA TypeStep ==
  ASSUME TypeOK, [OutboxNext]_outboxVars
  PROVE  TypeOK'
<1> USE OutboxAssumption DEF TypeOK, RowState, Phase
<1>1. CASE UNCHANGED outboxVars
  BY <1>1 DEF outboxVars
<1>2. ASSUME NEW e \in Events, NEW j \in Jobs, Write(e, j)
      PROVE  TypeOK'
  BY <1>2 DEF Write, InsertEvent
<1>3. ASSUME NEW e \in Events, Consume(e)
      PROVE  TypeOK'
  BY <1>3 DEF Consume, TakeTask
<1>4. ASSUME NEW p \in Pollers, PollerStep(p)
      PROVE  TypeOK'
  <2>1. CASE Claim(p)
    BY <2>1 DEF Claim, Claimable
  <2>2. CASE CommitBatch(p)
    BY <2>2 DEF CommitBatch, MarkPublished
  <2>3. CASE RollbackBatch(p)
    BY <2>3 DEF RollbackBatch, LeavePoll
  <2>4. CASE CommitBatchUnknown(p)
    BY <2>4 DEF CommitBatchUnknown, MarkPublished, LeavePoll
  <2>5. CASE PollerDies(p)
    BY <2>5 DEF PollerDies, LeavePoll
  <2>6. ASSUME NEW e \in Events, EnqueueOK(p, e)
        PROVE  TypeOK'
    BY <2>6 DEF EnqueueOK, StoreTask, Handled
  <2>7. ASSUME NEW e \in Events, EnqueueRejected(p, e)
        PROVE  TypeOK'
    BY <2>7 DEF EnqueueRejected
  <2>8. ASSUME NEW e \in Events, EnqueueUnknown(p, e)
        PROVE  TypeOK'
    BY <2>8 DEF EnqueueUnknown, StoreTask
  <2>9. ASSUME NEW e \in Events, Unpublish(p, e)
        PROVE  TypeOK'
    BY <2>9 DEF Unpublish, Handled
  <2>10. ASSUME NEW e \in Events, UnpublishFails(p, e)
         PROVE  TypeOK'
    BY <2>10 DEF UnpublishFails, Handled
  <2> QED
    BY <1>4, <2>1, <2>2, <2>3, <2>4, <2>5, <2>6, <2>7, <2>8, <2>9, <2>10
       DEF PollerStep
<1> QED
  BY <1>1, <1>2, <1>3, <1>4 DEF OutboxNext

LEMMA TypeInit == OutboxInit => TypeOK
  BY OutboxAssumption DEF OutboxInit, TypeOK, RowState, Phase

\* The published flag, the batches, the queue and the bookkeeping of the
\* relay have the values their declarations say, whatever pollers do.
THEOREM TypeCorrect == OutboxSpec => []TypeOK
<1>1. TypeOK /\ [OutboxNext]_outboxVars => TypeOK'
  BY TypeStep
<1> QED
  BY TypeInit, <1>1, PTL DEF OutboxSpec

-----------------------------------------------------------------------------
(* The inductive invariant *)

LEMMA InvInit == OutboxInit => IInv
<1> SUFFICES ASSUME OutboxInit PROVE IInv
  OBVIOUS
<1>1. TypeOK
  BY TypeInit
<1> QED
  BY <1>1 DEF OutboxInit, IInv, BatchMatchesPhase, AbsentIsFresh,
     DroppedIsGone, OneHolder, NoEventForgotten, PendingIsFresh,
     NoDoubleHandOver, Held

\* What a poller may claim is unpublished and in nobody's hands.
LEMMA ClaimableIsFree ==
  ASSUME TypeOK, BatchMatchesPhase,
         NEW e \in Claimable
  PROVE  /\ e \in Events
         /\ row[e] = "unpublished"
         /\ \A p \in Pollers : e \notin batch[p]
  BY DEF TypeOK, Phase, BatchMatchesPhase, Claimable, LockedRows

LEMMA InvStep ==
  ASSUME IInv, [OutboxNext]_outboxVars
  PROVE  IInv'
<1> USE OutboxAssumption DEF TypeOK, RowState, Phase
<1> DEFINE Parts == /\ BatchMatchesPhase
                    /\ AbsentIsFresh
                    /\ DroppedIsGone
                    /\ OneHolder
                    /\ NoEventForgotten
                    /\ PendingIsFresh
                    /\ NoDoubleHandOver
<1>0. TypeOK /\ TypeOK' /\ Parts
  BY TypeStep DEF IInv
<1> USE DEF BatchMatchesPhase, AbsentIsFresh, DroppedIsGone, OneHolder,
    NoEventForgotten, PendingIsFresh, NoDoubleHandOver, Held
<1>1. CASE UNCHANGED outboxVars
  BY <1>0, <1>1 DEF outboxVars, IInv
<1>2. ASSUME NEW e \in Events, NEW j \in Jobs, Write(e, j)
      PROVE  Parts'
  <2>1. /\ UNCHANGED <<phase, batch, accepted, waiting, dropped>>
        /\ row[e] = "absent"
        /\ row' = [row EXCEPT ![e] = "unpublished"]
        /\ about' = [about EXCEPT ![e] = j]
    BY <1>2 DEF Write, InsertEvent
  <2>2. BatchMatchesPhase' /\ OneHolder' /\ NoDoubleHandOver'
    BY <1>0, <2>1
  <2>3. AbsentIsFresh' /\ PendingIsFresh'
    BY <1>0, <2>1
  <2>4. DroppedIsGone'
    BY <1>0, <2>1
  <2>5. NoEventForgotten'
    BY <1>0, <2>1
  <2> QED
    BY <2>2, <2>3, <2>4, <2>5
<1>3. ASSUME NEW e \in Events, Consume(e)
      PROVE  Parts'
  BY <1>0, <1>3 DEF Consume, TakeTask
<1>4. ASSUME NEW p \in Pollers, PollerStep(p)
      PROVE  Parts'
  <2>1. CASE Claim(p)
    <3>1. PICK B \in SUBSET Claimable :
            batch' = [batch EXCEPT ![p] = B]
      BY <2>1 DEF Claim
    <3>2. \A e \in B : /\ e \in Events /\ row[e] = "unpublished"
                      /\ \A q \in Pollers : e \notin batch[q]
      BY <1>0, ClaimableIsFree
    <3>3. /\ UNCHANGED <<row, about, waiting, accepted, dropped>>
          /\ phase' = [phase EXCEPT ![p] = IF B = {} THEN "idle" ELSE "locked"]
      BY <2>1, <3>1, <1>0 DEF Claim
    <3>4. batch[p] = {}
      BY <2>1, <1>0 DEF Claim
    <3>5. BatchMatchesPhase'
      BY <1>0, <3>1, <3>2, <3>3
    <3>6. DroppedIsGone' /\ OneHolder'
      BY <1>0, <3>1, <3>2, <3>3
    <3>7. NoEventForgotten'
      BY <1>0, <3>1, <3>3, <3>4
    <3>8. AbsentIsFresh' /\ PendingIsFresh' /\ NoDoubleHandOver'
      BY <1>0, <3>1, <3>2, <3>3
    <3> QED
      BY <3>5, <3>6, <3>7, <3>8
  <2>2. CASE CommitBatch(p)
    BY <2>2, <1>0 DEF CommitBatch, MarkPublished
  <2>3. CASE RollbackBatch(p)
    BY <2>3, <1>0 DEF RollbackBatch, LeavePoll
  <2>4. CASE CommitBatchUnknown(p)
    BY <2>4, <1>0 DEF CommitBatchUnknown, MarkPublished, LeavePoll
  <2>5. CASE PollerDies(p)
    <3> USE <2>5 DEF PollerDies, LeavePoll
    <3>1. BatchMatchesPhase' /\ AbsentIsFresh' /\ OneHolder'
      BY <1>0
    <3>2. DroppedIsGone'
      BY <1>0
    <3>3. NoEventForgotten'
      BY <1>0
    <3>4. PendingIsFresh' /\ NoDoubleHandOver'
      BY <1>0
    <3> QED
      BY <3>1, <3>2, <3>3, <3>4
  <2>6. ASSUME NEW e \in Events, EnqueueOK(p, e)
        PROVE  Parts'
    <3> USE <2>6 DEF EnqueueOK, StoreTask, Handled, NextOf
    <3>1. BatchMatchesPhase' /\ AbsentIsFresh' /\ OneHolder'
      BY <1>0
    <3>2. DroppedIsGone'
      BY <1>0
    <3>3. NoEventForgotten'
      BY <1>0
    <3>4. PendingIsFresh'
      BY <1>0
    <3>5. NoDoubleHandOver'
      BY <1>0
    <3> QED
      BY <3>1, <3>2, <3>3, <3>4, <3>5
  <2>7. ASSUME NEW e \in Events, EnqueueRejected(p, e)
        PROVE  Parts'
    BY <2>7, <1>0 DEF EnqueueRejected
  <2>8. ASSUME NEW e \in Events, EnqueueUnknown(p, e)
        PROVE  Parts'
    BY <2>8, <1>0 DEF EnqueueUnknown, StoreTask, NextOf
  <2>9. ASSUME NEW e \in Events, Unpublish(p, e)
        PROVE  Parts'
    BY <2>9, <1>0 DEF Unpublish, Handled, NextOf
  <2>10. ASSUME NEW e \in Events, UnpublishFails(p, e)
         PROVE  Parts'
    BY <2>10, <1>0 DEF UnpublishFails, Handled, NextOf
  <2> QED
    BY <1>4, <2>1, <2>2, <2>3, <2>4, <2>5, <2>6, <2>7, <2>8, <2>9, <2>10
       DEF PollerStep
<1> QED
  BY <1>0, <1>1, <1>2, <1>3, <1>4 DEF OutboxNext, IInv

THEOREM Invariance == OutboxSpec => []IInv
<1>1. IInv /\ [OutboxNext]_outboxVars => IInv'
  BY InvStep
<1> QED
  BY InvInit, <1>1, PTL DEF OutboxSpec

\* At most one poller has an event in hand, between the claim and the end of
\* pollOnce, across processes, failed clean-ups and deaths.
THEOREM OneHolderAlways == OutboxSpec => []OneHolder
<1>1. IInv => OneHolder
  BY DEF IInv
<1> QED
  BY Invariance, <1>1, PTL

\* No published event is forgotten by pollOnce without one of the three
\* failures that the model names.
THEOREM NeverForgotten == OutboxSpec => []NoEventForgotten
<1>1. IInv => NoEventForgotten
  BY DEF IInv
<1> QED
  BY Invariance, <1>1, PTL

\* Without an Enqueue that stores a task and reports an error, pollOnce never
\* enqueues an event twice.
THEOREM HandedOverOnce == OutboxSpec => []NoDoubleHandOver
<1>1. IInv => NoDoubleHandOver
  BY DEF IInv
<1> QED
  BY Invariance, <1>1, PTL

-----------------------------------------------------------------------------
(* The relay implements event delivery *)

LEMMA DeliveryInit == OutboxInit => Delivery!Init
  BY DEF OutboxInit, Delivery!Init, DeliveryStatus

\* A poller that gives up events loses those that Redis never got; the others
\* were delivered before.
LEMMA GivingUpLoses ==
  ASSUME IInv, LossyFaults \cap Faults # {},
         NEW p \in Pollers, NEW S \in SUBSET batch[p],
         dropped' = dropped \cup S,
         \A e \in Events : row'[e] = "absent" <=> row[e] = "absent",
         UNCHANGED accepted
  PROVE  Delivery!Next
<1> DEFINE L == {e \in S : accepted[e] = 0}
<1> USE DEF IInv, TypeOK, RowState, Phase, BatchMatchesPhase, DroppedIsGone
<1>1. L \in SUBSET Events
  OBVIOUS
<1>2. \A e \in L : DeliveryStatus(e) = "owed" /\ DeliveryStatus(e)' = "lost"
  BY DEF DeliveryStatus
<1>3. \A e \in Events \ L : DeliveryStatus(e)' = DeliveryStatus(e)
  BY DEF DeliveryStatus
<1>4. Delivery!Lose(L)
  BY <1>1, <1>2, <1>3 DEF Delivery!Lose, Delivery!Move
<1> QED
  BY <1>1, <1>4 DEF Delivery!Next

\* A step that changes none of the columns DeliveryStatus looks at stutters.
LEMMA DeliveryStutter ==
  ASSUME \A e \in Events : row'[e] = "absent" <=> row[e] = "absent",
         UNCHANGED <<accepted, dropped>>
  PROVE  UNCHANGED [e \in Events |-> DeliveryStatus(e)]
  BY DEF DeliveryStatus

\* A task stored for a pending event delivers it, and a second one changes
\* nothing.
LEMMA StoringDelivers ==
  ASSUME IInv, NEW e \in Events, NEW p \in Pollers, e \in batch[p],
         StoreTask(e), UNCHANGED <<row, dropped>>
  PROVE  Delivery!Next \/ UNCHANGED [f \in Events |-> DeliveryStatus(f)]
<1> USE DEF IInv, TypeOK, RowState, Phase, BatchMatchesPhase, DroppedIsGone
<1>1. \A f \in Events \ {e} : DeliveryStatus(f)' = DeliveryStatus(f)
  BY DEF DeliveryStatus, StoreTask
<1>2. DeliveryStatus(e)' = "delivered"
  BY DEF DeliveryStatus, StoreTask
<1>3. DeliveryStatus(e) \in {"owed", "delivered"}
  BY DEF DeliveryStatus
<1>4. CASE DeliveryStatus(e) = "owed"
  <2>1. Delivery!Deliver(e)
    BY <1>1, <1>2, <1>4 DEF Delivery!Deliver, Delivery!Move
  <2> QED
    BY <2>1 DEF Delivery!Next
<1>5. CASE DeliveryStatus(e) = "delivered"
  BY <1>1, <1>2, <1>5
<1> QED
  BY <1>3, <1>4, <1>5

LEMMA DeliveryStep ==
  ASSUME IInv, [OutboxNext]_outboxVars
  PROVE  [Delivery!Next]_[e \in Events |-> DeliveryStatus(e)]
<1> DEFINE Goal == [Delivery!Next]_[e \in Events |-> DeliveryStatus(e)]
<1> USE DEF TypeOK, RowState, Phase, LossyFaults, StatementsFail
<1>0. TypeOK /\ BatchMatchesPhase /\ AbsentIsFresh /\ DroppedIsGone
  BY DEF IInv
<1>1. CASE UNCHANGED outboxVars
  BY <1>1, DeliveryStutter DEF outboxVars
<1>2. ASSUME NEW e \in Events, NEW j \in Jobs, Write(e, j)
      PROVE  Goal
  <2>1. /\ DeliveryStatus(e) = "none" /\ DeliveryStatus(e)' = "owed"
        /\ \A f \in Events \ {e} : DeliveryStatus(f)' = DeliveryStatus(f)
    BY <1>0, <1>2 DEF Write, InsertEvent, DeliveryStatus, AbsentIsFresh,
       DroppedIsGone
  <2> QED
    BY <2>1 DEF Delivery!Next, Delivery!Owe, Delivery!Move
<1>3. ASSUME NEW e \in Events, Consume(e)
      PROVE  Goal
  BY <1>3, DeliveryStutter DEF Consume
<1>4. ASSUME NEW p \in Pollers, PollerStep(p)
      PROVE  Goal
  <2>1. CASE Claim(p) \/ RollbackBatch(p)
    BY <2>1, DeliveryStutter DEF Claim, RollbackBatch
  <2>2. CASE CommitBatch(p)
    BY <2>2, <1>0, DeliveryStutter
       DEF CommitBatch, MarkPublished, BatchMatchesPhase
  <2>3. CASE CommitBatchUnknown(p)
    BY <2>3, <1>0, GivingUpLoses
       DEF CommitBatchUnknown, MarkPublished, BatchMatchesPhase
  <2>4. CASE PollerDies(p)
    <3>1. CASE phase[p] = "locked"
      BY <2>4, <3>1, DeliveryStutter DEF PollerDies
    <3>2. CASE phase[p] # "locked"
      BY <2>4, <3>2, <1>0, GivingUpLoses DEF PollerDies
    <3> QED
      BY <3>1, <3>2
  <2>5. ASSUME NEW e \in Events, EnqueueOK(p, e) \/ EnqueueUnknown(p, e)
        PROVE  Goal
    BY <2>5, StoringDelivers DEF EnqueueOK, EnqueueUnknown, NextOf
  <2>6. ASSUME NEW e \in Events, EnqueueRejected(p, e)
        PROVE  Goal
    BY <2>6, DeliveryStutter DEF EnqueueRejected
  <2>7. ASSUME NEW e \in Events, Unpublish(p, e)
        PROVE  Goal
    <3>1. row[e] = "published"
      BY <2>7, <1>0 DEF Unpublish, NextOf, BatchMatchesPhase
    <3> QED
      BY <2>7, <3>1, <1>0, DeliveryStutter DEF Unpublish
  <2>8. ASSUME NEW e \in Events, UnpublishFails(p, e)
        PROVE  Goal
    <3>1. /\ {e} \in SUBSET batch[p] /\ dropped' = dropped \cup {e}
          /\ LossyFaults \cap Faults # {}
          /\ UNCHANGED <<row, accepted>>
      BY <2>8 DEF UnpublishFails, NextOf
    <3> QED
      BY <3>1, GivingUpLoses
  <2> QED
    BY <1>4, <2>1, <2>2, <2>3, <2>4, <2>5, <2>6, <2>7, <2>8 DEF PollerStep
<1> QED
  BY <1>1, <1>2, <1>3, <1>4 DEF OutboxNext

\* Every behaviour of the relay is a behaviour of EventDelivery: an event
\* handed over stays so, and one given up is never offered again.
THEOREM Implementation == OutboxSpec => ImplementsDelivery
<1>1. IInv /\ [OutboxNext]_outboxVars
        => [Delivery!Next]_[e \in Events |-> DeliveryStatus(e)]
  BY DeliveryStep
<1> QED
  BY DeliveryInit, Invariance, <1>1, PTL
     DEF OutboxSpec, ImplementsDelivery, Delivery!Spec

-----------------------------------------------------------------------------
(* At-least-once delivery, where it holds *)

\* Without a lossy fault no poller gives an event up.
LEMMA LosslessPoller ==
  ASSUME Faults \cap LossyFaults = {}, NEW p \in Pollers, PollerStep(p)
  PROVE  dropped' = dropped
<1>1. ~ StatementsFail /\ "commitUnknown" \notin Faults
      /\ Faults \cap {"death", "shutdown"} = {}
  BY DEF LossyFaults, StatementsFail
<1> QED
  BY <1>1 DEF PollerStep, Claim, CommitBatch, RollbackBatch, CommitBatchUnknown,
     PollerDies, EnqueueOK, EnqueueRejected, EnqueueUnknown, Unpublish,
     UnpublishFails

\* The README's "at-least-once delivery" is kept as long as the database
\* answers and processes live, whatever Redis does: pollOnce publishes before
\* it enqueues, but its clean-up then always gets through.
THEOREM AtLeastOnceIfLossless ==
  ASSUME Faults \cap LossyFaults = {}
  PROVE  OutboxSpec => []AtLeastOnce
<1>1. OutboxInit => dropped = {}
  BY DEF OutboxInit
<1>2. dropped = {} /\ [OutboxNext]_outboxVars => (dropped = {})'
  BY LosslessPoller DEF OutboxNext, Write, Consume, outboxVars
<1>3. IInv /\ dropped = {} => AtLeastOnce
  BY DEF IInv, NoEventForgotten, AtLeastOnce
<1> QED
  BY <1>1, <1>2, <1>3, Invariance, PTL DEF OutboxSpec
=============================================================================
