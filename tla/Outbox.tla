------------------------------- MODULE Outbox -------------------------------
(***************************************************************************)
(* The transactional outbox and its relay.                                 *)
(*                                                                         *)
(* A row of table outbox is written in the transaction that creates a job  *)
(* or schedules its retry.  Poller goroutines (service/outbox_poller.go)   *)
(* claim batches of unpublished rows with FOR UPDATE SKIP LOCKED, mark     *)
(* them published, COMMIT, and only then hand one asynq task per row to    *)
(* Redis.  A failed hand-over is undone by marking the row unpublished.    *)
(*                                                                         *)
(* An event is identified with its rank in created_at order; rows may be   *)
(* committed in another order.  What may go wrong is chosen by the         *)
(* constant Faults.  Definitions introduced by "Variant" are not part of   *)
(* the model: each is a definition as a slip in the code would have it,    *)
(* for showing that a property can tell the difference.                    *)
(***************************************************************************)
EXTENDS Integers, FiniteSets

CONSTANTS
  Jobs,        \* ids of the jobs an event may be about (aggregate_id)
  NoJob,       \* "no row yet"
  Events,      \* outbox rows, numbered by created_at
  Pollers,     \* poller goroutines, of one worker process or of several
  BatchLimit,  \* LIMIT of the claiming SELECT
  Faults,      \* the failures the environment may inject
  MaxCopies    \* bound: tasks Redis stores for one event through lost replies

(***************************************************************************)
(*   dbError        a statement or a COMMIT fails and has no effect        *)
(*   commitUnknown  a COMMIT takes effect but the client sees an error     *)
(*   redisReject    Enqueue fails and no task is stored                    *)
(*   redisUnknown   the task is stored but Enqueue returns an error        *)
(*   death          a worker process is killed, or loses its asynq lease   *)
(*   shutdown       SIGTERM to a worker process cancels its context, and    *)
(*                  asynq puts unfinished tasks back into the queue        *)
(*   badResult      the receiver answers what a column cannot hold         *)
(***************************************************************************)
FaultKinds == {"dbError", "commitUnknown", "redisReject", "redisUnknown",
               "death", "shutdown", "badResult"}

ASSUME OutboxAssumption ==
  /\ NoJob \notin Jobs
  /\ Events \subseteq Nat
  /\ BatchLimit \in Nat \ {0}
  /\ Faults \subseteq FaultKinds
  /\ MaxCopies \in Nat

VARIABLES
  row,       \* [Events -> RowState]: the published column, or no row
  about,     \* [Events -> Jobs \cup {NoJob}]: the aggregate_id column
  phase,     \* [Pollers -> Phase]: where in pollOnce a poller is
  batch,     \* [Pollers -> SUBSET Events]: its events still to be handled
  waiting,   \* [Events -> Nat]: tasks for the event in the asynq queue
  accepted,  \* history, [Events -> Nat]: tasks Redis ever stored for it
  dropped    \* history, SUBSET Events: published rows a poller gave up

outboxVars == <<row, about, phase, batch, waiting, accepted, dropped>>

RowState == {"absent", "unpublished", "published"}
Phase    == {"idle", "locked", "enqueue", "cleanup"}

TypeOK ==
  /\ row \in [Events -> RowState]
  /\ about \in [Events -> Jobs \cup {NoJob}]
  /\ phase \in [Pollers -> Phase]
  /\ batch \in [Pollers -> SUBSET Events]
  /\ waiting \in [Events -> Nat]
  /\ accepted \in [Events -> Nat]
  /\ dropped \in SUBSET Events

OutboxInit ==
  /\ row = [e \in Events |-> "absent"]
  /\ about = [e \in Events |-> NoJob]
  /\ phase = [p \in Pollers |-> "idle"]
  /\ batch = [p \in Pollers |-> {}]
  /\ waiting = [e \in Events |-> 0]
  /\ accepted = [e \in Events |-> 0]
  /\ dropped = {}

-----------------------------------------------------------------------------
(* Rows *)

\* An INSERT INTO outbox becomes visible when its transaction commits.
InsertEvent(e, j) ==
  /\ row[e] = "absent"
  /\ row' = [row EXCEPT ![e] = "unpublished"]
  /\ about' = [about EXCEPT ![e] = j]

\* Variant: the claiming SELECT without FOR UPDATE SKIP LOCKED.
NoLocks == {}

\* Rows another poller's open transaction has locked.
LockedRows == UNION {batch[p] : p \in {q \in Pollers : phase[q] = "locked"}}

\* WHERE published = false ... FOR UPDATE SKIP LOCKED
Claimable == {e \in Events : row[e] = "unpublished"} \ LockedRows

\* ORDER BY created_at ASC LIMIT BatchLimit
OldestBatch(B) ==
  /\ Cardinality(B) <= BatchLimit
  /\ B = Claimable \/ Cardinality(B) = BatchLimit
  /\ \A e \in B, f \in Claimable \ B : e < f

\* The loop over the batch is in created_at order.
NextOf(p, e) == e \in batch[p] /\ \A f \in batch[p] : e <= f

-----------------------------------------------------------------------------
(* pollOnce *)

\* BeginTx and the claiming SELECT.  With nothing to claim the transaction
\* is committed and the poller sleeps again.
Claim(p) ==
  /\ phase[p] = "idle"
  /\ \E B \in SUBSET Claimable :
       /\ OldestBatch(B)
       /\ batch' = [batch EXCEPT ![p] = B]
       /\ phase' = [phase EXCEPT ![p] = IF B = {} THEN "idle" ELSE "locked"]
  /\ UNCHANGED <<row, about, waiting, accepted, dropped>>

MarkPublished(S) ==
  row' = [e \in Events |-> IF e \in S THEN "published" ELSE row[e]]

\* Variant: the transaction commits without having marked the rows.
CommitUnmarked(p) ==
  /\ phase[p] = "locked"
  /\ phase' = [phase EXCEPT ![p] = "enqueue"]
  /\ UNCHANGED <<row, about, batch, waiting, accepted, dropped>>

\* Every row of the batch is marked published and the transaction commits:
\* from here on only this goroutine's memory knows what is to be enqueued.
CommitBatch(p) ==
  /\ phase[p] = "locked"
  /\ MarkPublished(batch[p])
  /\ phase' = [phase EXCEPT ![p] = "enqueue"]
  /\ UNCHANGED <<about, batch, waiting, accepted, dropped>>

\* The goroutine returns from pollOnce, leaving the rest of its batch.
LeavePoll(p) ==
  /\ phase' = [phase EXCEPT ![p] = "idle"]
  /\ batch' = [batch EXCEPT ![p] = {}]

\* A statement fails, for instance because the context is cancelled.
StatementsFail == Faults \cap {"dbError", "shutdown"} # {}

\* An UPDATE or the COMMIT fails: the deferred Rollback releases the rows.
RollbackBatch(p) ==
  /\ StatementsFail
  /\ phase[p] = "locked"
  /\ LeavePoll(p)
  /\ UNCHANGED <<row, about, waiting, accepted, dropped>>

\* Variant: the error of the COMMIT is logged, and the loop runs.
CommitErrorIgnored(p) ==
  /\ "commitUnknown" \in Faults
  /\ phase[p] = "locked"
  /\ MarkPublished(batch[p])
  /\ phase' = [phase EXCEPT ![p] = "enqueue"]
  /\ dropped' = dropped \cup batch[p]
  /\ UNCHANGED <<about, batch, waiting, accepted>>

\* The COMMIT took effect but reports an error: pollOnce returns before the
\* loop that enqueues.
CommitBatchUnknown(p) ==
  /\ "commitUnknown" \in Faults
  /\ phase[p] = "locked"
  /\ MarkPublished(batch[p])
  /\ LeavePoll(p)
  /\ dropped' = dropped \cup batch[p]
  /\ UNCHANGED <<about, waiting, accepted>>

\* The loop goes on to the next event of the batch, or pollOnce ends.
Handled(p, e) ==
  /\ batch' = [batch EXCEPT ![p] = @ \ {e}]
  /\ phase' = [phase EXCEPT
                 ![p] = IF batch[p] = {e} THEN "idle" ELSE "enqueue"]

\* Redis stores a task for e; every call makes a task of its own.
StoreTask(e) ==
  /\ waiting' = [waiting EXCEPT ![e] = @ + 1]
  /\ accepted' = [accepted EXCEPT ![e] = @ + 1]

EnqueueOK(p, e) ==
  /\ phase[p] = "enqueue" /\ NextOf(p, e)
  /\ StoreTask(e)
  /\ Handled(p, e)
  /\ UNCHANGED <<row, about, dropped>>

\* Variant: no clean-up after a refused Enqueue.
RejectionIgnored(p, e) ==
  /\ "redisReject" \in Faults
  /\ phase[p] = "enqueue" /\ NextOf(p, e)
  /\ Handled(p, e)
  /\ UNCHANGED <<row, about, waiting, accepted, dropped>>

EnqueueRejected(p, e) ==
  /\ "redisReject" \in Faults
  /\ phase[p] = "enqueue" /\ NextOf(p, e)
  /\ phase' = [phase EXCEPT ![p] = "cleanup"]
  /\ UNCHANGED <<row, about, batch, waiting, accepted, dropped>>

EnqueueUnknown(p, e) ==
  /\ "redisUnknown" \in Faults
  /\ phase[p] = "enqueue" /\ NextOf(p, e)
  /\ accepted[e] < MaxCopies
  /\ StoreTask(e)
  /\ phase' = [phase EXCEPT ![p] = "cleanup"]
  /\ UNCHANGED <<row, about, batch, dropped>>

\* Variant: the clean-up does not change the row.
UnpublishNothing(p, e) ==
  /\ phase[p] = "cleanup" /\ NextOf(p, e)
  /\ Handled(p, e)
  /\ UNCHANGED <<row, about, waiting, accepted, dropped>>

\* After an error of Enqueue the row is marked unpublished again.
Unpublish(p, e) ==
  /\ phase[p] = "cleanup" /\ NextOf(p, e)
  /\ row' = [row EXCEPT ![e] = "unpublished"]
  /\ Handled(p, e)
  /\ UNCHANGED <<about, waiting, accepted, dropped>>

\* The clean-up itself fails: the error is logged and the loop continues.
UnpublishFails(p, e) ==
  /\ StatementsFail
  /\ phase[p] = "cleanup" /\ NextOf(p, e)
  /\ Handled(p, e)
  /\ dropped' = dropped \cup {e}
  /\ UNCHANGED <<row, about, waiting, accepted>>

\* The process of poller p ends and is started again; main does not wait for
\* pollers when it shuts down.  The death of a process is the deaths of its
\* goroutines one after another.
PollerDies(p) ==
  /\ Faults \cap {"death", "shutdown"} # {}
  /\ phase[p] # "idle"
  /\ LeavePoll(p)
  /\ dropped' = IF phase[p] = "locked" THEN dropped ELSE dropped \cup batch[p]
  /\ UNCHANGED <<row, about, waiting, accepted>>

PollerStep(p) ==
  \/ Claim(p) \/ CommitBatch(p) \/ RollbackBatch(p) \/ CommitBatchUnknown(p)
  \/ PollerDies(p)
  \/ \E e \in Events : \/ EnqueueOK(p, e) \/ EnqueueRejected(p, e)
                       \/ EnqueueUnknown(p, e)
                       \/ Unpublish(p, e) \/ UnpublishFails(p, e)

-----------------------------------------------------------------------------
(* The queue as the asynq server sees it *)

\* Variant: a task is handed out though none is stored.
TakeAnyway(e) == waiting' = [waiting EXCEPT ![e] = @ - 1]

TakeTask(e) ==
  /\ waiting[e] > 0
  /\ waiting' = [waiting EXCEPT ![e] = @ - 1]

PutBackTask(e) == waiting' = [waiting EXCEPT ![e] = @ + 1]

-----------------------------------------------------------------------------
(* The relay on its own: rows appear, tasks are taken by some server *)

Write(e, j) ==
  /\ InsertEvent(e, j)
  /\ UNCHANGED <<phase, batch, waiting, accepted, dropped>>

Consume(e) ==
  /\ TakeTask(e)
  /\ UNCHANGED <<row, about, phase, batch, accepted, dropped>>

OutboxNext ==
  \/ \E e \in Events, j \in Jobs : Write(e, j)
  \/ \E p \in Pollers : PollerStep(p)
  \/ \E e \in Events : Consume(e)

OutboxSpec == OutboxInit /\ [][OutboxNext]_outboxVars

\* A poller keeps running: the for loop of StartOutboxPollers logs an error
\* and polls again, and a process that died is restarted.  The database
\* commits and Redis accepts again and again, not every time.
OutboxFairness ==
  \A p \in Pollers :
    /\ WF_outboxVars(PollerStep(p))
    /\ SF_outboxVars(CommitBatch(p))
    /\ SF_outboxVars(\E e \in Events : EnqueueOK(p, e))

OutboxFairSpec == OutboxSpec /\ OutboxFairness

-----------------------------------------------------------------------------
(* Properties *)

Held == UNION {batch[p] : p \in Pollers}

\* Row-level locking with SKIP LOCKED, and publishing before the locks are
\* released, keep an event in the hands of at most one poller, through
\* clean-up and deaths (GetUnpublishedOutboxEventsTx, pollOnce).
OneHolder ==
  \A p, q \in Pollers : p # q => batch[p] \cap batch[q] = {}

\* No published event is forgotten: Redis took a task for it, a poller still
\* has it, or it was given up at one of the three places where pollOnce can
\* lose it (unknown COMMIT, failed clean-up, death after the COMMIT).
NoEventForgotten ==
  \A e \in Events :
    row[e] = "published" => accepted[e] > 0 \/ e \in Held \/ e \in dropped

\* The relay never hands over an event twice, unless Redis stored a task
\* whose Enqueue returned an error (the clean-up of pollOnce then offers the
\* row again).
NoDoubleHandOver ==
  "redisUnknown" \notin Faults => \A e \in Events : accepted[e] <= 1

\* Every row that waits to be published reaches Redis or is given up, however
\* often a claim is rolled back or an Enqueue refused in between.
EveryEventSettles ==
  \A e \in Events :
    row[e] = "unpublished" ~> (accepted[e] > 0 \/ e \in dropped)

\* The relay as seen from outside: what a written event has come to.
DeliveryStatus(e) ==
  IF row[e] = "absent" THEN "none"
  ELSE IF accepted[e] > 0 THEN "delivered"
  ELSE IF e \in dropped THEN "lost" ELSE "owed"

\* The faults through which pollOnce loses an event it has published.
LossyFaults == {"dbError", "commitUnknown", "death", "shutdown"}

Delivery == INSTANCE EventDelivery WITH
              status  <- [e \in Events |-> DeliveryStatus(e)],
              MayLose <- Faults \cap LossyFaults # {}

\* The outbox relay implements event delivery: every step of the pollers is
\* a hand-over, a loss the faults explain, or invisible; in particular an
\* event handed over is never owed again and a lost one never comes back.
ImplementsDelivery == Delivery!Spec

\* README: "The outbox pattern guarantees at-least-once delivery of job
\* events to the worker": a published row has been delivered or is about to.
AtLeastOnce ==
  \A e \in Events : row[e] = "published" => accepted[e] > 0 \/ e \in Held
=============================================================================
