---------------------------- MODULE JobPipeline ----------------------------
(***************************************************************************)
(* The life of a job: the jobs table, the outbox relay, the asynq queue    *)
(* and the worker goroutines that run ProcessJobTask                       *)
(* (service/processor.go).                                                 *)
(*                                                                         *)
(* An execution of a job is a chain of separate steps: a transaction that  *)
(* counts the attempt and marks the job running, an unlocked interval in   *)
(* which the webhook is called, and a second transaction that records the  *)
(* outcome with values remembered from the first.  Other executions of the *)
(* same job, PUT and DELETE requests and failures come in between.  Tasks  *)
(* are enqueued with MaxRetry(0): whatever makes the handler return an     *)
(* error, or makes asynq lose it, archives the task.                       *)
(***************************************************************************)
EXTENDS Outbox

CONSTANTS
  Executors,   \* asynq worker goroutines (Concurrency: 10)
  NoEvent,     \* "no task"
  Limits,      \* values of max_retries that requests use
  MaxStarts    \* bound: executions of a job after which none is put back

ASSUME PipelineAssumption ==
  /\ NoEvent \notin Events
  /\ Limits \subseteq Nat \ {0}
  /\ MaxStarts \in Nat

VARIABLES
  state,      \* [Jobs -> JobState]: the state column, "absent", "deleted"
  attempts,   \* [Jobs -> Nat]: the attempts column
  limit,      \* [Jobs -> Nat]: the max_retries column
  xphase,     \* [Executors -> ExecPhase]: where in ProcessJobTask it is
  xevent,     \* [Executors -> Events \cup {NoEvent}]: outbox_id of its task
  xattempt,   \* [Executors -> Nat]: the local variable attempts
  xlimit,     \* [Executors -> Nat]: job.MaxRetries as loaded
  archived,   \* SUBSET Events: events with a task in asynq's archive
  starts,     \* history, [Jobs -> Nat]: executions that reached "running"
  ceiling,    \* history, [Jobs -> Nat]: largest max_retries the job ever had
  acked,      \* history, SUBSET (Jobs \X Nat): attempts whose 2xx answer the
              \* handler accepted
  abandoned   \* history, SUBSET Jobs: handler returned nil on a DB error

jobVars  == <<state, attempts, limit>>
execVars == <<xphase, xevent, xattempt, xlimit, archived>>
histVars == <<starts, ceiling, acked, abandoned>>
vars     == <<outboxVars, jobVars, execVars, histVars>>

JobState  == {"absent", "pending", "running", "queued", "completed",
              "failed", "deleted"}
Unsettled == {"pending", "running", "queued"}
Terminal  == {"completed", "failed"}
Live      == Unsettled \cup Terminal
ExecPhase == {"idle", "loaded", "sleeping", "succeeded", "refused"}

PipelineTypeOK ==
  /\ TypeOK
  /\ state \in [Jobs -> JobState]
  /\ attempts \in [Jobs -> Nat]
  /\ limit \in [Jobs -> Nat]
  /\ xphase \in [Executors -> ExecPhase]
  /\ xevent \in [Executors -> Events \cup {NoEvent}]
  /\ xattempt \in [Executors -> Nat]
  /\ xlimit \in [Executors -> Nat]
  /\ archived \in SUBSET Events
  /\ starts \in [Jobs -> Nat]
  /\ ceiling \in [Jobs -> Nat]
  /\ acked \in SUBSET (Jobs \X Nat)
  /\ abandoned \in SUBSET Jobs

Init ==
  /\ OutboxInit
  /\ state = [j \in Jobs |-> "absent"]
  /\ attempts = [j \in Jobs |-> 0]
  /\ limit = [j \in Jobs |-> 0]
  /\ xphase = [x \in Executors |-> "idle"]
  /\ xevent = [x \in Executors |-> NoEvent]
  /\ xattempt = [x \in Executors |-> 0]
  /\ xlimit = [x \in Executors |-> 0]
  /\ archived = {}
  /\ starts = [j \in Jobs |-> 0]
  /\ ceiling = [j \in Jobs |-> 0]
  /\ acked = {}
  /\ abandoned = {}

-----------------------------------------------------------------------------
(* The API's transactions on a job *)

\* CreateJobWithIdempotency commits: the job and its job_created event.
CreateJob(j, e, m) ==
  /\ state[j] = "absent"
  /\ InsertEvent(e, j)
  /\ state' = [state EXCEPT ![j] = "pending"]
  /\ limit' = [limit EXCEPT ![j] = m]
  /\ ceiling' = [ceiling EXCEPT ![j] = m]
  /\ UNCHANGED <<phase, batch, waiting, accepted, dropped, attempts, execVars,
                 starts, acked, abandoned>>

\* The UPDATE of a PUT request, as far as it concerns processing.
UpdateJobDetails(j, m) ==
  /\ state[j] \in Live
  /\ limit' = [limit EXCEPT ![j] = m]
  /\ ceiling' = [ceiling EXCEPT ![j] = IF m > @ THEN m ELSE @]
  /\ UNCHANGED <<outboxVars, state, attempts, execVars, starts, acked,
                 abandoned>>

\* The DELETE of a job; rows of outbox do not reference jobs and stay.
DeleteJob(j) ==
  /\ state[j] \in Live
  /\ state' = [state EXCEPT ![j] = "deleted"]
  /\ UNCHANGED <<outboxVars, attempts, limit, execVars, histVars>>

-----------------------------------------------------------------------------
(* The asynq server *)

Job(x) == about[xevent[x]]

\* The goroutine is free again; its task has left the active list.
Release(x) ==
  /\ xphase' = [xphase EXCEPT ![x] = "idle"]
  /\ xevent' = [xevent EXCEPT ![x] = NoEvent]
  /\ xattempt' = [xattempt EXCEPT ![x] = 0]
  /\ xlimit' = [xlimit EXCEPT ![x] = 0]

\* The handler returned nil.
Done(x) == Release(x) /\ UNCHANGED archived

\* asynq stops waiting for the handler and returns the task to the queue.
PutBack(x) ==
  /\ "shutdown" \in Faults
  /\ starts[Job(x)] < MaxStarts
  /\ PutBackTask(xevent[x])
  /\ Done(x)

\* The handler returned an error, and MaxRetry(0) allows no retry.
Archive(x) == Release(x) /\ archived' = archived \cup {xevent[x]}

\* The outcome is in the database.  The task is done, unless the process
\* dies first, or was told to put the task back while the outcome was being
\* written.
Finish(x) ==
  \/ Done(x) /\ UNCHANGED waiting
  \/ "death" \in Faults /\ Archive(x) /\ UNCHANGED waiting
  \/ PutBack(x)

Advance(x, p) ==
  /\ xphase' = [xphase EXCEPT ![x] = p]
  /\ UNCHANGED <<xevent, xattempt, xlimit, archived>>

\* A task is dequeued and its payload parsed.
Dequeue(x, e) ==
  /\ xphase[x] = "idle"
  /\ TakeTask(e)
  /\ xphase' = [xphase EXCEPT ![x] = "loaded"]
  /\ xevent' = [xevent EXCEPT ![x] = e]
  /\ UNCHANGED <<row, about, phase, batch, accepted, dropped, jobVars,
                 xattempt, xlimit, archived, histVars>>

\* The process dies or its lease on the task expires: the recoverer of a
\* server finds no retry left and archives the task.
ExecutorDies(x) ==
  /\ "death" \in Faults
  /\ xphase[x] # "idle"
  /\ Archive(x)
  /\ UNCHANGED <<outboxVars, jobVars, histVars>>

\* SIGTERM: a task still running after the shutdown timeout goes back to the
\* queue, and the handler's context is cancelled.
AbortTask(x) ==
  /\ xphase[x] # "idle"
  /\ PutBack(x)
  /\ UNCHANGED <<row, about, phase, batch, accepted, dropped, jobVars,
                 histVars>>

-----------------------------------------------------------------------------
(* ProcessJobTask *)

\* Variant: the attempt is not counted.
MarkUncounted(j) ==
  /\ state' = [state EXCEPT ![j] = "running"]
  /\ starts' = [starts EXCEPT ![j] = @ + 1]
  /\ UNCHANGED attempts

\* The first transaction: lock the job, count the attempt, mark it running.
\* The state it finds is not looked at.
MarkRunning(j) ==
  /\ state' = [state EXCEPT ![j] = "running"]
  /\ attempts' = [attempts EXCEPT ![j] = @ + 1]
  /\ starts' = [starts EXCEPT ![j] = @ + 1]

Start(x) ==
  /\ xphase[x] = "loaded"
  /\ state[Job(x)] \in Live
  /\ MarkRunning(Job(x))
  /\ xphase' = [xphase EXCEPT ![x] = "sleeping"]
  /\ xattempt' = [xattempt EXCEPT ![x] = attempts[Job(x)] + 1]
  /\ xlimit' = [xlimit EXCEPT ![x] = limit[Job(x)]]
  /\ UNCHANGED <<outboxVars, limit, xevent, archived, ceiling, acked,
                 abandoned>>

\* The job has been deleted: "failed to load job", and the task is done.
StartMissing(x) ==
  /\ xphase[x] = "loaded"
  /\ state[Job(x)] = "deleted"
  /\ Done(x)
  /\ UNCHANGED <<outboxVars, jobVars, histVars>>

\* Any error of the first transaction is logged and swallowed.
StartFails(x) ==
  /\ "dbError" \in Faults
  /\ xphase[x] = "loaded"
  /\ Done(x)
  /\ abandoned' = abandoned \cup {Job(x)}
  /\ UNCHANGED <<outboxVars, jobVars, starts, ceiling, acked>>

StartUnknown(x) ==
  /\ "commitUnknown" \in Faults
  /\ xphase[x] = "loaded"
  /\ state[Job(x)] \in Live
  /\ MarkRunning(Job(x))
  /\ Done(x)
  /\ abandoned' = abandoned \cup {Job(x)}
  /\ UNCHANGED <<outboxVars, limit, ceiling, acked>>

\* rand.Float32() < 0.2: the handler returns a WebhookError.
RandomFailure(x) ==
  /\ xphase[x] = "sleeping"
  /\ Archive(x)
  /\ UNCHANGED <<outboxVars, jobVars, histVars>>

\* executeJobWebhook: the handler accepts an answer: it came within 15 seconds,
\* was read to its end, and is 2xx ...
WebhookSucceeds(x) ==
  /\ xphase[x] = "sleeping"
  /\ Advance(x, "succeeded")
  /\ acked' = acked \cup {<<Job(x), xattempt[x]>>}
  /\ UNCHANGED <<outboxVars, jobVars, starts, ceiling, abandoned>>

\* Variant: the status of the answer is not looked at.
StatusIgnored(x) ==
  /\ xphase[x] = "sleeping"
  /\ Advance(x, "succeeded")
  /\ UNCHANGED <<outboxVars, jobVars, histVars>>

\* ... or it gets no such answer: another status, a body that breaks off, no
\* answer, or one that is late.  In all but the first case the receiver may
\* have done its work and answered 2xx: nobody here can tell.
WebhookFails(x) ==
  /\ xphase[x] = "sleeping"
  /\ Advance(x, "refused")
  /\ UNCHANGED <<outboxVars, jobVars, histVars>>

\* Variant: the outcome counts the attempt once more.
OutcomeCounts(x, s) ==
  LET j == Job(x) IN
  /\ state' = [state EXCEPT ![j] = IF @ \in Live THEN s ELSE @]
  /\ attempts' = [attempts EXCEPT
                    ![j] = IF state[j] \in Live THEN xattempt[x] + 1 ELSE @]
  /\ UNCHANGED limit

\* Variant: the outcome is an upsert, which restores a deleted job.
OutcomeRestores(x, s) ==
  /\ state' = [state EXCEPT ![Job(x)] = s]
  /\ attempts' = [attempts EXCEPT ![Job(x)] = xattempt[x]]
  /\ UNCHANGED limit

\* UPDATE jobs SET state, attempts WHERE id: no row if the job is gone, and
\* the attempts written are those this execution remembers.
RecordOutcome(x, s) ==
  LET j == Job(x) IN
  /\ state' = [state EXCEPT ![j] = IF @ \in Live THEN s ELSE @]
  /\ attempts' = [attempts EXCEPT
                    ![j] = IF state[j] \in Live THEN xattempt[x] ELSE @]
  /\ UNCHANGED limit

Complete(x) ==
  /\ xphase[x] = "succeeded"
  /\ RecordOutcome(x, "completed")
  /\ Finish(x)
  /\ UNCHANGED <<row, about, phase, batch, accepted, dropped, histVars>>

\* Variant: the task of an outcome that was not written is run again.
CompleteRetried(x) ==
  /\ Faults \cap {"dbError", "badResult"} # {}
  /\ xphase[x] = "succeeded"
  /\ PutBackTask(xevent[x])
  /\ Done(x)
  /\ UNCHANGED <<row, about, phase, batch, accepted, dropped, jobVars,
                 histVars>>

\* The UPDATE fails, also because the body is no JSON: the error is returned.
CompleteFails(x) ==
  /\ Faults \cap {"dbError", "badResult"} # {}
  /\ xphase[x] = "succeeded"
  /\ Archive(x)
  /\ UNCHANGED <<outboxVars, jobVars, histVars>>

CompleteUnknown(x) ==
  /\ "commitUnknown" \in Faults
  /\ xphase[x] = "succeeded"
  /\ RecordOutcome(x, "completed")
  /\ Archive(x)
  /\ UNCHANGED <<outboxVars, histVars>>

\* attempts >= job.MaxRetries: the job is failed for good.
GiveUp(x) ==
  /\ xphase[x] = "refused"
  /\ xattempt[x] >= xlimit[x]
  /\ RecordOutcome(x, "failed")
  /\ Finish(x)
  /\ UNCHANGED <<row, about, phase, batch, accepted, dropped, histVars>>

\* Variant: the job is queued without an event.
RetryWithoutEvent(x, e) ==
  /\ xphase[x] = "refused"
  /\ xattempt[x] < xlimit[x]
  /\ row[e] = "absent"
  /\ RecordOutcome(x, "queued")
  /\ Finish(x)
  /\ UNCHANGED <<row, about, phase, batch, accepted, dropped, histVars>>

\* Variant: one retry too many.
RetryOnceMore(x, e) ==
  /\ xphase[x] = "refused"
  /\ xattempt[x] <= xlimit[x]
  /\ RecordOutcome(x, "queued")
  /\ InsertEvent(e, Job(x))
  /\ Finish(x)
  /\ UNCHANGED <<phase, batch, accepted, dropped, histVars>>

\* Otherwise it is queued, with a job_retry event in the same transaction.
Retry(x, e) ==
  /\ xphase[x] = "refused"
  /\ xattempt[x] < xlimit[x]
  /\ RecordOutcome(x, "queued")
  /\ InsertEvent(e, Job(x))
  /\ Finish(x)
  /\ UNCHANGED <<phase, batch, accepted, dropped, histVars>>

\* Any error of the second transaction is logged and swallowed, also that of
\* an answer that last_error cannot hold.  (A COMMIT that took effect all the
\* same is like GiveUp or Retry.)
OutcomeFails(x) ==
  /\ Faults \cap {"dbError", "badResult"} # {}
  /\ xphase[x] = "refused"
  /\ Done(x)
  /\ abandoned' = abandoned \cup {Job(x)}
  /\ UNCHANGED <<outboxVars, jobVars, starts, ceiling, acked>>

-----------------------------------------------------------------------------

ApiStep ==
  \E j \in Jobs :
    \/ \E m \in Limits : \/ \E e \in Events : CreateJob(j, e, m)
                         \/ UpdateJobDetails(j, m)
    \/ DeleteJob(j)

\* The handler of x runs on.
HandlerStep(x) ==
  \/ Start(x) \/ StartMissing(x) \/ StartFails(x) \/ StartUnknown(x)
  \/ RandomFailure(x) \/ WebhookSucceeds(x) \/ WebhookFails(x)
  \/ Complete(x) \/ CompleteFails(x) \/ CompleteUnknown(x)
  \/ GiveUp(x) \/ (\E e \in Events : Retry(x, e)) \/ OutcomeFails(x)

RelayStep(p) == PollerStep(p) /\ UNCHANGED <<jobVars, execVars, histVars>>

Next ==
  \/ ApiStep
  \/ \E p \in Pollers : RelayStep(p)
  \/ \E x \in Executors :
       \/ \E e \in Events : Dequeue(x, e)
       \/ HandlerStep(x)
       \/ ExecutorDies(x) \/ AbortTask(x)

Spec == Init /\ [][Next]_vars

\* The server hands out waiting tasks and a handler runs to its end (sleep
\* and webhook call are bounded by 5 and 15 seconds); pollers as in Outbox.
Fairness ==
  /\ \A x \in Executors : SF_vars(HandlerStep(x))
  /\ \A e \in Events : SF_vars(\E x \in Executors : Dequeue(x, e))
  /\ \A p \in Pollers :
       /\ WF_vars(RelayStep(p))
       /\ SF_vars(CommitBatch(p) /\ UNCHANGED <<jobVars, execVars, histVars>>)
       /\ SF_vars(/\ \E e \in Events : EnqueueOK(p, e)
                  /\ UNCHANGED <<jobVars, execVars, histVars>>)

FairSpec == Spec /\ Fairness

-----------------------------------------------------------------------------
(* Properties *)

Busy(x) == xphase[x] # "idle"

\* Somebody still has to hand the event over, or a task waits for it.
EventInFlight(e) == row[e] = "unpublished" \/ e \in Held \/ waiting[e] > 0

\* Something will still bring about an execution of j, or is one.
Carried(j) ==
  \/ \E e \in Events : about[e] = j /\ EventInFlight(e)
  \/ \E x \in Executors : Busy(x) /\ Job(x) = j

\* Something went wrong with j: a handler swallowed a database error, a task
\* of it is archived, or a poller gave up one of its events.
Excused(j) ==
  \/ j \in abandoned
  \/ \E e \in Events : about[e] = j /\ e \in archived \cup dropped

\* A job that is neither finished nor deleted is on its way, unless it was
\* dropped at one of the places where the code drops work.  In particular no
\* interleaving of pollers, executions, PUT and DELETE loses a job
\* (ProcessJobTask never looks a second time at a job without a task).
NoJobVanishes ==
  \A j \in Jobs : state[j] \in Unsettled => Carried(j) \/ Excused(j)

\* A pending or queued job is always on its way to an execution that has not
\* begun, whatever Redis, the receiver and the injected failure do: only
\* database errors and the ends of processes strand a job in these states.
WaitingJobIsCarried ==
  Faults \cap LossyFaults = {} =>
    \A j \in Jobs : state[j] \in {"pending", "queued"} =>
      \/ \E e \in Events : about[e] = j /\ EventInFlight(e)
      \/ \E x \in Executors : xphase[x] = "loaded" /\ Job(x) = j

\* A completed job had a 2xx answer accepted in the very attempt it shows, whatever
\* other executions of the job wrote before (Complete is a second statement,
\* with an attempt number remembered across the webhook call).
CompletedWasAcknowledged ==
  \A j \in Jobs : state[j] = "completed" => <<j, attempts[j]>> \in acked

\* The attempts column never counts an execution that did not begin, although
\* RecordOutcome writes it from the memory of an execution.
AttemptsNeverOvercount == \A j \in Jobs : attempts[j] <= starts[j]

\* Faults after which asynq has a second task for what one task was meant to
\* do: Enqueue hid that it stored one, or SIGTERM put one back that had done
\* its work.
DuplicatingFaults == {"redisUnknown", "shutdown"}

NoDuplicateTasks == Faults \cap DuplicatingFaults = {}

\* An execution holds no lock while it sleeps and calls the webhook, and the
\* state of a job does not stop another one: only the number of tasks does.
\* Retries, clean-up, deaths and swallowed errors never make a second task.
OneExecution ==
  NoDuplicateTasks =>
    \A x, y \in Executors : x # y /\ Busy(x) /\ Busy(y) => Job(x) # Job(y)

\* Under the same condition no outcome is written from stale memory, so the
\* attempts column is the number of executions.
AttemptsCountStarts ==
  NoDuplicateTasks => \A j \in Jobs : attempts[j] = starts[j]

\* README: failed jobs are retried "up to max_retries times".  A job is never
\* executed more often than the largest max_retries it was given, PUT
\* requests during an execution included.
StartsBounded ==
  NoDuplicateTasks => \A j \in Jobs : starts[j] <= ceiling[j]

\* Once a handler has accepted a 2xx answer no further execution of the job
\* begins, although the outcome may never reach the database (CompleteFails, a
\* death after the answer) and the job then shows "running" for ever.  This
\* says nothing of answers that were not accepted: after a 2xx that comes too
\* late or breaks off (processor.go:130-140) the job is called again.
AcceptedAnswerIsLast ==
  NoDuplicateTasks => \A a \in acked : a[2] = attempts[a[1]]

Lifecycle == INSTANCE JobLifecycle

\* The pipeline implements the lifecycle a client sees, as long as tasks are
\* not duplicated: outbox, queue and executions never begin a
\* finished job again or two executions of a job at a time.
ImplementsLifecycle == Lifecycle!LifeSpec

\* Every job is finished or deleted in the end, or something went wrong.
EveryJobSettles ==
  \A j \in Jobs :
    state[j] \in Unsettled ~> (state[j] \notin Unsettled \/ Excused(j))

\* A created or retried job is executed (or deleted) while only Redis and the
\* receiver fail.
WaitingJobStarts ==
  \A j \in Jobs :
    /\ state[j] = "pending" ~> state[j] # "pending"
    /\ state[j] = "queued" ~> state[j] # "queued"

\* scripts/demo.txt: "On success -> completed.  On failure -> retried up to
\* max_retries": a job does not stay pending, running or queued for ever.
EveryJobFinishes ==
  \A j \in Jobs : state[j] \in Unsettled ~> state[j] \notin Unsettled
=============================================================================
