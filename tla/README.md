# A verification development of the job service

The service in this repository takes jobs over HTTP, stores them in PostgreSQL,
hands them to workers through a transactional outbox and an asynq queue in
Redis, and calls a webhook for each.  This directory holds TLA+ modules of its
core, configurations that model-check them with TLC on small instances, and
proofs checked with TLAPS that hold for instances of every size.

Paths and line numbers are those of `src/`; `PROJECT.json` maps every definition
to the lines it models and lists the hazards the properties are for.

## 1. The system

| Part | State | Operations | Where | Modelled |
|---|---|---|---|---|
| Outbox relay | rows of `outbox` (published or not); the local variables of each poller goroutine | `pollOnce`: claim, publish, COMMIT, enqueue, clean up | `service/outbox_poller.go`, `db/store.go` 363-405 | `Outbox` |
| Task queue | pending, active and archived tasks | enqueue, dequeue, archive, put back | asynq over Redis (external) | in `Outbox`, `JobPipeline` |
| Job execution | `jobs.state`, `jobs.attempts`; the handler's local variables | `ProcessJobTask`: first transaction, sleep, webhook, outcome | `service/processor.go`, `db/store.go` 152-263, 407-414 | `JobPipeline` |
| Job creation | `jobs`, `idempotency_keys`, `outbox` | `CreateJobWithIdempotency` | `db/store.go` 272-361, `handler/routes.go` 226-288 | `Idempotency`; its COMMIT in `JobPipeline` |
| Jobs API | `jobs` | GET, PUT, DELETE | `handler/routes.go` 360-515 | `JobsApi`; its statements in `JobPipeline` |
| Job listing | none | list | `handler/routes.go` 301-347, `db/store.go` 185-226 | `JobListing` |
| Accounts, tokens | `users`; nothing is kept about tokens | register, login, JWT check | `handler/routes.go` 96-211, `service/token.go`, `middleware/` | `Accounts` |
| Payload, canonical JSON | none | `NewJobPayload`, `CanonicalJSON`, hash | `service/job_payload.go`, `service/idempotency.go` | `JobPayload`, for the struct a request gives |
| Start-up | the row of `schema_migrations`, an advisory lock | migrate, open, listen | `cmd/`, `db/migrate.go`, `db/open.go` | `StartUp` |
| Webhook stub, logging, nginx, swagger, unused sqlc queries | none | | | no |

**How they interact.**  The API and the workers share only the database.  One
transaction creates a job and its `job_created` row in `outbox`.  Every worker
process runs two poller goroutines and an asynq server of ten.  A poller claims
a batch of unpublished rows (`FOR UPDATE SKIP LOCKED`), marks them published,
commits, and then enqueues one task per row with `MaxRetry(0)`; if Enqueue fails
it marks the row unpublished again in a statement of its own.  A server
goroutine runs `ProcessJobTask` for a task: a first transaction locks the job,
adds one to `attempts` and sets the state `running`; then the handler holds no
lock while it sleeps, perhaps returns the injected failure, and calls the
webhook; then it records `completed`, `failed`, or `queued` together with a
`job_retry` row, using attempts and max_retries as it remembers them.
Before any of this each process, API or worker, brings the database schema up to
date, at the same time as the others.  A client reaches `/jobs` with a token
from `/register` or `/login`; the API keeps no record of tokens.

**What is hard.**  Three stores of truth (database, Redis, goroutine memory) are
updated one after another, so every step between them can be the last one a
process makes.  Errors do not say whether the operation took effect.  The handler
neither locks the job while it works nor looks at the state it finds, so that
one execution at a time, final states and a true attempts counter all hang on
the number of tasks in Redis.  Errors are swallowed (`return nil`, which makes
asynq forget the task) or returned (which archives it), and nothing ever looks
again at a job without a task.  The API looks before it writes, in separate
statements: two requests may both find no job for their payload, and a PUT
writes back columns that others have changed since it read them.  A list is cut
into pages by OFFSET, counted anew for every page while rows come and go.  A
user's row is committed before the answer to the registration can fail.  A
process that ends within a migration leaves a mark that stops every process.

**What makes each part correct.**

* Relay: an event is in one poller's hands; none is forgotten; none is handed
  over twice; each gets somewhere in the end.
* Execution: a job that is not finished has something that will carry it on; a
  completed job had a 2xx answer accepted, and after one no execution begins;
  attempts are counted truly and bounded by max_retries; finished
  jobs stay finished.
* Creation: the same request gives the same job, also concurrently, and different
  requests give different jobs.
* API: PUT changes what it names and nothing else; a deleted job stays deleted.
* Listing: a page is the one asked for; a walk through the pages misses no more
  than was deleted, and repeats no more than was created, meanwhile.
* Accounts: an address has one user, who can log in however the registration was
  answered; a token acts for the one who gave the password.
* Start-up: nobody serves without the whole schema; every file runs once; everyone
  serves in the end unless a migration is cut short.

## 2. Modules

| Module | What it is |
|---|---|
| `EventDelivery` | what a relay promises: an event is owed, then delivered or (if it may be) lost, for good |
| `Outbox` | `outbox` rows, pollers, queue; its properties; the refinement of `EventDelivery` |
| `JobLifecycle` | what a client polling a job sees: its states and attempts |
| `JobPipeline` | extends `Outbox` by jobs, handlers, API requests and asynq; the refinement of `JobLifecycle` |
| `JobCreation` | what POST /jobs promises: one job at a time for a request, and answers that name it |
| `Idempotency` | the transaction of POST /jobs, statement by statement, for concurrent requests; the refinement of `JobCreation` |
| `JobsApi` | GET, PUT and DELETE as read, check, write |
| `JobPayload` | the payload of a request and the text that is hashed, as functions, with a reference for them |
| `JobListing` | the list of jobs and its pages, for a client that walks through them |
| `Accounts` | registration, login and tokens, for concurrent requests |
| `StartUp` | processes that migrate the database, serve, end and start again |
| `MCOutbox`, `MCJobPipeline`, `MCIdempotency`, `MCJobsApi`, `MCJobListing`, `MCAccounts`, `MCStartUp` | constants for TLC |
| `OutboxProofs`, `JobPipelineProofs`, `JobLifecycleProofs`, `IdempotencyProofs`, `JobsApiProofs`, `JobListingProofs`, `AccountsProofs`, `StartUpProofs` | theorems, with the inductive invariants |

`JobPipeline` extends `Outbox`.  `Idempotency` and `JobsApi` refine what
`JobPipeline` takes as single steps (`CreateJob`; `UpdateJobDetails`,
`DeleteJob`) and stand on their own; `CreationIsOneStep` (section 4) shows that
to those who poll jobs the transaction of a POST is that single step.  `Idempotency`
extends `JobPayload`.  `JobListing`,
`Accounts` and `StartUp` share no state with the others that their properties
depend on: the list only needs rows that come and go.

The modules also hold definitions introduced by "Variant": a
definition with a plausible slip in it (a dropped guard, a missing statement).
They are not part of the model.  Putting a variant in the place of its original
makes the property named beside it in `PROJECT.json` fail, which shows that the
property depends on what the code does there.

### Outbox

An event stands for a row of `outbox`, numbered by `created_at`.  `row[e]` is the
published column; `phase[p]` and `batch[p]` are where poller `p` is in
`pollOnce` and which events of its slice it has not handled; `waiting[e]` counts
tasks in Redis.  `accepted` and `dropped` are history: how many tasks Redis ever
stored for an event, and which published events a poller gave up.

| Action | Code (`outbox_poller.go`) |
|---|---|
| `Claim` | 34-46: transaction, SELECT of the oldest unlocked unpublished rows; an empty result ends the poll |
| `CommitBatch` | 48-56: marks, COMMIT.  Rows other pollers see change only here, so the updates are one step |
| `RollbackBatch`, `CommitBatchUnknown` | an error with no effect, or an error of a COMMIT that took effect: `return err` |
| `EnqueueOK`, `EnqueueRejected`, `EnqueueUnknown` | 68: stored; refused; stored but reported as an error |
| `Unpublish`, `UnpublishFails` | 71-74: the clean-up, a transaction of its own |
| `PollerDies` | the process ends; locks of an open transaction are released |

The first clean-up branch (60-66) cannot be reached: marshalling two strings does
not fail.

### JobPipeline

`state`, `attempts`, `limit` are the columns of `jobs`; `xphase`, `xevent`,
`xattempt`, `xlimit` are a handler's position and local variables; `archived`
holds the events whose task is in asynq's archive.  History: `starts` (executions
that reached "running"), `ceiling` (largest max_retries a job ever had), `acked`
(attempts whose 2xx answer a handler accepted: in time and read to its end), `abandoned` (jobs whose handler swallowed an error).

| Action | Code (`processor.go`) |
|---|---|
| `Start` | 25-55: one transaction under a row lock, hence one step |
| `StartMissing`, `StartFails`, `StartUnknown` | the job is gone; an error before or in COMMIT; a COMMIT that took effect |
| `RandomFailure` | 65-68: returned error, the task is archived |
| `WebhookSucceeds`, `WebhookFails` | 70, 129-147: the call is over; nothing is written yet.  A 2xx that is late or breaks off is a failure like any other |
| `Complete`, `CompleteFails`, `CompleteUnknown` | 126: a single UPDATE, its error is returned |
| `GiveUp`, `Retry`, `OutcomeFails` | 74-122: one transaction, its errors are swallowed |
| `CreateJob`, `UpdateJobDetails`, `DeleteJob` | the API's statements |
| `Dequeue`, `ExecutorDies`, `AbortTask`, `Finish` | asynq: hand-out; lost process or lease (the recoverer archives); SIGTERM (task put back); the end of a task, which may coincide with either |

**Faults.**  The constant `Faults` selects what may go wrong: `dbError`,
`commitUnknown`, `redisReject`, `redisUnknown`, `death`, `shutdown`, `badResult`
(an answer that the `jsonb` or `text` column cannot hold).  Each action that
needs a fault has it as a guard, so a property can be checked under exactly the
faults under which it holds, and it names them: `LossyFaults` can lose an event
a poller has published, `DuplicatingFaults` can make a second task.

**Abstractions.**  Ids, payloads, results, error texts and time are left out.
A transaction under row locks is one step.  asynq returns a task at most once
per execution at SIGTERM; the few milliseconds in which a second process could
start it before the first handler's last statement has committed are not
distinguished from after it (`Finish`).

### Idempotency

`table` and `made` are the committed rows of `jobs` with the user and payload
they were made for, `index` those of `idempotency_keys`, `expired` the jobs whose
key is past its `expires_at`.  Rows an open transaction has inserted are in the local
variables of its request (`phase`, `key`, `job`), because nobody else sees them.
History: `told` (which job a client was told), `steady` (requests whose job was
there when they began, with a key that had not expired, both of which are still so,
and none of whose own statements failed).

| Action | Code (`db/store.go`) |
|---|---|
| `Refuse`, `Receive` | routes.go 226-273: required fields; defaults and hash |
| `Find`, `InsertJob` | 284-319: the SELECT of the key; on `sql.ErrNoRows` the INSERT of a job |
| `AnswerExisting`, `AnswerVanished` | 289-296: the job found is read; it may have been deleted |
| `InsertKey`, `KeyConflict` | 324-330: the unique index; while another open transaction holds the key (`KeyLocked`) neither is possible: the INSERT waits |
| `AnswerAccepted`, `CommitUnknown`, `Abort` | 356-360: COMMIT, a COMMIT whose answer is lost, or any failure with its rollback |
| `DeleteJob` | DELETE with its cascade |
| `KeyExpires` | 327: 24 hours have passed; no code notices |

The transaction runs at PostgreSQL's default level, READ COMMITTED.  A key is the
user with the text that is hashed (SHA-256 is taken to have no collisions).  That
text is `CanonicalJSON(NewJobPayload(b))` of `JobPayload`: a body with its three
numbers defaulted, written by `json.Marshal` as the struct it is.  The cases of
`CanonicalJSON` for maps, arrays and raw messages (idempotency.go 13-25, 31-76) are
reached by no request and are left out.  A lost answer and a 500 are one thing to
the client.

### JobsApi

A handler reads the job (`copy`), compares its owner (`MayTouch`), and then
writes.  `Merge` is the sequence of ifs of `updateJobHandler`; 0 stands for a
number that is not positive and for the empty text.  History: `asked` (values
the owner asked for), `merged` (the row if all PUTs had been applied one after
another), `stale` (handlers whose job was written since they read it), `clashed`
(jobs a stale handler wrote), `gone` (deletions answered 200).  The columns only
workers write are in `JobPipeline`.

### JobListing

`row` and `stamp` are the rows of `jobs` with `created_at`, which PostgreSQL sets
to the start of the transaction: a job may appear behind newer ones.  `page`,
`size` and `seen` belong to a client that walks the pages; `kept`, `removed` and
`added` are history of its walk.  `probe` is the answer to a page asked for on its
own; it is forgotten when the list changes.

| Action | Code |
|---|---|
| `BeginJob`, `CommitJob`, `RollbackJob`, `DeleteJob` | the statements of POST and DELETE (store.go) on the list |
| `Probe` | routes.go 301-347 for any texts of page and page_size; store.go 185-226 |
| `StartWalk`, `WalkOn` | a client asks for page 1, 2, ... until a page is not full |
| `Tick` | `now()` of the database |

`Atoi`, `PageNumber`, `PageSize` and `Offset` keep the width of an int
(`HalfWord` stands for 2^63).  `IsPage` is ORDER BY created_at DESC LIMIT OFFSET:
rows of equal times come in any order, so the properties assume that no two jobs
of a client have the same time (`Ordered`).  The defaults of `ListJobsByUser` for
a limit that is not positive cannot be reached from the handler, and the
check for a missing user cannot fail behind the middleware.

### Accounts

`users` is the table; `phase`, `body`, `subject` are a request's position and
local variables; `wallet` the last pair of tokens each address was sent; `session`
the user for whom the last request to `/jobs` was admitted.  History: `told` (user
ids in answers), `rightful` (logins that must succeed), `clear` (registrations that
must succeed).

| Action | Code (`handler/routes.go`) |
|---|---|
| `Refuse`, `RegisterTooLong` | 110-119, 172-181: required fields; 126-131: bcrypt refuses more than 72 bytes |
| `Register`, `CreateUser`, `CreateUserConflict`, `CreateUserUnknown` | 121-138: the INSERT against the two UNIQUE columns; an INSERT that took effect and is reported as an error |
| `Login`, `LoginMatches`, `LoginRejected` | 183-193: SELECT by address, bcrypt |
| `SendTokens`, `StatementFails`, `Cut` | the tokens are signed and sent; a statement fails; a token cannot be signed or the process ends |
| `Admit`, `Unauthorized` | `middleware/jwt_auth.go`, `ValidateAccessToken` of token.go |

A token is its subject and its end.  A client uses tokens it was given (forged
ones are the JWT library's matter), those of its last answer.  Both kinds of
token have the claims the middleware asks for, so `Admit` takes either.

### StartUp

`version` and `dirty` are the row of `schema_migrations`, `lock` the advisory lock
of golang-migrate, `phase` and `at` a process's position and the version it has
come to.  History: `applied` (the files in the order they were run), `cut` (a
process ended between the two marks of a file).

| Action | Code |
|---|---|
| `Open` | cmd/main.go, cmd/worker/main.go: the environment; db/open.go |
| `WithInstance`, `Up`, `LockTimeout` | db/migrate.go 18-35; the library waits for the lock, in `Up` for 15 s |
| `ReadVersion`, `ReadDirty`, `MarkDirty`, `RunFile`, `MarkClean`, `Finish` | within `m.Up()`; `ErrNoChange` counts as success |
| `Serve`, `SecretMissing` | the rest of the two mains |
| `Die` | any failing statement (fatal) or the end of the process |

golang-migrate is outside the repository: its steps are modelled from its
documented behaviour as db/migrate.go uses it.  A file is one statement to
PostgreSQL and thus one implicit transaction.  A process whose environment has a
gap at once ends again; that is no step.

## 3. Runs

| Run | Instance | Shows |
|---|---|---|
| `OutboxRelay` | 1 job, 3 events, 2 pollers, batches of 2, up to 2 lost replies per event, all faults, fair | `TypeOK`, `OneHolder`, `NoEventForgotten`, `ImplementsDelivery`, `EveryEventSettles` |
| `PipelineEveryFault` | 1 job, limit 2, 2 events, 1 poller, 2 executors, tasks put back up to the second start, all faults, fair | `NoJobVanishes`, `CompletedWasAcknowledged`, `AttemptsNeverOvercount`, `EveryJobSettles` |
| `PipelineNoLoss` | 1 job, limit 2, 2 events, 2 pollers, 2 executors, no lossy fault, fair | `WaitingJobIsCarried`, `WaitingJobStarts` |
| `PipelineNoDuplicates` | 2 jobs, limits 1-2, 4 events, 2 pollers, 2 executors, no duplicating fault | `NoDoubleHandOver`, `OneExecution`, `AttemptsCountStarts`, `StartsBounded`, `AcceptedAnswerIsLast`, `ImplementsLifecycle` |
| `IdempotencyEveryFault` | 3 requests, 2 users, 3 bodies that ask for 2 payloads and an incomplete one, 2 ids, all faults, fair | `TypeOK`, `OneJobPerRequest`, `ToldTheTruth`, `RepeatIsRecognised`, `FoundBySameRequests`, `ImplementsCreation`, `EveryRequestAnswered` |
| `ApiRequests` | 2 handlers, owner and stranger, 1 job, 2 fields, values 0-2, failing statements | `SequentialPutsCompose`, `FieldsWereAsked`, `DeletedStaysGone` |
| `JobListing` | 4 jobs and one of another user, 4 times, page sizes 1 and 2, ints of 4 bits | `TypeOK`, `MissedAtMostDeleted`, `RepeatedAtMostCreated`, `AskedPageIsServed` |
| `Accounts` | 2 requests, 2 addresses, 1 name, 2 passwords and a long one, 3 times, all faults | `OneAccountPerEmail`, `RegisteredCanLogin`, `FreshRegistrationSucceeds`, `ServedWasProved` |
| `StartUp` | 2 API servers (one without its secret), 2 workers (one without Redis), 5 files, 2 deaths, fair | `ServesOnlyFullSchema`, `AppliedInOrder`, `CutStopsEveryone`, `EveryoneServes` |

The type invariants of `JobPipeline`, `JobsApi`, `Accounts` and `StartUp` are
proved (section 4) and not checked again.  That a finished job stays finished is part of
`ImplementsLifecycle`.

Three runs end in a counterexample, because the repository's documents promise
more than the code does:

* `OutboxAtLeastOnce`: a process that ends between the COMMIT and Enqueue loses
  the batch (README.md:127, 136 promise at-least-once).  `AtLeastOnceIfLossless`
  (section 4) says where the promise is kept.
* `PipelineEveryJobFinishes`: the injected failure is not retried and leaves the
  job `running` (scripts/demo.txt:59-60, 158 say it is retried).
  `InjectedFailureStrands` and `StrandedForGood` show the same for every instance.
* `IdempotencyKeysExpire`: a request is led to its job by a key that has expired,
  since nothing reads `expires_at` (README.md:135, 152 say keys expire after 24
  hours).  `RepeatIsRecognised` therefore speaks of keys that have not, as the
  documents do; `OneJobPerRequest` holds of keys of any age just because of this.

Smaller disagreements are visible in the modules without a run:

* scripts/demo.txt:153-155 derives "exactly-once semantics for job creation" from the
  poller: of creation it is true (`OneJobPerRequest`), but an Enqueue whose reply is
  lost leads to a second task (`EnqueueUnknown`, then `Unpublish`);
* the hashed text has its keys in the order of the struct: `createJobHandler` passes
  a struct (routes.go:250), for which `CanonicalJSON` takes its default case, while
  handler/routes.go:215, README.md:135 and scripts/demo.txt:146 speak of sorted keys.
  The order is fixed all the same, and `FoundBySameRequests` says that it is enough;
* a page_size above 100 is served (`PageSize`; handler/routes.go:296 says max 100), so
  `AskedPageIsServed` is about sizes up to the documented maximum only;
* DELETE of a missing job is answered 404 (`NotFound`; scripts/demo.txt:118 says
  200);
* of two identical POSTs at the same time one is answered 500 (`KeyConflict`;
  handler/routes.go:215 promises 200);
* of two overlapping PUTs on different fields one is undone (`Merge` on an old
  copy, handler/routes.go:465; handler/routes.go:401 says omitted fields keep
  their current values) - `SequentialPutsCompose` says when this does not happen;
* for huge pages the offset wraps around (`Offset`, handler/routes.go:318) -
  `AskedPageIsServed` says up to where the answer is right, for the sizes the
  documentation allows.

What the properties leave open, because the code does: a receiver whose 2xx comes
after 15 seconds or breaks off is called again, so it may do its work more than once
(`WebhookFails`, processor.go:130-140).  `AcceptedAnswerIsLast` only says that an answer
the handler did accept is the last, and `StartsBounded` how many calls there may be.

**Bounds.**  `BatchLimit` (10 in the code) is 2 so that a batch can be full,
partial or empty with three rows.  `MaxCopies` caps the lost replies of Enqueue
per event; 1 already gives a duplicate task, 2 a third.  `MaxStarts` caps how
often SIGTERM may put a job's task back.  The events of a run bound only how
many rows can be written; with limits up to 2 a job writes at most two rows (one
at creation and one retry: attempt 1 is counted only once), so no retry is ever
held back for want of a row.  Two executors are enough for two executions of one
job to overlap, and two pollers for two claims.

In `Idempotency` a request is received only while there are ids left for it
(`IdsSuffice`), as UUIDs do not run out: an id returns when its transaction is
rolled back, two ids let two transactions hold a new row at once, or one come
after the other's job was deleted, and three requests give a holder of a key, a
waiter and a third that comes later.  More transactions than that at once are
covered by the proofs only.  Runs with fairness use no symmetry.  In `ApiRequests` one
job suffices, since handlers of different jobs share nothing, and two handlers
make every overlap of a read and a write.

Its bodies are two that ask for the same job, by an omitted, a default and a negative
number, one that differs in the last hashed field, and one that is refused; all
other texts and integers are covered by `FoundBySame`.  In `PipelineEveryFault` the
limit is 2, so that a retry and the last failure both happen; limits that change
under an execution are in `PipelineNoDuplicates`.

In `JobListing` four jobs fill two pages of two, with one to cross a boundary in
either direction, and ints of 4 bits (-8..7) make the offset wrap to a negative
number and to a small one; the maximal page size is 4 (100 in the documentation).  In `Accounts` two requests collide on an address, on
a name, or on one's name with the other's address; three times are before, at
and after the end of either token.  In `StartUp` two deaths are one within a
migration and one elsewhere; five files are the five of the repository.

**Deadlock** is checked everywhere: an idle poller can always poll again, an
idle request handler can always refuse a request, and a process with a gap in its
environment or before a dirty schema is started over and over.

**Fairness.**  A poller goroutine keeps running (`StartOutboxPollers` logs errors
and loops; `restart: unless-stopped` in docker-compose.yml restarts a worker),
hence weak fairness of its steps.  A handler runs to its end (a sleep of at most
5 s, a webhook call of at most 15 s), unless its process ends each time, hence
strong fairness of its steps.  Strong fairness of `CommitBatch`, `EnqueueOK` and
`Dequeue` says that the database commits, Redis accepts, and the server hands out
a waiting task again and again, not every time.  The HTTP server runs each
handler on (strong fairness of `Progress`: an INSERT that waits for a key is
enabled each time the holder is rolled back, and PostgreSQL lets one of the
waiters in, in the order they came).  At start-up, Docker starts
again what ends (`restart: unless-stopped`) and the database answers, hence weak
fairness of `ProcessStep`; those who wait for the advisory lock are queued, hence
strong fairness of `WithInstance` and `Up`; nothing is assumed of `Die`.  Nothing is assumed about
clients or about the receiver.

## 4. Proofs

`OutboxProofs` proves, for any number of jobs, events and pollers, any batch
limit and any set of faults, from `OutboxAssumption` only:

* `TypeCorrect`, `OneHolderAlways`, `NeverForgotten`, `HandedOverOnce`: the
  invariants of the run `OutboxRelay`, and `NoDoubleHandOver` of
  `PipelineNoDuplicates`;
* `Implementation`: the relay implements `EventDelivery`;
* `AtLeastOnceIfLossless`: with no fault of `LossyFaults` a published event is in
  Redis or in a poller's hands, whatever Redis refuses or hides.

The inductive invariant `IInv` adds what the properties do not say themselves.
`BatchMatchesPhase`: a batch is made of unpublished rows while its transaction is
open and of published rows afterwards.  Without it two pollers could meet: a
claim looks only at `published = false` and at the rows locked now, not at what
a poller holds after its COMMIT.  `DroppedIsGone`: what was given up is in no
batch and stays published, so a lost event is never delivered.  `PendingIsFresh`:
with a Redis that hides nothing, what is still to be handed over has not been.
`AbsentIsFresh`: a row not yet written has no history.

`JobPipelineProofs` proves, from that and `PipelineAssumption`:

* `PipelineTypeCorrect`, and that the relay's invariant and the links from
  tasks and executors to written events (`Base`) survive every step;
* `NoJobEverVanishes`: an unsettled job is carried or was dropped by a named
  failure.  A poller step keeps an event in flight or gives it up
  (`PollerKeepsFlight`); the end of an execution settles its job, writes an
  event, puts a task back, or leaves an excuse (`EndKeepsOwnJob`), and is no
  matter for other jobs (`EndKeepsOtherJobs`);
* `CompletedMeansAcknowledged`, `AttemptsWereMade`: with `MemoryIsTrue`, which
  says that the number a handler remembers was counted, and acknowledged when it
  is about to write `completed`;
* `WaitingJobsAreCarried`;
* what `Outbox` proves of the relay alone, for the whole system: by `RelayView` a
  step of the pipeline is a poller's own, writes a row, or moves tasks only.
  Hence `PipelineImplementsDelivery`, `RelayHoldsInPipeline`,
  `PipelineDeliversIfLossless`, and, where SIGTERM puts no task back,
  `PipelineImplementsOutbox`;
* `DeletedStaysDeleted`: an action property, under every fault;
* `StrandedForGood`: a job that nothing carries is never executed again and keeps
  its state until it is deleted.  Its core is that a poller brings no event back on
  its way (`PollerAddsNoFlight`), and that tasks and rows come only from executions
  of their own job, which a stranded job has not (`StrandedStep`).  So what
  `NoJobVanishes` excuses is lost for good: the code has no sweep over `jobs`.

`JobLifecycleProofs` adds what holds while asynq never gets a second task for
one piece of work (`NoDuplicateTasks`), from the same assumptions:
`ExecutionsExclude`, `AttemptsAreCounted`, `StartsAreBounded`, and
`PipelineImplementsLifecycle`, the refinement of `JobLifecycle`.  None of them is
inductive, because nothing in the handler keeps a second execution out; what does
is that a job has a single carrier.  The invariant `CarrierInv` says so in four
parts.  `OneTask`: an event becomes one task, and the task one execution.
`OneCarrier`: of all events of a job at most one is alive, that is, on its way or
in execution.  `StateFits`: a job whose event is on its way or loaded is pending,
queued or deleted; one being executed is running, with the attempts its handler
remembers, or deleted.  `CountersFit`: attempts are the starts, and a job that
waits has an attempt left.  The steps in turn: a poller moves an event on
(`PollerAddsNothing`), Dequeue turns the task into the execution, a retry writes the
next event in the step in which its own execution ends (`EndReleases`,
`EndColumns`), and a new job had no event at all.  `Alone` draws the conclusion that
`Start` and the outcomes need: the job of an execution has nothing else under way,
so what the handler remembers is what the columns say.  TLC finds `CarrierInv` to
hold on the instance of `PipelineNoDuplicates`, too.

On top of it, under the same condition:

* `NothingAfterAcceptedAnswer` states `AcceptedAnswerIsLast`.  It is not inductive either: the
  column a new execution would move must be out of reach of any execution.  `AckInv`
  adds that a job with an accepted answer has no event on its way and no execution but the one
  whose outcome is still to be written (`AckFits`), and that a handler remembers the
  attempts column also when its job has been deleted meanwhile (`MemoryFits`), where
  `StateFits` says nothing.  The outcomes of the code keep it because the one that
  writes a new event comes after a refusal, never after a 2xx, and a failed
  `Complete` archives its task;
* `FinishedIsFinal`: completed and failed give way to deletion only, although the
  first transaction would overwrite them;
* `RunningIsTrue`: a job shown as running is being executed, in the attempt it
  shows, or one of the named failures has struck (`RunningIsExecuted`);
* `InjectedFailureStrands`: after the injected failure nothing carries the job, and
  it shows running (or is deleted).  With `StrandedForGood` it stays so.

`IdempotencyProofs` proves, from `IdempotencyAssumption`: `CreationTypeCorrect`,
`OneJobAlways`, `ToldTheTruthAlways`, `RepeatsRecognised` and
`CreationImplementation` (the refinement of `JobCreation`).  The invariant says that keys and live jobs point at each
other (`IndexIsTrue`), that ids of open transactions are new and that of one key
at most one open transaction has inserted a row, while none is committed
(`OpenRowsAreNew`: what the unique index contributes), and that a job once found
was made for the request that found it (`FoundIsOwn`, also after its deletion).
For `RepeatsRecognised` it is joined by `StaysFound`: as long as a request is
steady, the key it looks for leads to a live job, or it has that job already.
`CreationIsOneStep` is a second refinement, of `JobLifecycle`: with live rows shown
as pending, statements, conflicts and rollbacks are invisible, a COMMIT makes an
absent job pending and DELETE removes it.  `FoundBySame` rests on `TextSeparates`: two
bodies have one text exactly if they ask for the same job, for any texts and any
integers.  `CreatedJobsHaveAttempts`: a created job
has a positive max_retries.

`JobsApiProofs` proves, from `ApiAssumption`: `ApiTypeCorrect`, `PutsCompose`,
`DeletionIsFinal` and `FieldsAsked`.  The invariant is that a handler's copy equals the row unless
the handler is stale (`FreshCopies`); `MergeIsPatched` shows that the merge of
the code is the field-by-field reference.  For `FieldsAsked` the values in copies
and bodies were asked for as well as those in the table (`AskedInv`), since a stale
copy is written back.  `NumbersStayPositive` follows with `AskedIsPositive`.  It and
`CreatedJobsHaveAttempts` are what justifies positive `Limits` in
`PipelineAssumption`: neither POST nor PUT can leave a max_retries of 0, with which
`StartsBounded` would be false.

`JobListingProofs` proves, from `ListingAssumption`, for any number of jobs, any
page sizes, texts and width of ints: `ListingTypeCorrect`, `WalkMissesLittle`,
`WalkRepeatsLittle`, `PagesAreServed`.  `PageRanks` shows that LIMIT and OFFSET cut
the ranks from the offset on out of an ordered list, by comparing cardinalities, and
`PageLength` that a page is full just if the list reaches to its end.  The invariant
`ListingInv` follows the walk by the rank of the next page (`Passed`): the unseen jobs
that have come to lie before it are no more than the deletions (`DeletionsCount`), the
seen ones that have come to lie behind it, with the repeats so far, no more than the
new jobs (`CreationsCount`).  A deletion or a commit moves ranks by one, and ranks
differ (`RanksDiffer`), so one job at most crosses the boundary.  `Ordered` also
speaks of open transactions and may become true again when one is rolled back; the
induction uses `PublicOrdered`, which cannot.  That a walk's offset does not wrap
(`WalkIsSound`) needs a table of fewer than 2^63 rows, which `ListingAssumption` says.

`AccountsProofs` proves, from `AccountsAssumption`, for any number of requests,
addresses, names, passwords and any life times: `AccountsTypeCorrect`,
`OneAccount`, `CanLogin`, `FreshSucceeds`, `AdmittedWasProved`.  The invariant says
that addresses are unique (`UniqueEmails`), that whoever is about to get tokens
gets those of the row with its address (`SubjectsAreTrue`), that tokens and
answers name such rows (`TokensAreTrue`, `ToldIsTrue`; rows never change, so this
lasts), and that a login or registration that must succeed is on its way to: the
row it matches exists, or no row overlaps it (`LoginsSucceed`,
`RegistrationsSucceed`).

`StartUpProofs` proves, from `StartUpAssumption`, for any number of processes,
files and deaths: `TypeCorrect`, `FullSchema`, `InOrder`, `CutIsFinal`.  The
invariant: the lock is with the one process within `Up` (`LockInv`); the holder's
version is the table's, and dirty just between its two marks (`Progress`); a
clean version has as many files behind it, run in order, and a cut leaves the
mark for good (`SchemaInv`).  From it also `LockHeldByOne` (migrations exclude each
other, and no end of a process leaves the lock behind), `NoFalseDirty` (who holds the
lock and reads a dirty version does so after a cut; by `DirtyIsExplained` the flag is
up only between the marks of a live process or after a cut) and `SchemaOnlyGrows`, an
action property.

**Only model-checked:** the liveness properties (`EveryEventSettles`,
`WaitingJobStarts`, `EveryJobSettles`, `EveryRequestAnswered`, `EveryoneServes`), which
are out of the prover's reach, as is everything with fairness or ENABLED.  Every other property of the passing runs is a theorem.

## 5. Plan

In order of importance; all of it is done.

1. `Outbox` with `EventDelivery`; `OutboxProofs`.
2. `JobPipeline` with `JobLifecycle`.
3. `JobPipelineProofs`: types, nothing vanishes, columns are true.
4. `JobPayload`, `Idempotency` with `JobCreation`; `IdempotencyProofs`.
5. `JobsApi`; `JobsApiProofs`.
6. `JobLifecycleProofs`: the carrier invariant; `OneExecution`,
   `AttemptsCountStarts`, `StartsBounded` and the refinement of `JobLifecycle`.
7. `JobListing`: offset pages while jobs are created and deleted, and the
   arithmetic of page and page_size; `JobListingProofs`.
8. `Accounts`, `AccountsProofs`; `StartUp`, `StartUpProofs`.

**Not modelled:** the cases of `CanonicalJSON` no request reaches, request logging, the health check, the webhook stub, nginx,
deployment files, generated swagger, and the sqlc queries no Go file uses; they
keep no state of their own.  Password hashing, token signing, the JSON library and
golang-migrate are libraries, modelled by what the code uses of them.
