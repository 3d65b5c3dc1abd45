----------------------------- MODULE Idempotency -----------------------------
(***************************************************************************)
(* POST /jobs: createJobHandler (handler/routes.go) and the transaction of *)
(* CreateJobWithIdempotency (db/store.go), statement by statement, for     *)
(* requests that run at the same time, with DELETE requests in between.    *)
(*                                                                         *)
(* A request is looked up by its user and the hash of its payload.  The    *)
(* lookup sees committed rows only (READ COMMITTED), so two transactions   *)
(* may both miss; the unique index of idempotency_keys then makes the      *)
(* second INSERT wait for the first transaction to end, and fail if that   *)
(* committed.  Rows not yet committed are in no table: they are the local  *)
(* variables of their request.                                             *)
(***************************************************************************)
EXTENDS JobPayload, FiniteSets

CONSTANTS
  Requests,    \* goroutines serving POST /jobs
  Users,
  Texts,       \* values of type, name and webhook_url
  NoText,      \* the empty text, also if omitted
  Bodies,      \* the bodies that clients send, with 0 for an omitted number
  Jobs,        \* ids that gen_random_uuid returns
  NoJob,
  NoKey,
  Faults       \* the failures the environment may inject

\*   dbError        a statement or a COMMIT fails, or the client goes away
\*   commitUnknown  a COMMIT takes effect but nobody learns that it did
ASSUME IdempotencyAssumption ==
  /\ NoJob \notin Jobs
  /\ Bodies \subseteq
       [type : Texts \cup {NoText}, name : Texts \cup {NoText},
        webhook_url : Texts \cup {NoText},
        version : Int, max_retries : Int, timeout_seconds : Int]
  /\ Faults \subseteq {"dbError", "commitUnknown"}

\* user_id and request_hash: SHA-256 is taken to have no collisions, so that
\* the text stands for its hash.  The column payload holds the same value.
KeyOf(u, b) == <<u, CanonicalJSON(NewJobPayload(b))>>

IsComplete(b) == NoText \notin {b.type, b.name, b.webhook_url}

Keys == {KeyOf(u, b) : u \in Users, b \in {c \in Bodies : IsComplete(c)}}

VARIABLES
  table,    \* [Jobs -> TableState]: committed rows of jobs
  made,     \* [Jobs -> Keys \cup {NoKey}]: the user and payload of a row
  index,    \* [Keys -> Jobs \cup {NoJob}]: committed rows of idempotency_keys
  expired,  \* SUBSET Jobs: those whose row there is past its expires_at
  phase,    \* [Requests -> RequestPhase]
  key,      \* [Requests -> Keys \cup {NoKey}]: what it looks up
  job,      \* [Requests -> Jobs \cup {NoJob}]: the job it found or inserts
  reply,    \* [Requests -> Replies]: the last status; 500 is also no answer
  told,     \* history, SUBSET (Keys \X Jobs): jobs that clients were told
  steady    \* history, SUBSET Requests: its job was there all the time, with
            \* a key not yet expired, and no statement of it failed

tables == <<table, made, index, expired>>
locals == <<phase, key, job>>
vars   == <<tables, locals, reply, told, steady>>

TableState   == {"absent", "live", "deleted"}
RequestPhase == {"idle", "begun", "found", "inserting", "keyed"}
Replies      == {"none", "200", "202", "400", "500"}

TypeOK ==
  /\ table \in [Jobs -> TableState]
  /\ made \in [Jobs -> Keys \cup {NoKey}]
  /\ index \in [Keys -> Jobs \cup {NoJob}]
  /\ expired \in SUBSET Jobs
  /\ phase \in [Requests -> RequestPhase]
  /\ key \in [Requests -> Keys \cup {NoKey}]
  /\ job \in [Requests -> Jobs \cup {NoJob}]
  /\ reply \in [Requests -> Replies]
  /\ told \in SUBSET (Keys \X Jobs)
  /\ steady \in SUBSET Requests
  /\ \A r \in Requests :
       /\ phase[r] # "idle" => key[r] \in Keys
       /\ phase[r] \in {"found", "inserting", "keyed"} => job[r] \in Jobs

Init ==
  /\ table = [j \in Jobs |-> "absent"]
  /\ made = [j \in Jobs |-> NoKey]
  /\ index = [k \in Keys |-> NoJob]
  /\ expired = {}
  /\ phase = [r \in Requests |-> "idle"]
  /\ key = [r \in Requests |-> NoKey]
  /\ job = [r \in Requests |-> NoJob]
  /\ reply = [r \in Requests |-> "none"]
  /\ told = {}
  /\ steady = {}

-----------------------------------------------------------------------------
(* createJobHandler *)

Reply(r, status) ==
  /\ reply' = [reply EXCEPT ![r] = status]
  /\ phase' = [phase EXCEPT ![r] = "idle"]
  /\ key' = [key EXCEPT ![r] = NoKey]
  /\ job' = [job EXCEPT ![r] = NoJob]

\* type, name, and webhook_url are required.
Refuse(r, b) ==
  /\ phase[r] = "idle"
  /\ ~ IsComplete(b)
  /\ Reply(r, "400")
  /\ steady' = steady \ {r}
  /\ UNCHANGED <<tables, told>>

\* Bound: Jobs holds an id for every request that may insert a job.
IdsSuffice ==
  Cardinality({r \in Requests : phase[r] \in {"begun", "inserting", "keyed"}})
    < Cardinality({j \in Jobs : table[j] = "absent"})

\* The payload is completed and hashed, and the transaction begins.
Receive(r, u, b) ==
  LET k == KeyOf(u, b) IN
  /\ phase[r] = "idle"
  /\ IsComplete(b)
  /\ IdsSuffice
  /\ phase' = [phase EXCEPT ![r] = "begun"]
  /\ key' = [key EXCEPT ![r] = k]
  /\ reply' = [reply EXCEPT ![r] = "none"]
  /\ steady' = IF index[k] # NoJob /\ index[k] \notin expired
               THEN steady \cup {r} ELSE steady \ {r}
  /\ UNCHANGED <<tables, job, told>>

-----------------------------------------------------------------------------
(* CreateJobWithIdempotency *)

\* Variant: sql.ErrNoRows is not told from a row.
FindNothing(r) ==
  /\ phase[r] = "begun"
  /\ job' = [job EXCEPT ![r] = index[key[r]]]
  /\ phase' = [phase EXCEPT ![r] = "found"]
  /\ UNCHANGED <<tables, key, reply, told, steady>>

\* Variant: the lookup does not ask for the user.
FindOfAnyone(r) ==
  /\ phase[r] = "begun"
  /\ \E k \in Keys :
       /\ k[2] = key[r][2]
       /\ index[k] # NoJob
       /\ job' = [job EXCEPT ![r] = index[k]]
  /\ phase' = [phase EXCEPT ![r] = "found"]
  /\ UNCHANGED <<tables, key, reply, told, steady>>

\* SELECT job_id FROM idempotency_keys.  expires_at is not looked at: a row
\* counts until its job is deleted.
Find(r) ==
  /\ phase[r] = "begun"
  /\ index[key[r]] # NoJob
  /\ job' = [job EXCEPT ![r] = index[key[r]]]
  /\ phase' = [phase EXCEPT ![r] = "found"]
  /\ UNCHANGED <<tables, key, reply, told, steady>>

\* Variant: the job that was found is not read.
AnswerUnread(r) ==
  /\ phase[r] = "found"
  /\ Reply(r, "200")
  /\ told' = told \cup {<<key[r], job[r]>>}
  /\ UNCHANGED <<tables, steady>>

\* GetJobByIDTx returns the job, and the transaction is committed.
AnswerExisting(r) ==
  /\ phase[r] = "found"
  /\ table[job[r]] = "live"
  /\ Reply(r, "200")
  /\ told' = told \cup {<<key[r], job[r]>>}
  /\ UNCHANGED <<tables, steady>>

\* The job was deleted after its key had been read: sql.ErrNoRows.
AnswerVanished(r) ==
  /\ phase[r] = "found"
  /\ table[job[r]] = "deleted"
  /\ Reply(r, "500")
  /\ UNCHANGED <<tables, told, steady>>

\* Variant: a job is inserted without looking for one.
InsertUnasked(r) ==
  /\ phase[r] = "begun"
  /\ \E j \in Jobs :
       /\ table[j] = "absent" /\ \A s \in Requests : job[s] # j
       /\ job' = [job EXCEPT ![r] = j]
  /\ phase' = [phase EXCEPT ![r] = "inserting"]
  /\ UNCHANGED <<tables, key, reply, told, steady>>

\* There is no such key: INSERT INTO jobs.
InsertJob(r) ==
  /\ phase[r] = "begun"
  /\ index[key[r]] = NoJob
  /\ \E j \in Jobs :
       /\ table[j] = "absent" /\ \A s \in Requests : job[s] # j
       /\ job' = [job EXCEPT ![r] = j]
  /\ phase' = [phase EXCEPT ![r] = "inserting"]
  /\ UNCHANGED <<tables, key, reply, told, steady>>

\* Another open transaction has inserted the same key.
KeyLocked(r) ==
  \E s \in Requests \ {r} : phase[s] = "keyed" /\ key[s] = key[r]

\* Variant: idempotency_keys without its unique index.
InsertKeyAnyway(r) ==
  /\ phase[r] = "inserting"
  /\ phase' = [phase EXCEPT ![r] = "keyed"]
  /\ UNCHANGED <<tables, key, job, reply, told, steady>>

\* INSERT INTO idempotency_keys succeeds.
InsertKey(r) ==
  /\ phase[r] = "inserting"
  /\ ~ KeyLocked(r)
  /\ index[key[r]] = NoJob
  /\ phase' = [phase EXCEPT ![r] = "keyed"]
  /\ UNCHANGED <<tables, key, job, reply, told, steady>>

\* Variant: the INSERT waits for a committed row to disappear.
ConflictWaits(r) ==
  /\ phase[r] = "inserting"
  /\ index[key[r]] # NoJob
  /\ UNCHANGED vars

\* It violates the unique constraint; the transaction is rolled back.
KeyConflict(r) ==
  /\ phase[r] = "inserting"
  /\ index[key[r]] # NoJob
  /\ Reply(r, "500")
  /\ UNCHANGED <<tables, told, steady>>

\* INSERT INTO outbox, SELECT of the job, COMMIT.
CommitRows(r) ==
  /\ phase[r] = "keyed"
  /\ table' = [table EXCEPT ![job[r]] = "live"]
  /\ made' = [made EXCEPT ![job[r]] = key[r]]
  /\ index' = [index EXCEPT ![key[r]] = job[r]]
  /\ UNCHANGED expired

AnswerAccepted(r) ==
  /\ CommitRows(r)
  /\ Reply(r, "202")
  /\ UNCHANGED steady
  /\ told' = told \cup {<<key[r], job[r]>>}

CommitUnknown(r) ==
  /\ "commitUnknown" \in Faults
  /\ CommitRows(r)
  /\ Reply(r, "500")
  /\ steady' = steady \ {r}
  /\ UNCHANGED told

\* Any statement fails, or the COMMIT: everything is rolled back.
Abort(r) ==
  /\ "dbError" \in Faults
  /\ phase[r] # "idle"
  /\ Reply(r, "500")
  /\ steady' = steady \ {r}
  /\ UNCHANGED <<tables, told>>

-----------------------------------------------------------------------------
(* The world around *)

\* Requests for other jobs than j stay steady.
Unsteadied(j) == {r \in steady : phase[r] = "idle" \/ key[r] # made[j]}

\* DELETE FROM jobs, which deletes the job's key as well.
DeleteJob(j) ==
  /\ table[j] = "live"
  /\ table' = [table EXCEPT ![j] = "deleted"]
  /\ index' = [k \in Keys |-> IF index[k] = j THEN NoJob ELSE index[k]]
  /\ expired' = expired \ {j}
  /\ steady' = Unsteadied(j)
  /\ UNCHANGED <<made, locals, reply, told>>

\* 24 hours after the key of a job was inserted.
KeyExpires(j) ==
  /\ table[j] = "live" /\ j \notin expired
  /\ expired' = expired \cup {j}
  /\ steady' = Unsteadied(j)
  /\ UNCHANGED <<table, made, index, locals, reply, told>>

\* The next statement of the transaction is carried out.
Progress(r) ==
  \/ Find(r) \/ AnswerExisting(r) \/ AnswerVanished(r)
  \/ InsertJob(r) \/ InsertKey(r) \/ KeyConflict(r)
  \/ AnswerAccepted(r)

RequestStep(r) == Progress(r) \/ CommitUnknown(r) \/ Abort(r)

Next ==
  \/ \E r \in Requests, b \in Bodies :
       Refuse(r, b) \/ \E u \in Users : Receive(r, u, b)
  \/ \E r \in Requests : RequestStep(r)
  \/ \E j \in Jobs : DeleteJob(j) \/ KeyExpires(j)

Spec == Init /\ [][Next]_vars

\* The HTTP server lets every handler run on and the database answers.  An
\* INSERT that waits for a key while its holders come and go, each rolled
\* back, gets its turn.
Fairness == \A r \in Requests : SF_vars(Progress(r))

FairSpec == Spec /\ Fairness

-----------------------------------------------------------------------------
(* Properties *)

\* "Job creation is idempotent": whatever requests run at the same time and
\* whichever of them fail, a user never has two jobs of one payload
\* (CreateJobWithIdempotency looks before it inserts, without a lock).  This
\* holds of keys of any age because the code implements no expiry: if a key
\* lapsed after 24 hours, as README:135 says, a later request would make a
\* second job.
OneJobPerRequest ==
  \A i, j \in Jobs :
    /\ i # j
    /\ table[i] = "live" /\ table[j] = "live"
    => made[i] # made[j]

\* A client is only ever told a job of its own with the payload it sent, and
\* never one whose transaction was rolled back.
ToldTheTruth ==
  \A k \in Keys, j \in Jobs :
    <<k, j>> \in told => table[j] # "absent" /\ made[j] = k

Creation == INSTANCE JobCreation WITH
              live <- [k \in Keys |->
                        {j \in Jobs : table[j] = "live" /\ made[j] = k}],
              used <- {j \in Jobs : table[j] # "absent"}

\* The tables and transactions implement job creation: one job at a time for
\* a request, and the answers name that job at the moment they are decided.
ImplementsCreation == Creation!CreationSpec

\* README: "identical payloads return the same job_id with HTTP 200": a
\* request that begins when its job is there with a key of less than 24 hours,
\* both of which stay, is answered 200 unless a statement of its own fails; no
\* transaction of another request gets in its way.
RepeatIsRecognised ==
  \A r \in steady : phase[r] = "idle" => reply[r] = "200"

\* README:135: "Idempotency keys expire after 24 hours", and :152: "Keys expire
\* at DB level after 24h": no request is led to a job by a key that has
\* expired.  CreateJobWithIdempotency writes expires_at, but neither its SELECT
\* nor the schema compares it with the time, so this is false of the code.
ExpiredKeysAreForgotten ==
  [][\A r \in Requests :
       phase[r] = "begun" /\ phase'[r] = "found" => job'[r] \notin expired]_vars

\* A job is found by the requests of its user that ask for the same job, an
\* option that is missing or not positive and its default being the same, and
\* by no others (createJobHandler hashes what NewJobPayload returns, and
\* CanonicalJSON leaves out none of its fields).
FoundBySameRequests ==
  \A j \in Jobs : table[j] = "live" =>
    \E b \in Bodies : \A u \in Users, c \in Bodies :
      IsComplete(c) =>
        (index[KeyOf(u, c)] = j <=> u = made[j][1] /\ SameJob(b, c))

\* Every request is answered: none waits for ever for another one's key.
EveryRequestAnswered ==
  \A r \in Requests : phase[r] # "idle" ~> phase[r] = "idle"
=============================================================================
