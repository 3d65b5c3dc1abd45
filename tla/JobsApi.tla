------------------------------- MODULE JobsApi -------------------------------
(***************************************************************************)
(* GET, PUT and DELETE /jobs/{jobID} (handler/routes.go): every handler    *)
(* reads the job in one statement, compares its owner with the caller, and *)
(* then writes in a second statement; no transaction joins the two.  PUT   *)
(* merges the fields of the request into what it read and writes all the   *)
(* columns back.                                                           *)
(***************************************************************************)
EXTENDS Integers

CONSTANTS
  Handlers,      \* goroutines serving requests
  Users,
  Jobs,
  Owner,         \* [Jobs -> Users]: the user_id column, which never changes
  TextFields,    \* name, webhook_url
  NumberFields,  \* version, max_retries, timeout_seconds
  Values,        \* what requests put into fields; 0 is also the empty text
  Created,       \* the columns of a job as POST /jobs has written them
  NoJob,
  Faults         \* subset of {"dbError"}: statements may fail

Fields == TextFields \cup NumberFields

ASSUME ApiAssumption ==
  /\ NoJob \notin Jobs
  /\ Owner \in [Jobs -> Users]
  /\ TextFields \cap NumberFields = {}
  /\ Values \subseteq Int
  /\ Created \in [Fields -> Int]
  /\ \A f \in NumberFields : Created[f] > 0
  /\ Faults \subseteq {"dbError"}

\* The non-nil fields of an updateJobRequest.
Bodies == UNION {[S -> Values] : S \in SUBSET Fields}
Rows   == [Fields -> Int]
Empty  == [f \in {} |-> 0]

VARIABLES
  exists,   \* SUBSET Jobs: rows of jobs
  row,      \* [Jobs -> Rows]
  phase,    \* [Handlers -> HandlerPhase]: what it will do with what it read
  target,   \* [Handlers -> Jobs \cup {NoJob}]
  body,     \* [Handlers -> Bodies]: the PUT request
  copy,     \* [Handlers -> Rows]: the job as it was read
  reply,    \* [Handlers -> Replies]: its last answer
  asked,    \* history, [Jobs -> SUBSET (Fields \X Values)]: by the owner
  merged,   \* history, [Jobs -> Rows]: all PUTs applied one after another
  stale,    \* history, SUBSET Handlers: its job was written since it read
  clashed,  \* history, SUBSET Jobs: written by a stale handler
  gone      \* history, SUBSET Jobs: a DELETE was answered 200

handlerVars == <<phase, target, body, copy, reply>>
historyVars == <<asked, merged, stale, clashed, gone>>
vars        == <<exists, row, handlerVars, historyVars>>

HandlerPhase == {"idle", "put", "delete"}
Replies      == {"none", "200", "400", "403", "404", "500"}

TypeOK ==
  /\ exists \in SUBSET Jobs
  /\ row \in [Jobs -> Rows]
  /\ phase \in [Handlers -> HandlerPhase]
  /\ target \in [Handlers -> Jobs \cup {NoJob}]
  /\ body \in [Handlers -> Bodies]
  /\ copy \in [Handlers -> Rows]
  /\ reply \in [Handlers -> Replies]
  /\ asked \in [Jobs -> SUBSET (Fields \X Values)]
  /\ merged \in [Jobs -> Rows]
  /\ stale \in SUBSET Handlers
  /\ clashed \in SUBSET Jobs
  /\ gone \in SUBSET Jobs
  /\ \A h \in Handlers : phase[h] # "idle" => target[h] \in Jobs

Init ==
  /\ exists = Jobs
  /\ row = [j \in Jobs |-> Created]
  /\ phase = [h \in Handlers |-> "idle"]
  /\ target = [h \in Handlers |-> NoJob]
  /\ body = [h \in Handlers |-> Empty]
  /\ copy = [h \in Handlers |-> Created]
  /\ reply = [h \in Handlers |-> "none"]
  /\ asked = [j \in Jobs |-> {}]
  /\ merged = [j \in Jobs |-> Created]
  /\ stale = {}
  /\ clashed = {}
  /\ gone = {}

-----------------------------------------------------------------------------
(* The first half of a handler: read and check *)

Answer(h, status) ==
  /\ reply' = [reply EXCEPT ![h] = status]
  /\ phase' = [phase EXCEPT ![h] = "idle"]
  /\ target' = [target EXCEPT ![h] = NoJob]
  /\ body' = [body EXCEPT ![h] = Empty]
  /\ copy' = [copy EXCEPT ![h] = Created]

\* The handler ends, and no UPDATE of its own makes other handlers stale.
Reply(h, status) == Answer(h, status) /\ stale' = stale \ {h}

\* Variant: the owner is not compared with the caller.
AnyCaller(u, j) == TRUE

\* job.UserID == userID.  The UPDATE of a PUT asks for the job's own user_id, so
\* that this comparison is all there is; the DELETE asks for the caller's, who
\* by then is the owner.
MayTouch(u, j) == Owner[j] = u

\* GetJobByID fails, or there is no row: both are "job not found".
NotFound(h, j) ==
  /\ phase[h] = "idle"
  /\ j \notin exists \/ "dbError" \in Faults
  /\ Reply(h, "404")
  /\ UNCHANGED <<exists, row, asked, merged, clashed, gone>>

Forbidden(h, u, j) ==
  /\ phase[h] = "idle"
  /\ j \in exists /\ ~ MayTouch(u, j)
  /\ Reply(h, "403")
  /\ UNCHANGED <<exists, row, asked, merged, clashed, gone>>

\* A GET ends here.
Get(h, u, j) ==
  /\ phase[h] = "idle"
  /\ j \in exists /\ MayTouch(u, j)
  /\ Reply(h, "200")
  /\ UNCHANGED <<exists, row, asked, merged, clashed, gone>>

\* No field is named.
PutNothing(h) ==
  /\ phase[h] = "idle"
  /\ Reply(h, "400")
  /\ UNCHANGED <<exists, row, asked, merged, clashed, gone>>

Read(h, u, j, p) ==
  /\ phase[h] = "idle"
  /\ j \in exists /\ MayTouch(u, j)
  /\ phase' = [phase EXCEPT ![h] = p]
  /\ target' = [target EXCEPT ![h] = j]
  /\ copy' = [copy EXCEPT ![h] = row[j]]
  /\ reply' = [reply EXCEPT ![h] = "none"]

\* What a request asks for: numbers that are not positive are passed over.
Takes(b, f) == f \in DOMAIN b /\ (f \in NumberFields => b[f] > 0)

PutRead(h, u, j, b) ==
  /\ DOMAIN b # {}
  /\ Read(h, u, j, "put")
  /\ body' = [body EXCEPT ![h] = b]
  /\ asked' = [asked EXCEPT ![j] =
                 IF u = Owner[j]
                 THEN @ \cup {<<f, b[f]>> : f \in {g \in Fields : Takes(b, g)}}
                 ELSE @]
  /\ UNCHANGED <<exists, row, merged, stale, clashed, gone>>

DeleteRead(h, u, j) ==
  /\ Read(h, u, j, "delete")
  /\ UNCHANGED <<exists, row, body, asked, merged, stale, clashed, gone>>

-----------------------------------------------------------------------------
(* The second half: write *)

\* Variant: a field that is not named gets its default again.
MergeDefaults(r, b) ==
  [f \in Fields |-> IF Takes(b, f) THEN b[f]
                    ELSE IF f \in NumberFields THEN Created[f] ELSE r[f]]

\* The fields of the request over those of the job that was read.
Merge(r, b) ==
  [f \in Fields |->
     CASE f \in DOMAIN b /\ f \in TextFields   -> b[f]
       [] f \in DOMAIN b /\ f \in NumberFields -> IF b[f] > 0 THEN b[f] ELSE r[f]
       [] OTHER                                -> r[f]]

\* History: a write of job j by h makes what others have read of j old.
Written(h, j) ==
  /\ stale' = (stale \cup {g \in Handlers : phase[g] # "idle" /\ target[g] = j})
                \ {h}
  /\ clashed' = IF h \in stale THEN clashed \cup {j} ELSE clashed

\* The reference for Merge: the row with every field the request asks for.
Patched(r, b) == [f \in Fields |-> IF Takes(b, f) THEN b[f] ELSE r[f]]

\* Variant: the row is written back whether it is there or not.
UpdateOrInsert(h) ==
  LET j == target[h] IN
  /\ exists' = exists \cup {j}
  /\ row' = [row EXCEPT ![j] = Merge(copy[h], body[h])]
  /\ merged' = [merged EXCEPT ![j] = Patched(@, body[h])]
  /\ Written(h, j)

\* UPDATE jobs SET ... WHERE id AND user_id: no row if the job is gone.
UpdateJobDetails(h) ==
  LET j == target[h] IN
  /\ IF j \in exists
     THEN /\ row' = [row EXCEPT ![j] = Merge(copy[h], body[h])]
          /\ merged' = [merged EXCEPT ![j] = Patched(@, body[h])]
          /\ Written(h, j)
     ELSE /\ stale' = stale \ {h}
          /\ UNCHANGED <<row, merged, clashed>>
  /\ UNCHANGED exists

\* The answer is 200 also if no row was updated.  If the statement took
\* effect but reports an error, it is 500.
PutWrite(h) ==
  /\ phase[h] = "put"
  /\ UpdateJobDetails(h)
  /\ \/ Answer(h, "200")
     \/ "dbError" \in Faults /\ Answer(h, "500")
  /\ UNCHANGED <<asked, gone>>

\* DELETE FROM jobs WHERE id AND user_id.
DeleteWrite(h) ==
  /\ phase[h] = "delete"
  /\ exists' = exists \ {target[h]}
  /\ \/ Reply(h, "200") /\ gone' = gone \cup {target[h]}
     \/ "dbError" \in Faults /\ Reply(h, "500") /\ UNCHANGED gone
  /\ UNCHANGED <<row, asked, merged, clashed>>

\* The statement fails, for instance because a number does not fit the column.
WriteFails(h) ==
  /\ "dbError" \in Faults
  /\ phase[h] # "idle"
  /\ Reply(h, "500")
  /\ UNCHANGED <<exists, row, asked, merged, clashed, gone>>

Next ==
  \E h \in Handlers :
    \/ PutNothing(h)
    \/ PutWrite(h) \/ DeleteWrite(h) \/ WriteFails(h)
    \/ \E j \in Jobs :
         \/ NotFound(h, j)
         \/ \E u \in Users :
              \/ Forbidden(h, u, j) \/ Get(h, u, j) \/ DeleteRead(h, u, j)
              \/ \E b \in Bodies : PutRead(h, u, j, b)

Spec == Init /\ [][Next]_vars

-----------------------------------------------------------------------------
(* Properties *)

\* demo.txt: "Only provided fields are changed": PUTs of one job that do not
\* overlap, whatever else overlaps them, add up to the requests applied one
\* after another (updateJobHandler writes every column back).
SequentialPutsCompose ==
  \A j \in exists \ clashed : row[j] = merged[j]

\* Even if PUTs overlap, a field only ever holds what POST wrote or what the
\* owner of the job asked for, and a number stays positive (which the retry
\* decision of the worker relies on).
FieldsWereAsked ==
  \A j \in exists, f \in Fields :
    row[j][f] = Created[f] \/ <<f, row[j][f]>> \in asked[j]

\* A job whose deletion was answered 200 is gone for good: no PUT that read
\* it before writes it back.
DeletedStaysGone == gone \cap exists = {}
=============================================================================
