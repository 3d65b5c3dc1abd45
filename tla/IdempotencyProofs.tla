-------------------------- MODULE IdempotencyProofs --------------------------
(***************************************************************************)
(* Proofs about job creation, for any number of requests, users, payloads  *)
(* and job ids, and any set of faults.                                     *)
(***************************************************************************)
EXTENDS Idempotency, TLAPS

\* idempotency_keys and jobs agree: a key leads to the live job made for it,
\* and every live job has its key (one transaction writes both, the foreign
\* key deletes both).
IndexIsTrue ==
  /\ \A k \in Keys : index[k] # NoJob =>
       table[index[k]] = "live" /\ made[index[k]] = k
  /\ \A j \in Jobs : table[j] = "live" =>
       made[j] \in Keys /\ index[made[j]] = j

\* The rows of open transactions: their ids are new and differ, and of one
\* key at most one row is inserted, while none is committed.
OpenRowsAreNew ==
  \A r \in Requests :
    /\ phase[r] \in {"inserting", "keyed"} =>
         /\ table[job[r]] = "absent"
         /\ \A s \in Requests \ {r} : job[s] # job[r]
    /\ phase[r] = "keyed" => index[key[r]] = NoJob /\ ~ KeyLocked(r)

\* A request that found a job found it for its key.
FoundIsOwn ==
  \A r \in Requests :
    phase[r] = "found" => table[job[r]] # "absent" /\ made[job[r]] = key[r]

IInv ==
  /\ TypeOK
  /\ IndexIsTrue
  /\ OpenRowsAreNew
  /\ FoundIsOwn
  /\ ToldTheTruth

-----------------------------------------------------------------------------
(* Type correctness *)

\* What a request looks up is a user with the payload of a body.
LEMMA KeyOfType ==
  \A u \in Users, b \in Bodies : IsComplete(b) => KeyOf(u, b) \in Keys
  BY DEF Keys

\* Every step keeps the variables in their types.
LEMMA TypeStep ==
  ASSUME TypeOK, [Next]_vars
  PROVE  TypeOK'
<1> USE DEF TypeOK, TableState, RequestPhase, Replies
<1>1. CASE UNCHANGED vars
  BY <1>1 DEF vars, tables, locals
<1>2. ASSUME NEW r \in Requests, NEW b \in Bodies, Refuse(r, b)
      PROVE  TypeOK'
  BY <1>2 DEF Refuse, Reply, tables
<1>3. ASSUME NEW r \in Requests, NEW b \in Bodies, NEW u \in Users,
             Receive(r, u, b)
      PROVE  TypeOK'
  BY <1>3, KeyOfType DEF Receive, tables
<1>4. ASSUME NEW r \in Requests, RequestStep(r)
      PROVE  TypeOK'
  <2>1. CASE Find(r)
    BY <2>1 DEF Find, tables
  <2>2. CASE AnswerExisting(r)
    BY <2>2 DEF AnswerExisting, Reply, tables
  <2>3. CASE AnswerVanished(r) \/ KeyConflict(r) \/ Abort(r)
    BY <2>3 DEF AnswerVanished, KeyConflict, Abort, Reply, tables
  <2>4. CASE InsertJob(r)
    BY <2>4 DEF InsertJob, tables
  <2>5. CASE InsertKey(r)
    BY <2>5 DEF InsertKey, tables
  <2>6. CASE AnswerAccepted(r)
    BY <2>6 DEF AnswerAccepted, CommitRows, Reply
  <2>7. CASE CommitUnknown(r)
    BY <2>7 DEF CommitUnknown, CommitRows, Reply
  <2> QED
    BY <1>4, <2>1, <2>2, <2>3, <2>4, <2>5, <2>6, <2>7 DEF RequestStep, Progress
<1>5. ASSUME NEW j \in Jobs, DeleteJob(j)
      PROVE  TypeOK'
  BY <1>5 DEF DeleteJob, Unsteadied, locals
<1>6. ASSUME NEW j \in Jobs, KeyExpires(j)
      PROVE  TypeOK'
  BY <1>6 DEF KeyExpires, Unsteadied, locals
<1> QED
  BY <1>1, <1>2, <1>3, <1>4, <1>5, <1>6 DEF Next

\* Every variable of job creation has its type.
THEOREM CreationTypeCorrect == Spec => []TypeOK
<1>1. Init => TypeOK
  BY DEF Init, TypeOK, TableState, RequestPhase, Replies
<1> QED
  BY <1>1, TypeStep, PTL DEF Spec

-----------------------------------------------------------------------------
(* The inductive invariant *)

\* The empty tables satisfy the invariant.
LEMMA InitInvariant == Init => IInv
  BY DEF Init, IInv, TypeOK, TableState, RequestPhase, Replies, IndexIsTrue,
     OpenRowsAreNew, FoundIsOwn, ToldTheTruth

\* A step that leaves the tables and what clients were told alone, and in
\* which a request ends, is received or is refused, keeps the invariant.
LEMMA TurnKeepsInvariant ==
  ASSUME IInv, TypeOK', NEW r \in Requests,
         UNCHANGED <<tables, told>>,
         \A s \in Requests \ {r} :
           phase'[s] = phase[s] /\ key'[s] = key[s] /\ job'[s] = job[s],
         phase'[r] \in {"idle", "begun"},
         job'[r] \in {job[r], NoJob}
  PROVE  IInv'
<1> USE IdempotencyAssumption DEF tables
<1>1. IndexIsTrue'
  BY DEF IInv, IndexIsTrue
<1>2. OpenRowsAreNew'
  <2> SUFFICES ASSUME NEW s \in Requests
               PROVE  /\ phase'[s] \in {"inserting", "keyed"} =>
                           /\ table[job'[s]] = "absent"
                           /\ \A t \in Requests \ {s} : job'[t] # job'[s]
                      /\ phase'[s] = "keyed" =>
                           index[key'[s]] = NoJob /\ ~ KeyLocked(s)'
    BY DEF OpenRowsAreNew
  <2>1. CASE s = r
    BY <2>1
  <2>2. CASE s # r
    BY <2>2 DEF IInv, OpenRowsAreNew, KeyLocked, TypeOK
  <2> QED
    BY <2>1, <2>2
<1>3. FoundIsOwn'
  BY DEF IInv, FoundIsOwn
<1>4. ToldTheTruth'
  BY DEF IInv, ToldTheTruth
<1> QED
  BY <1>1, <1>2, <1>3, <1>4 DEF IInv

\* COMMIT makes the rows of a transaction visible.
LEMMA CommitKeepsInvariant ==
  ASSUME IInv, TypeOK', NEW r \in Requests, CommitRows(r),
         Reply(r, "202") \/ Reply(r, "500"),
         told' \in {told, told \cup {<<key[r], job[r]>>}}
  PROVE  IInv'
<1> DEFINE k == key[r]
           j == job[r]
<1>1. /\ k \in Keys /\ j \in Jobs /\ j # NoJob
      /\ table[j] = "absent" /\ index[k] = NoJob
      /\ phase[r] = "keyed" /\ ~ KeyLocked(r)
      /\ \A s \in Requests \ {r} : job[s] # j
  BY IdempotencyAssumption DEF IInv, TypeOK, CommitRows, OpenRowsAreNew
<1>2. /\ table' = [table EXCEPT ![j] = "live"]
      /\ made' = [made EXCEPT ![j] = k]
      /\ index' = [index EXCEPT ![k] = j]
  BY DEF CommitRows
<1>3. /\ phase'[r] = "idle" /\ key'[r] = NoKey /\ job'[r] = NoJob
      /\ \A s \in Requests \ {r} :
           phase'[s] = phase[s] /\ key'[s] = key[s] /\ job'[s] = job[s]
  BY DEF Reply, IInv, TypeOK
<1> USE DEF IInv, TypeOK
<1> HIDE DEF k, j
<1>4. IndexIsTrue'
  <2>1. ASSUME NEW l \in Keys, index'[l] # NoJob
        PROVE  table'[index'[l]] = "live" /\ made'[index'[l]] = l
    BY <2>1, <1>1, <1>2 DEF IndexIsTrue
  <2>2. ASSUME NEW i \in Jobs, table'[i] = "live"
        PROVE  made'[i] \in Keys /\ index'[made'[i]] = i
    <3>1. CASE i = j
      BY <3>1, <1>1, <1>2
    <3>2. CASE i # j
      <4>1. /\ table[i] = "live" /\ made'[i] = made[i]
            /\ made[i] \in Keys /\ index[made[i]] = i
        BY <2>2, <3>2, <1>1, <1>2 DEF IndexIsTrue
      <4>2. made[i] # k
        BY <4>1, <1>1, IdempotencyAssumption
      <4> QED
        BY <4>1, <4>2, <1>1, <1>2
    <3> QED
      BY <3>1, <3>2
  <2> QED
    BY <2>1, <2>2 DEF IndexIsTrue
<1>5. OpenRowsAreNew'
  <2> SUFFICES ASSUME NEW s \in Requests
               PROVE  /\ phase'[s] \in {"inserting", "keyed"} =>
                           /\ table'[job'[s]] = "absent"
                           /\ \A t \in Requests \ {s} : job'[t] # job'[s]
                      /\ phase'[s] = "keyed" =>
                           index'[key'[s]] = NoJob /\ ~ KeyLocked(s)'
    BY DEF OpenRowsAreNew
  <2>1. CASE s = r
    BY <2>1, <1>3
  <2>2. ASSUME s # r, phase[s] \in {"inserting", "keyed"}
        PROVE  /\ table'[job[s]] = "absent"
               /\ \A t \in Requests \ {s} : job'[t] # job[s]
    BY <2>2, <1>1, <1>2, <1>3, IdempotencyAssumption DEF OpenRowsAreNew
  <2>3. ASSUME s # r, phase[s] = "keyed"
        PROVE  index'[key[s]] = NoJob /\ ~ KeyLocked(s)'
    <3>1. key[s] # k
      BY <2>3, <1>1 DEF KeyLocked, k
    <3> QED
      BY <3>1, <2>3, <1>1, <1>2, <1>3 DEF OpenRowsAreNew, KeyLocked
  <2> QED
    BY <2>1, <2>2, <2>3, <1>3
<1>6. FoundIsOwn'
  BY <1>1, <1>2, <1>3 DEF FoundIsOwn
<1>7. ToldTheTruth'
  BY <1>1, <1>2 DEF ToldTheTruth, k, j
<1> QED
  BY <1>4, <1>5, <1>6, <1>7

\* Every step keeps the invariant.
LEMMA NextInvariant ==
  ASSUME IInv, [Next]_vars
  PROVE  IInv'
<1>0. TypeOK /\ TypeOK'
  BY TypeStep DEF IInv
<1>1. CASE UNCHANGED vars
  <2>1. UNCHANGED <<table, made, index, phase, key, job, told>>
    BY <1>1 DEF vars, tables, locals
  <2> QED
    BY <1>0, <2>1 DEF IInv, IndexIsTrue, OpenRowsAreNew, KeyLocked, FoundIsOwn,
       ToldTheTruth
<1>2. ASSUME NEW r \in Requests, NEW b \in Bodies, Refuse(r, b)
      PROVE  IInv'
  BY <1>0, <1>2, TurnKeepsInvariant DEF Refuse, Reply, TypeOK
<1>3. ASSUME NEW r \in Requests, NEW b \in Bodies, NEW u \in Users,
             Receive(r, u, b)
      PROVE  IInv'
  BY <1>0, <1>3, TurnKeepsInvariant DEF Receive, TypeOK
<1>4. ASSUME NEW r \in Requests, RequestStep(r)
      PROVE  IInv'
  <2>1. CASE Find(r)
    <3>1. /\ UNCHANGED <<table, made, index, key, told>>
          /\ index[key[r]] # NoJob /\ key[r] \in Keys
          /\ phase'[r] = "found" /\ job'[r] = index[key[r]]
          /\ \A s \in Requests \ {r} : phase'[s] = phase[s] /\ job'[s] = job[s]
      BY <1>0, <2>1 DEF Find, tables, TypeOK
    <3>2. table[job'[r]] = "live" /\ made[job'[r]] = key[r]
      BY <3>1 DEF IInv, IndexIsTrue
    <3> QED
      BY <1>0, <3>1, <3>2 DEF IInv, IndexIsTrue, OpenRowsAreNew, KeyLocked,
         FoundIsOwn, ToldTheTruth, TypeOK
  <2>2. CASE AnswerExisting(r)
    <3>1. /\ UNCHANGED <<table, made, index>>
          /\ phase'[r] = "idle" /\ job'[r] = NoJob
          /\ told' = told \cup {<<key[r], job[r]>>}
          /\ \A s \in Requests \ {r} :
               phase'[s] = phase[s] /\ key'[s] = key[s] /\ job'[s] = job[s]
      BY <1>0, <2>2 DEF AnswerExisting, Reply, tables, TypeOK
    <3>2. table[job[r]] # "absent" /\ made[job[r]] = key[r]
      BY <2>2 DEF AnswerExisting, IInv, FoundIsOwn
    <3> QED
      BY <1>0, <3>1, <3>2, IdempotencyAssumption
         DEF IInv, IndexIsTrue, OpenRowsAreNew, KeyLocked, FoundIsOwn,
             ToldTheTruth, TypeOK
  <2>3. CASE AnswerVanished(r) \/ KeyConflict(r) \/ Abort(r)
    BY <1>0, <2>3, TurnKeepsInvariant
       DEF AnswerVanished, KeyConflict, Abort, Reply, TypeOK
  <2>4. CASE InsertJob(r)
    <3>1. PICK j \in Jobs : /\ table[j] = "absent"
                            /\ \A s \in Requests : job[s] # j
                            /\ job' = [job EXCEPT ![r] = j]
      BY <2>4 DEF InsertJob
    <3>2. /\ UNCHANGED <<table, made, index, key, told>>
          /\ phase' = [phase EXCEPT ![r] = "inserting"]
      BY <2>4 DEF InsertJob, tables
    <3> QED
      BY <1>0, <3>1, <3>2 DEF IInv, IndexIsTrue, OpenRowsAreNew, KeyLocked,
         FoundIsOwn, ToldTheTruth, TypeOK
  <2>5. CASE InsertKey(r)
    <3>1. /\ UNCHANGED <<table, made, index, key, job, told>>
          /\ phase' = [phase EXCEPT ![r] = "keyed"]
          /\ phase[r] = "inserting" /\ ~ KeyLocked(r) /\ index[key[r]] = NoJob
      BY <2>5 DEF InsertKey, tables
    <3> QED
      BY <1>0, <3>1 DEF IInv, IndexIsTrue, OpenRowsAreNew, KeyLocked,
         FoundIsOwn, ToldTheTruth, TypeOK
  <2>6. CASE AnswerAccepted(r) \/ CommitUnknown(r)
    BY <1>0, <2>6, CommitKeepsInvariant DEF AnswerAccepted, CommitUnknown
  <2> QED
    BY <1>4, <2>1, <2>2, <2>3, <2>4, <2>5, <2>6 DEF RequestStep, Progress
<1>5. ASSUME NEW j \in Jobs, DeleteJob(j)
      PROVE  IInv'
  <2>1. /\ table[j] = "live" /\ table' = [table EXCEPT ![j] = "deleted"]
        /\ index' = [k \in Keys |-> IF index[k] = j THEN NoJob ELSE index[k]]
        /\ UNCHANGED <<made, phase, key, job, told>>
    BY <1>5 DEF DeleteJob, locals
  <2>2. IndexIsTrue'
    BY <1>0, <2>1 DEF IInv, IndexIsTrue, TypeOK
  <2>3. OpenRowsAreNew'
    BY <1>0, <2>1 DEF IInv, OpenRowsAreNew, KeyLocked, TypeOK
  <2>4. FoundIsOwn'
    BY <1>0, <2>1 DEF IInv, FoundIsOwn, TypeOK
  <2>5. ToldTheTruth'
    BY <1>0, <2>1 DEF IInv, ToldTheTruth, TypeOK
  <2> QED
    BY <1>0, <2>2, <2>3, <2>4, <2>5 DEF IInv
<1>6. ASSUME NEW j \in Jobs, KeyExpires(j)
      PROVE  IInv'
  BY <1>0, <1>6 DEF KeyExpires, locals, IInv, IndexIsTrue, OpenRowsAreNew, KeyLocked,
     FoundIsOwn, ToldTheTruth
<1> QED
  BY <1>1, <1>2, <1>3, <1>4, <1>5, <1>6 DEF Next

\* The inductive invariant holds in every reachable state.
THEOREM CreationInvariance == Spec => []IInv
  BY InitInvariant, NextInvariant, PTL DEF Spec

\* A user never has two jobs of one payload, whatever runs concurrently.
THEOREM OneJobAlways == Spec => []OneJobPerRequest
<1>1. IInv => OneJobPerRequest
  BY DEF IInv, IndexIsTrue, OneJobPerRequest
<1> QED
  BY <1>1, CreationInvariance, PTL

\* A client is only told a job of its own that was committed.
THEOREM ToldTheTruthAlways == Spec => []ToldTheTruth
<1>1. IInv => ToldTheTruth
  BY DEF IInv
<1> QED
  BY <1>1, CreationInvariance, PTL

-----------------------------------------------------------------------------
(* The refinement of JobCreation *)

\* The job there is for a request, and the ids in use, as the tables have it.
JobsOf(k) == {j \in Jobs : table[j] = "live" /\ made[j] = k}
UsedIds   == {j \in Jobs : table[j] # "absent"}

Visible == <<[k \in Keys |-> JobsOf(k)], UsedIds, told>>

\* Steps that leave the two tables alone are invisible but for an answer.
LEMMA SameTables ==
  ASSUME UNCHANGED <<table, made>>
  PROVE  /\ \A k \in Keys : JobsOf(k)' = JobsOf(k)
         /\ UsedIds' = UsedIds
  BY DEF JobsOf, UsedIds

\* A COMMIT creates the job of a request that has none.
LEMMA CommitCreates ==
  ASSUME IInv, NEW r \in Requests, CommitRows(r),
         told' \in {told, told \cup {<<key[r], job[r]>>}}
  PROVE  Creation!Create(key[r], job[r])
<1> DEFINE k == key[r]
           j == job[r]
<1>1. /\ k \in Keys /\ j \in Jobs /\ table[j] = "absent"
      /\ index[k] = NoJob
      /\ table' = [table EXCEPT ![j] = "live"]
      /\ made' = [made EXCEPT ![j] = k]
  BY DEF IInv, TypeOK, CommitRows, OpenRowsAreNew
<1>2. JobsOf(k) = {}
  BY <1>1, IdempotencyAssumption DEF IInv, IndexIsTrue, JobsOf
<1>3. \A l \in Keys : JobsOf(l)' = IF l = k THEN {j} ELSE JobsOf(l)
  <2> SUFFICES ASSUME NEW l \in Keys, NEW i \in Jobs
               PROVE  (table'[i] = "live" /\ made'[i] = l)
                        <=> IF l = k THEN i = j
                                     ELSE table[i] = "live" /\ made[i] = l
    BY <1>1 DEF JobsOf
  <2>1. CASE i = j
    BY <2>1, <1>1 DEF IInv, TypeOK
  <2>2. CASE i # j
    BY <2>2, <1>1, <1>2 DEF IInv, TypeOK, JobsOf
  <2> QED
    BY <2>1, <2>2
<1>4. UsedIds' = UsedIds \cup {j} /\ j \notin UsedIds
  BY <1>1 DEF IInv, TypeOK, UsedIds
<1> QED
  BY <1>1, <1>2, <1>3, <1>4
     DEF Creation!Create, Creation!Answer, JobsOf, UsedIds

\* Every step creates a job, answers with the job there is, deletes one, or
\* is invisible.
LEMMA CreationStep ==
  ASSUME IInv, [Next]_vars
  PROVE  Creation!CreationNext \/ UNCHANGED Visible
<1> DEFINE Goal == Creation!CreationNext \/ UNCHANGED Visible
<1>1. ASSUME UNCHANGED <<table, made, told>>
      PROVE  Goal
  BY <1>1, SameTables DEF Visible
<1>2. ASSUME NEW r \in Requests, AnswerExisting(r)
      PROVE  Goal
  <2>1. /\ key[r] \in Keys /\ job[r] \in Jobs /\ job[r] \in JobsOf(key[r])
        /\ UNCHANGED <<table, made>>
        /\ told' = told \cup {<<key[r], job[r]>>}
    BY <1>2 DEF AnswerExisting, tables, IInv, TypeOK, FoundIsOwn, JobsOf
  <2>2. Creation!Repeat(key[r], job[r])
    BY <2>1, SameTables
       DEF Creation!Repeat, Creation!Answer, JobsOf, UsedIds
  <2> QED
    BY <2>1, <2>2 DEF Creation!CreationNext
<1>3. ASSUME NEW r \in Requests, AnswerAccepted(r) \/ CommitUnknown(r)
      PROVE  Goal
  <2>1. CommitRows(r) /\ told' \in {told, told \cup {<<key[r], job[r]>>}}
    BY <1>3 DEF AnswerAccepted, CommitUnknown
  <2>2. key[r] \in Keys /\ job[r] \in Jobs
    BY <2>1 DEF CommitRows, IInv, TypeOK
  <2>3. Creation!Create(key[r], job[r])
    BY <2>1, CommitCreates
  <2> QED
    BY <2>2, <2>3 DEF Creation!CreationNext, Creation!Create, Creation!Answer
<1>4. ASSUME NEW j \in Jobs, DeleteJob(j)
      PROVE  Goal
  <2>1. /\ table[j] = "live" /\ table' = [table EXCEPT ![j] = "deleted"]
        /\ UNCHANGED <<made, told>>
    BY <1>4 DEF DeleteJob
  <2>2. made[j] \in Keys /\ JobsOf(made[j]) = {j}
    BY <2>1 DEF IInv, IndexIsTrue, JobsOf
  <2>3. \A l \in Keys : JobsOf(l)' = IF l = made[j] THEN {} ELSE JobsOf(l)
    <3> SUFFICES ASSUME NEW l \in Keys, NEW i \in Jobs
                 PROVE  (table'[i] = "live" /\ made[i] = l)
                          <=> l # made[j] /\ table[i] = "live" /\ made[i] = l
      BY <2>1 DEF JobsOf
    <3> QED
      BY <2>1, <2>2 DEF IInv, TypeOK, JobsOf
  <2>4. UsedIds' = UsedIds
    BY <2>1 DEF IInv, TypeOK, UsedIds
  <2>5. Creation!Delete(made[j])
    BY <2>1, <2>2, <2>3, <2>4 DEF Creation!Delete, JobsOf, UsedIds
  <2> QED
    BY <2>2, <2>5 DEF Creation!CreationNext, Creation!Delete
<1>5. ASSUME NEW r \in Requests, NEW b \in Bodies,
             Refuse(r, b) \/ \E u \in Users : Receive(r, u, b)
      PROVE  Goal
  BY <1>1, <1>5 DEF Refuse, Receive, tables
<1>6. ASSUME NEW r \in Requests,
             Find(r) \/ AnswerVanished(r) \/ InsertJob(r) \/ InsertKey(r)
               \/ KeyConflict(r) \/ Abort(r)
      PROVE  Goal
  BY <1>1, <1>6 DEF Find, AnswerVanished, InsertJob, InsertKey, KeyConflict,
     Abort, tables
<1>7. CASE UNCHANGED vars
  BY <1>1, <1>7 DEF vars, tables
<1>8. ASSUME NEW j \in Jobs, KeyExpires(j)
      PROVE  Goal
  BY <1>1, <1>8 DEF KeyExpires
<1> QED
  BY <1>2, <1>3, <1>4, <1>5, <1>6, <1>7, <1>8 DEF Next, RequestStep, Progress

\* Job creation implements JobCreation: one job at a time for a request, and
\* answers that name it.
THEOREM CreationImplementation == Spec => ImplementsCreation
<1>1. Init => Creation!CreationInit
  BY DEF Init, Creation!CreationInit
<1>2. IInv /\ [Next]_vars => [Creation!CreationNext]_Visible
  BY CreationStep
<1> QED
  BY <1>1, <1>2, CreationInvariance, PTL
     DEF Spec, ImplementsCreation, Creation!CreationSpec, Creation!creationVars,
         Visible, JobsOf, UsedIds

-----------------------------------------------------------------------------
(* Repeated requests *)

\* A request whose job has been there all the time has looked it up or will,
\* and found the job that is still in the index.
StaysFound ==
  \A r \in steady :
    /\ phase[r] = "idle" => reply[r] = "200"
    /\ phase[r] # "idle" => /\ phase[r] \in {"begun", "found"}
                            /\ index[key[r]] # NoJob
    /\ phase[r] = "found" => job[r] = index[key[r]]

\* No step of another request, and no deletion of another job, disturbs it.
LEMMA SteadyStep == IInv /\ StaysFound /\ [Next]_vars => StaysFound'
<1> SUFFICES ASSUME IInv, StaysFound, [Next]_vars PROVE StaysFound'
  OBVIOUS
<1> USE DEF IInv, TypeOK, StaysFound
<1>1. CASE UNCHANGED vars
  BY <1>1 DEF vars, tables, locals
<1>2. ASSUME NEW r \in Requests, NEW b \in Bodies, Refuse(r, b)
      PROVE  StaysFound'
  BY <1>2 DEF Refuse, Reply, tables
<1>3. ASSUME NEW r \in Requests, NEW b \in Bodies, NEW u \in Users,
             Receive(r, u, b)
      PROVE  StaysFound'
  BY <1>3, KeyOfType DEF Receive, tables
<1>4. ASSUME NEW r \in Requests, RequestStep(r)
      PROVE  StaysFound'
  <2>1. CASE Find(r)
    BY <2>1 DEF Find, tables
  <2>2. CASE AnswerExisting(r)
    BY <2>2 DEF AnswerExisting, Reply, tables
  <2>3. CASE AnswerVanished(r)
    BY <2>3 DEF AnswerVanished, Reply, tables, IndexIsTrue
  <2>4. CASE KeyConflict(r) \/ Abort(r)
    BY <2>4 DEF KeyConflict, Abort, Reply, tables
  <2>5. CASE InsertJob(r)
    BY <2>5 DEF InsertJob, tables
  <2>6. CASE InsertKey(r)
    BY <2>6 DEF InsertKey, tables
  <2>7. CASE AnswerAccepted(r) \/ CommitUnknown(r)
    BY <2>7 DEF AnswerAccepted, CommitUnknown, CommitRows, Reply, OpenRowsAreNew
  <2> QED
    BY <1>4, <2>1, <2>2, <2>3, <2>4, <2>5, <2>6, <2>7 DEF RequestStep, Progress
<1>5. ASSUME NEW j \in Jobs, DeleteJob(j)
      PROVE  StaysFound'
  BY <1>5 DEF DeleteJob, Unsteadied, locals, IndexIsTrue
<1>6. ASSUME NEW j \in Jobs, KeyExpires(j)
      PROVE  StaysFound'
  BY <1>6 DEF KeyExpires, Unsteadied, locals
<1> QED
  BY <1>1, <1>2, <1>3, <1>4, <1>5, <1>6 DEF Next

\* A repeated request whose job stays, with a key that has not expired, is
\* answered 200 unless a statement of its own fails, for any number of
\* concurrent requests.
THEOREM RepeatsRecognised == Spec => []RepeatIsRecognised
<1>1. Init => StaysFound
  BY DEF Init, StaysFound
<1>2. StaysFound => RepeatIsRecognised
  BY DEF StaysFound, RepeatIsRecognised
<1> QED
  BY <1>1, <1>2, SteadyStep, CreationInvariance, PTL DEF Spec
-----------------------------------------------------------------------------
(* Job creation inside the pipeline *)

\* The state column a client sees before any worker comes.
ListedState(j) == IF table[j] = "live" THEN "pending" ELSE table[j]

Life == INSTANCE JobLifecycle WITH
          state    <- [j \in Jobs |-> ListedState(j)],
          attempts <- [j \in Jobs |-> 0]

\* A step that moves at most one job of the table is a step of its life.
LEMMA TableStepIsLife ==
  ASSUME TypeOK, NEW j \in Jobs,
         \/ table[j] = "absent" /\ table' = [table EXCEPT ![j] = "live"]
         \/ table[j] = "live" /\ table' = [table EXCEPT ![j] = "deleted"]
  PROVE  Life!LifeNext
<1>1. /\ \/ ListedState(j) = "absent" /\ ListedState(j)' = "pending"
         \/ ListedState(j) = "pending" /\ ListedState(j)' = "deleted"
      /\ \A i \in Jobs \ {j} : ListedState(i)' = ListedState(i)
  BY DEF ListedState, TypeOK
<1>2. Life!LifeStep(j)
  BY <1>1 DEF Life!LifeStep, Life!Quietly, Life!Become
<1> QED
  BY <1>2 DEF Life!LifeNext

\* To everyone who polls jobs, the transaction of CreateJobWithIdempotency is
\* a single step that makes a new job pending, whatever its statements do and
\* however often it is rolled back; no id is ever pending twice.  This is what
\* JobPipeline takes POST and DELETE for (CreateJob, DeleteJob).
THEOREM CreationIsOneStep == Spec => Life!LifeSpec
<1>1. Init => Life!LifeInit
  BY DEF Init, Life!LifeInit, ListedState
<1>2. ASSUME IInv, [Next]_vars
      PROVE  [Life!LifeNext]_(Life!lifeVars)
  <2>1. CASE UNCHANGED table
    BY <2>1 DEF Life!lifeVars, ListedState
  <2>2. ASSUME NEW r \in Requests, CommitRows(r)
        PROVE  Life!LifeNext
    <3>1. /\ job[r] \in Jobs /\ table[job[r]] = "absent"
          /\ table' = [table EXCEPT ![job[r]] = "live"]
      BY <1>2, <2>2 DEF CommitRows, IInv, TypeOK, OpenRowsAreNew
    <3> QED
      BY <1>2, <3>1, TableStepIsLife DEF IInv
  <2>3. ASSUME NEW j \in Jobs, DeleteJob(j)
        PROVE  Life!LifeNext
    BY <1>2, <2>3, TableStepIsLife DEF DeleteJob, IInv
  <2> QED
    BY <1>2, <2>1, <2>2, <2>3 DEF Next, RequestStep, Progress, Refuse, Receive,
       Find, AnswerExisting, AnswerVanished, InsertJob, InsertKey, KeyConflict,
       AnswerAccepted, CommitUnknown, Abort, KeyExpires, vars, tables
<1> QED
  BY <1>1, <1>2, CreationInvariance, PTL DEF Spec, Life!LifeSpec

-----------------------------------------------------------------------------
(* The payload *)

\* Equal texts mean the same job and the same job means equal texts, for texts
\* of any kind and any integers, negative ones included.
LEMMA TextSeparates ==
  ASSUME NEW b \in Bodies, NEW c \in Bodies
  PROVE  CanonicalJSON(NewJobPayload(b)) = CanonicalJSON(NewJobPayload(c))
           <=> SameJob(b, c)
<1>1. \A m, n \in Int, d \in {1, 5, 15} :
        Option(m, d) = Option(n, d) <=> SameOption(m, n, d)
  BY DEF Option, SameOption
<1>2. /\ {b.version, b.max_retries, b.timeout_seconds} \subseteq Int
      /\ {c.version, c.max_retries, c.timeout_seconds} \subseteq Int
  BY IdempotencyAssumption
<1>3. CanonicalJSON(NewJobPayload(b)) = CanonicalJSON(NewJobPayload(c)) <=>
        /\ b.type = c.type /\ b.name = c.name /\ b.webhook_url = c.webhook_url
        /\ Option(b.version, 1) = Option(c.version, 1)
        /\ Option(b.max_retries, 5) = Option(c.max_retries, 5)
        /\ Option(b.timeout_seconds, 15) = Option(c.timeout_seconds, 15)
  BY IdempotencyAssumption DEF CanonicalJSON, NewJobPayload
<1> QED
  BY <1>1, <1>2, <1>3 DEF SameJob

\* A job is found by the requests of its user that ask for the same and by no
\* others, whatever bodies clients send and whatever runs concurrently.
THEOREM FoundBySame == Spec => []FoundBySameRequests
<1>1. ASSUME IInv, NEW j \in Jobs, table[j] = "live"
      PROVE  \E b \in Bodies : \A u \in Users, c \in Bodies :
               IsComplete(c) =>
                 (index[KeyOf(u, c)] = j <=> u = made[j][1] /\ SameJob(b, c))
  <2>1. made[j] \in Keys /\ index[made[j]] = j
    BY <1>1 DEF IInv, IndexIsTrue
  <2>2. PICK v \in Users, b \in Bodies : made[j] = KeyOf(v, b)
    BY <2>1 DEF Keys
  <2>3. ASSUME NEW u \in Users, NEW c \in Bodies, IsComplete(c)
        PROVE  index[KeyOf(u, c)] = j <=> u = made[j][1] /\ SameJob(b, c)
    <3>1. index[KeyOf(u, c)] = j <=> KeyOf(u, c) = made[j]
      BY <1>1, <2>1, <2>3, KeyOfType, IdempotencyAssumption DEF IInv, IndexIsTrue
    <3>2. KeyOf(u, c) = KeyOf(v, b) <=> u = v /\ SameJob(b, c)
      BY TextSeparates DEF KeyOf
    <3>3. made[j][1] = v
      BY <2>2 DEF KeyOf
    <3> QED
      BY <2>2, <3>1, <3>2, <3>3
  <2> QED
    BY <2>3
<1>2. IInv => FoundBySameRequests
  BY <1>1 DEF FoundBySameRequests
<1> QED
  BY <1>2, CreationInvariance, PTL

\* Every job that was created may be attempted at least once: the fifth
\* member of its payload, max_retries, is positive.
CreatedWithAttempts ==
  \A j \in Jobs : table[j] = "live" => made[j][2][5] > 0

\* NewJobPayload never yields a max_retries that is not positive, so that
\* PipelineAssumption asks of Limits no more than POST provides (and, by
\* NumbersStayPositive of JobsApiProofs, than PUT preserves).
THEOREM CreatedJobsHaveAttempts == Spec => []CreatedWithAttempts
<1>1. ASSUME NEW b \in Bodies
      PROVE  NewJobPayload(b).max_retries > 0
  BY IdempotencyAssumption DEF NewJobPayload, Option
<1>2. \A k \in Keys : k[2][5] > 0
  BY <1>1 DEF Keys, KeyOf, CanonicalJSON
<1>3. IInv => CreatedWithAttempts
  BY <1>2 DEF IInv, IndexIsTrue, CreatedWithAttempts
<1> QED
  BY <1>3, CreationInvariance, PTL

=============================================================================
