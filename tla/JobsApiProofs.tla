---------------------------- MODULE JobsApiProofs ----------------------------
(***************************************************************************)
(* Proofs about the jobs API, for any number of handlers, users, jobs,     *)
(* fields and values.                                                      *)
(***************************************************************************)
EXTENDS JobsApi, TLAPS

\* What a handler remembers of a job is what the job is, unless another
\* handler has written it since.
FreshCopies ==
  \A h \in Handlers :
    phase[h] # "idle" /\ h \notin stale /\ target[h] \in exists
      => copy[h] = row[target[h]]

IInv ==
  /\ TypeOK
  /\ FreshCopies
  /\ SequentialPutsCompose
  /\ DeletedStaysGone

-----------------------------------------------------------------------------

\* The reference for Merge: field by field, what the request asks for, and
\* what was there otherwise.
LEMMA MergeIsPatched ==
  ASSUME NEW r \in Rows, NEW b \in Bodies
  PROVE  Merge(r, b) = Patched(r, b) /\ Merge(r, b) \in Rows
<1>1. PICK S \in SUBSET Fields : b \in [S -> Values]
  BY DEF Bodies
<1>2. \A f \in Fields : f \in TextFields => f \notin NumberFields
  BY ApiAssumption
<1>3. \A f \in Fields : f \in DOMAIN b => b[f] \in Int
  BY <1>1, ApiAssumption
<1> QED
  BY <1>1, <1>2, <1>3, ApiAssumption DEF Merge, Patched, Takes, Fields, Rows

\* No field at all is a request, which PUT refuses and other handlers have.
LEMMA EmptyIsBody == Empty \in Bodies
<1>1. Empty \in [{} -> Values]
  BY DEF Empty
<1> QED
  BY <1>1 DEF Bodies

\* The columns POST wrote are a row.
LEMMA CreatedIsRow == Created \in Rows
  BY ApiAssumption DEF Rows

\* A handler's answer keeps the types of its local variables.
LEMMA AnswerType ==
  ASSUME TypeOK, NEW h \in Handlers, NEW s \in Replies, Answer(h, s)
  PROVE  /\ phase' \in [Handlers -> HandlerPhase]
         /\ target' \in [Handlers -> Jobs \cup {NoJob}]
         /\ body' \in [Handlers -> Bodies]
         /\ copy' \in [Handlers -> Rows]
         /\ reply' \in [Handlers -> Replies]
         /\ \A g \in Handlers : phase'[g] # "idle" => target'[g] \in Jobs
  BY EmptyIsBody, CreatedIsRow DEF Answer, TypeOK, HandlerPhase

\* Every step keeps the variables in their types.
LEMMA TypeStep ==
  ASSUME TypeOK, [Next]_vars
  PROVE  TypeOK'
<1> USE DEF TypeOK
<1>1. CASE UNCHANGED vars
  BY <1>1 DEF vars, handlerVars, historyVars
<1>2. ASSUME NEW h \in Handlers, NEW s \in Replies, Reply(h, s),
             UNCHANGED <<row, asked, merged, clashed>>,
             exists' \in SUBSET exists, gone' \in SUBSET Jobs
      PROVE  TypeOK'
  BY <1>2, AnswerType DEF Reply
<1>3. ASSUME NEW h \in Handlers,
             PutNothing(h) \/ DeleteWrite(h) \/ WriteFails(h)
      PROVE  TypeOK'
  BY <1>2, <1>3 DEF PutNothing, DeleteWrite, WriteFails, Replies
<1>4. ASSUME NEW h \in Handlers, NEW j \in Jobs,
             \/ NotFound(h, j)
             \/ \E u \in Users : Forbidden(h, u, j) \/ Get(h, u, j)
      PROVE  TypeOK'
  BY <1>2, <1>4 DEF NotFound, Forbidden, Get, Replies
<1>5. ASSUME NEW h \in Handlers, NEW j \in Jobs, NEW u \in Users,
             DeleteRead(h, u, j)
      PROVE  TypeOK'
  BY <1>5 DEF DeleteRead, Read, HandlerPhase, Replies
<1>6. ASSUME NEW h \in Handlers, NEW j \in Jobs, NEW u \in Users,
             NEW b \in Bodies, PutRead(h, u, j, b)
      PROVE  TypeOK'
  <2>1. {<<f, b[f]>> : f \in {g \in Fields : Takes(b, g)}}
          \in SUBSET (Fields \X Values)
    BY DEF Bodies, Takes
  <2>2. asked' \in [Jobs -> SUBSET (Fields \X Values)]
    BY <1>6, <2>1 DEF PutRead
  <2> QED
    BY <1>6, <2>2 DEF PutRead, Read, HandlerPhase, Replies
<1>7. ASSUME NEW h \in Handlers, PutWrite(h)
      PROVE  TypeOK'
  <2>1. target[h] \in Jobs /\ copy[h] \in Rows /\ body[h] \in Bodies
        /\ merged[target[h]] \in Rows
    BY <1>7 DEF PutWrite
  <2>2. Merge(copy[h], body[h]) \in Rows
        /\ Patched(merged[target[h]], body[h]) \in Rows
    BY <2>1, MergeIsPatched
  <2>3. /\ exists' = exists /\ row' \in [Jobs -> Rows]
        /\ merged' \in [Jobs -> Rows]
        /\ stale' \in SUBSET Handlers /\ clashed' \in SUBSET Jobs
    BY <1>7, <2>1, <2>2 DEF PutWrite, UpdateJobDetails, Written
  <2>4. \E s \in Replies : Answer(h, s)
    BY <1>7 DEF PutWrite, Replies
  <2> QED
    BY <1>7, <2>3, <2>4, AnswerType DEF PutWrite
<1> QED
  BY <1>1, <1>3, <1>4, <1>5, <1>6, <1>7 DEF Next

\* Every variable of the jobs API has its type.
THEOREM ApiTypeCorrect == Spec => []TypeOK
<1>1. Init => TypeOK
  BY EmptyIsBody, CreatedIsRow DEF Init, TypeOK, HandlerPhase, Replies
<1> QED
  BY <1>1, TypeStep, PTL DEF Spec

-----------------------------------------------------------------------------

\* A step in which no row is written and at most deleted keeps the invariant.
LEMMA QuietKeepsInvariant ==
  ASSUME IInv, TypeOK', NEW h \in Handlers,
         UNCHANGED <<row, merged, clashed>>,
         exists' \in SUBSET exists,
         gone' \cap exists' = {},
         stale \ {h} \in SUBSET stale',
         \A g \in Handlers \ {h} :
           phase'[g] = phase[g] /\ target'[g] = target[g] /\ copy'[g] = copy[g],
         \/ phase'[h] = "idle"
         \/ target'[h] \in Jobs /\ copy'[h] = row[target'[h]]
  PROVE  IInv'
<1>1. FreshCopies'
  BY DEF IInv, FreshCopies
<1>2. SequentialPutsCompose' /\ DeletedStaysGone'
  BY DEF IInv, SequentialPutsCompose, DeletedStaysGone
<1> QED
  BY <1>1, <1>2 DEF IInv

\* The UPDATE of a PUT: what is written is the request over the row as it is,
\* unless the handler is stale, and then its job is marked.
LEMMA PutKeepsInvariant ==
  ASSUME IInv, TypeOK', NEW h \in Handlers, PutWrite(h)
  PROVE  IInv'
<1> DEFINE j == target[h]
<1>1. /\ j \in Jobs /\ copy[h] \in Rows /\ body[h] \in Bodies
      /\ UNCHANGED <<exists, gone>>
      /\ phase'[h] = "idle"
      /\ \A g \in Handlers \ {h} :
           phase'[g] = phase[g] /\ target'[g] = target[g] /\ copy'[g] = copy[g]
  BY DEF PutWrite, UpdateJobDetails, Answer, IInv, TypeOK
<1>2. CASE j \notin exists
  <2>1. stale' = stale \ {h} /\ UNCHANGED <<row, merged, clashed>>
    BY <1>2 DEF PutWrite, UpdateJobDetails
  <2> QED
    BY <1>1, <2>1, QuietKeepsInvariant DEF IInv, DeletedStaysGone
<1>3. CASE j \in exists
  <2>1. /\ row' = [row EXCEPT ![j] = Merge(copy[h], body[h])]
        /\ merged' = [merged EXCEPT ![j] = Patched(merged[j], body[h])]
        /\ stale' = (stale \cup {g \in Handlers :
                                   phase[g] # "idle" /\ target[g] = j}) \ {h}
        /\ clashed' = IF h \in stale THEN clashed \cup {j} ELSE clashed
    BY <1>3 DEF PutWrite, UpdateJobDetails, Written
  <2>2. FreshCopies'
    BY <1>1, <2>1 DEF IInv, TypeOK, FreshCopies
  <2>3. ASSUME h \notin stale, j \notin clashed
        PROVE  row'[j] = merged'[j]
    <3>1. copy[h] = row[j] /\ row[j] = merged[j]
      BY <1>3, <2>3
         DEF PutWrite, IInv, FreshCopies, SequentialPutsCompose
    <3> QED
      BY <1>1, <2>1, <3>1, MergeIsPatched DEF IInv, TypeOK
  <2>4. SequentialPutsCompose'
    BY <1>1, <2>1, <2>3 DEF IInv, TypeOK, SequentialPutsCompose
  <2> QED
    BY <1>1, <2>2, <2>4 DEF IInv, DeletedStaysGone
<1> QED
  BY <1>2, <1>3

\* Every step keeps the invariant.
LEMMA NextInvariant ==
  ASSUME IInv, [Next]_vars
  PROVE  IInv'
<1>0. TypeOK /\ TypeOK' /\ gone \cap exists = {}
  BY TypeStep DEF IInv, DeletedStaysGone
<1>1. CASE UNCHANGED vars
  <2>1. UNCHANGED <<exists, row, phase, target, copy, merged, stale, clashed,
                    gone>>
    BY <1>1 DEF vars, handlerVars, historyVars
  <2> QED
    BY <1>0, <2>1 DEF IInv, FreshCopies, SequentialPutsCompose, DeletedStaysGone
<1>2. ASSUME NEW h \in Handlers, PutNothing(h) \/ WriteFails(h)
      PROVE  IInv'
  BY <1>0, <1>2, QuietKeepsInvariant
     DEF PutNothing, WriteFails, Reply, Answer, TypeOK
<1>3. ASSUME NEW h \in Handlers, DeleteWrite(h)
      PROVE  IInv'
  BY <1>0, <1>3, QuietKeepsInvariant DEF DeleteWrite, Reply, Answer, TypeOK
<1>4. ASSUME NEW h \in Handlers, NEW j \in Jobs,
             \/ NotFound(h, j)
             \/ \E u \in Users : Forbidden(h, u, j) \/ Get(h, u, j)
      PROVE  IInv'
  BY <1>0, <1>4, QuietKeepsInvariant
     DEF NotFound, Forbidden, Get, Reply, Answer, TypeOK
<1>5. ASSUME NEW h \in Handlers, NEW j \in Jobs, NEW u \in Users,
             DeleteRead(h, u, j) \/ \E b \in Bodies : PutRead(h, u, j, b)
      PROVE  IInv'
  BY <1>0, <1>5, QuietKeepsInvariant DEF DeleteRead, PutRead, Read, TypeOK
<1>6. ASSUME NEW h \in Handlers, PutWrite(h)
      PROVE  IInv'
  BY <1>0, <1>6, PutKeepsInvariant
<1> QED
  BY <1>1, <1>2, <1>3, <1>4, <1>5, <1>6 DEF Next

\* The inductive invariant holds in every reachable state.
THEOREM ApiInvariance == Spec => []IInv
<1>1. Init => IInv
  BY EmptyIsBody, CreatedIsRow
     DEF Init, IInv, TypeOK, HandlerPhase, Replies, FreshCopies,
         SequentialPutsCompose, DeletedStaysGone
<1> QED
  BY <1>1, NextInvariant, PTL DEF Spec

\* PUTs that do not overlap add up, whatever else overlaps them.
THEOREM PutsCompose == Spec => []SequentialPutsCompose
<1>1. IInv => SequentialPutsCompose
  BY DEF IInv
<1> QED
  BY <1>1, ApiInvariance, PTL

\* No PUT brings a deleted job back.
THEOREM DeletionIsFinal == Spec => []DeletedStaysGone
<1>1. IInv => DeletedStaysGone
  BY DEF IInv
<1> QED
  BY <1>1, ApiInvariance, PTL

-----------------------------------------------------------------------------
(* What fields hold *)

\* A value that a field of a job may have.
Legal(j, f, v) == v = Created[f] \/ <<f, v>> \in asked[j]

\* Rows and the copies of them hold legal values, and what a PUT is about to
\* write has been asked for.
AskedInv ==
  /\ \A j \in Jobs, f \in Fields : Legal(j, f, row[j][f])
  /\ \A h \in Handlers, f \in Fields :
       phase[h] # "idle" => Legal(target[h], f, copy[h][f])
  /\ \A h \in Handlers, f \in Fields :
       phase[h] = "put" /\ Takes(body[h], f)
         => <<f, body[h][f]>> \in asked[target[h]]

\* A handler that ends without writing columns keeps them so.
LEMMA EndKeepsAsked ==
  ASSUME TypeOK, AskedInv, NEW h \in Handlers, NEW s \in Replies, Answer(h, s),
         UNCHANGED <<row, asked>>
  PROVE  AskedInv'
  BY DEF TypeOK, AskedInv, Legal, Answer

\* A handler that reads takes legal values over.
LEMMA ReadKeepsAsked ==
  ASSUME TypeOK, AskedInv, NEW h \in Handlers, NEW u \in Users, NEW j \in Jobs,
         NEW b \in Bodies, DeleteRead(h, u, j) \/ PutRead(h, u, j, b)
  PROVE  AskedInv'
<1>1. CASE DeleteRead(h, u, j)
  BY <1>1 DEF TypeOK, AskedInv, Legal, DeleteRead, Read
<1>2. CASE PutRead(h, u, j, b)
  <2>1. u = Owner[j]
    BY <1>2 DEF PutRead, Read, MayTouch
  <2> DEFINE new == {<<f, b[f]>> : f \in {g \in Fields : Takes(b, g)}}
  <2>2. asked' = [asked EXCEPT ![j] = @ \cup new]
    BY <1>2, <2>1 DEF PutRead
  <2>3. \A i \in Jobs : asked[i] \subseteq asked'[i]
    BY <2>2 DEF TypeOK
  <2>4. \A f \in Fields : Takes(b, f) => <<f, b[f]>> \in asked'[j]
    BY <2>2 DEF TypeOK
  <2>5. /\ row' = row
        /\ phase' = [phase EXCEPT ![h] = "put"]
        /\ target' = [target EXCEPT ![h] = j]
        /\ copy' = [copy EXCEPT ![h] = row[j]]
        /\ body' = [body EXCEPT ![h] = b]
    BY <1>2 DEF PutRead, Read
  <2> QED
    BY <2>3, <2>4, <2>5 DEF TypeOK, AskedInv, Legal
<1> QED
  BY <1>1, <1>2

\* An UPDATE writes values that were read or asked for.
LEMMA WriteKeepsAsked ==
  ASSUME TypeOK, AskedInv, NEW h \in Handlers, PutWrite(h)
  PROVE  AskedInv'
<1> DEFINE j == target[h]
<1>1. j \in Jobs /\ copy[h] \in Rows /\ body[h] \in Bodies /\ asked' = asked
  BY DEF PutWrite, TypeOK
<1>2. \A f \in Fields : Legal(j, f, Merge(copy[h], body[h])[f])
  BY <1>1, MergeIsPatched DEF PutWrite, AskedInv, Legal, Patched
<1>3. \/ row' = row
      \/ row' = [row EXCEPT ![j] = Merge(copy[h], body[h])]
  BY DEF PutWrite, UpdateJobDetails
<1>4. \A i \in Jobs, f \in Fields : Legal(i, f, row[i][f])'
  BY <1>1, <1>2, <1>3 DEF TypeOK, AskedInv, Legal
<1>5. \E s \in Replies : Answer(h, s)
  BY DEF PutWrite, Replies
<1> QED
  BY <1>1, <1>4, <1>5 DEF TypeOK, AskedInv, Legal, Answer

\* A field only ever holds what POST wrote or what the owner asked for, for
\* any number of overlapping requests.
THEOREM FieldsAsked == Spec => []FieldsWereAsked
<1>1. Init => AskedInv
  BY DEF Init, AskedInv, Legal
<1>2. ASSUME TypeOK, AskedInv, [Next]_vars
      PROVE  AskedInv'
  <2>1. CASE UNCHANGED vars
    BY <1>2, <2>1 DEF vars, handlerVars, historyVars, AskedInv, Legal
  <2>2. ASSUME NEW h \in Handlers, PutNothing(h) \/ WriteFails(h) \/ DeleteWrite(h)
        PROVE  AskedInv'
    BY <1>2, <2>2, EndKeepsAsked
       DEF PutNothing, WriteFails, DeleteWrite, Reply, Replies
  <2>3. ASSUME NEW h \in Handlers, NEW j \in Jobs,
               \/ NotFound(h, j)
               \/ \E u \in Users : Forbidden(h, u, j) \/ Get(h, u, j)
        PROVE  AskedInv'
    BY <1>2, <2>3, EndKeepsAsked DEF NotFound, Forbidden, Get, Reply, Replies
  <2>4. ASSUME NEW h \in Handlers, NEW j \in Jobs, NEW u \in Users,
               DeleteRead(h, u, j) \/ \E b \in Bodies : PutRead(h, u, j, b)
        PROVE  AskedInv'
    BY <1>2, <2>4, ReadKeepsAsked, EmptyIsBody
  <2>5. ASSUME NEW h \in Handlers, PutWrite(h)
        PROVE  AskedInv'
    BY <1>2, <2>5, WriteKeepsAsked
  <2> QED
    BY <1>2, <2>1, <2>2, <2>3, <2>4, <2>5 DEF Next
<1>3. TypeOK /\ AskedInv => FieldsWereAsked
  BY DEF TypeOK, AskedInv, Legal, FieldsWereAsked
<1> QED
  BY <1>1, <1>2, <1>3, ApiTypeCorrect, PTL DEF Spec
-----------------------------------------------------------------------------
(* Numbers *)

\* The number columns of a job that exists are positive.
NumbersArePositive == \A j \in exists, f \in NumberFields : row[j][f] > 0

\* Of the numbers a PUT names only the positive ones were ever asked for.
AskedIsPositive ==
  \A j \in Jobs, f \in NumberFields, v \in Values :
    <<f, v>> \in asked[j] => v > 0

LEMMA AskedIsPositiveStep ==
  ASSUME TypeOK, AskedIsPositive, [Next]_vars
  PROVE  AskedIsPositive'
<1>1. CASE UNCHANGED asked
  BY <1>1 DEF AskedIsPositive
<1>2. ASSUME NEW h \in Handlers, NEW u \in Users, NEW j \in Jobs,
             NEW b \in Bodies, PutRead(h, u, j, b)
      PROVE  AskedIsPositive'
  <2> SUFFICES ASSUME NEW i \in Jobs, NEW f \in NumberFields, NEW v \in Values,
                      <<f, v>> \in asked'[i]
               PROVE  v > 0
    BY DEF AskedIsPositive
  <2> DEFINE new == {<<g, b[g]>> : g \in {e \in Fields : Takes(b, e)}}
  <2>1. <<f, v>> \in asked[i] \/ <<f, v>> \in new
    BY <1>2 DEF PutRead, TypeOK
  <2>2. CASE <<f, v>> \in new
    BY <2>2 DEF Takes
  <2> QED
    BY <2>1, <2>2 DEF AskedIsPositive
<1> QED
  BY <1>1, <1>2 DEF Next, vars, historyVars, PutNothing, PutWrite, DeleteWrite,
     WriteFails, NotFound, Forbidden, Get, DeleteRead

\* max_retries, timeout_seconds and version stay positive, however PUTs of any
\* values overlap: a handler passes over a number that is not positive, and
\* writes back only what was read or asked for.  It is why the limits of
\* JobPipeline are positive: StartsBounded is false of a job with a
\* max_retries of 0, which the worker would execute all the same.
THEOREM NumbersStayPositive == Spec => []NumbersArePositive
<1>1. Init => AskedIsPositive
  BY DEF Init, AskedIsPositive
<1>2. TypeOK /\ AskedIsPositive /\ [Next]_vars => AskedIsPositive'
  BY AskedIsPositiveStep
<1>3. ASSUME TypeOK, AskedIsPositive, FieldsWereAsked,
             NEW j \in exists, NEW f \in NumberFields
      PROVE  row[j][f] > 0
  <2>1. j \in Jobs /\ f \in Fields
    BY <1>3 DEF TypeOK, Fields
  <2>2. CASE row[j][f] = Created[f]
    BY <2>2, ApiAssumption
  <2>3. CASE <<f, row[j][f]>> \in asked[j]
    <3>1. row[j][f] \in Values
      BY <1>3, <2>1, <2>3 DEF TypeOK
    <3> QED
      BY <1>3, <2>1, <2>3, <3>1 DEF AskedIsPositive
  <2> QED
    BY <1>3, <2>1, <2>2, <2>3 DEF FieldsWereAsked
<1>4. TypeOK /\ AskedIsPositive /\ FieldsWereAsked => NumbersArePositive
  BY <1>3 DEF NumbersArePositive
<1> QED
  BY <1>1, <1>2, <1>4, ApiTypeCorrect, FieldsAsked, PTL DEF Spec

=============================================================================
