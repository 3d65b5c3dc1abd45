-------------------------- MODULE JobListingProofs --------------------------
(***************************************************************************)
(* Proofs about the pages of GET /jobs, for any number of jobs, any page   *)
(* sizes and any texts.                                                    *)
(***************************************************************************)
EXTENDS JobListing, FiniteSetTheorems, TLAPS

-----------------------------------------------------------------------------
(* The invariant *)

\* The client's jobs that were committed, deleted ones included.
Public == {j \in Jobs \ Strangers : row[j] \in {"live", "deleted"}}

\* What Ordered says of them; unlike Ordered it never becomes true again.
PublicOrdered == \A i, j \in Public : i # j => stamp[i] # stamp[j]

\* The list before a job, and the job's place in it.
Newer(j) == {i \in Mine : stamp[i] > stamp[j]}
Rank     == [j \in Jobs |-> Cardinality(Newer(j))]

\* The rows that the next page of the walk passes over.
Passed == (page - 1) * size

\* Jobs that the walk will not come to any more, and those it will show again.
Missed   == {j \in kept : seen[j] = 0 /\ Rank[j] < Passed}
Returned == {j \in Mine : seen[j] > 0 /\ Rank[j] >= Passed}
Repeats  == UNION {{j} \X (2..seen[j]) : j \in Jobs}

\* A walk comes no further than the list, so its offset does not wrap, and
\* shows and remembers only what was in the list.
WalkIsSound ==
  /\ page > 0 => size \in WalkSizes /\ Passed <= Cardinality(Jobs)
  /\ page > 0 => kept \subseteq Mine
  /\ \A j \in Jobs : seen[j] > 0 => j \in Public
  /\ IsFiniteSet(Repeats)

\* A deletion moves at most one job over the boundary of the next page ...
DeletionsCount ==
  PublicOrdered =>
    /\ page > 0 => Cardinality(Missed) <= removed
    /\ page = 0 => Cardinality({j \in kept : seen[j] = 0}) <= removed

\* ... and a new job at most one the other way.
CreationsCount ==
  PublicOrdered =>
    /\ page > 0 => Cardinality(Repeats) + Cardinality(Returned) <= added
    /\ page = 0 => Cardinality(Repeats) <= added

\* The last answer is one the list, which has not changed since, allows.
ProbeFits ==
  probe # NoProbe =>
    LET s == PageSize(probe.size)
        o == Offset(PageNumber(probe.page), s)
    IN \/ probe.failed
       \/ o < 0 /\ probe.status = "500"
       \/ o >= 0 /\ probe.status = "200" /\ IsPage(probe.answer, s, o)

ListingInv ==
  TypeOK /\ WalkIsSound /\ DeletionsCount /\ CreationsCount /\ ProbeFits

-----------------------------------------------------------------------------
(* Type correctness *)

\* No walk, no answer: nothing is missed or repeated.
LEMMA ListingInit == Init => ListingInv
<1> SUFFICES ASSUME Init PROVE ListingInv
  OBVIOUS
<1> USE ListingAssumption DEF Init
<1>1. TypeOK
  BY DEF TypeOK, RowState
<1>2. Repeats = {}
  <2>1. \A j \in Jobs : {j} \X (2..seen[j]) = {}
    OBVIOUS
  <2> QED
    BY <2>1 DEF Repeats
<1>3. IsFiniteSet(Repeats) /\ Cardinality(Repeats) = 0
  BY <1>2, FS_EmptySet
<1>4. Cardinality({j \in kept : seen[j] = 0}) = 0
  <2>1. {j \in kept : seen[j] = 0} = {}
    OBVIOUS
  <2> QED
    BY <2>1, FS_EmptySet
<1>5. WalkIsSound /\ ProbeFits
  BY <1>3 DEF WalkIsSound, ProbeFits
<1>6. DeletionsCount /\ CreationsCount
  BY <1>3, <1>4 DEF DeletionsCount, CreationsCount
<1> QED
  BY <1>1, <1>5, <1>6 DEF ListingInv

\* Every step, one action at a time, keeps the types.
LEMMA TypeStep ==
  ASSUME TypeOK, [Next]_vars
  PROVE  TypeOK'
<1> USE DEF TypeOK, RowState, listVars, walkVars
<1>1. CASE UNCHANGED vars
  BY <1>1 DEF vars
<1>2. CASE Tick
  BY <1>2 DEF Tick
<1>3. ASSUME NEW j \in Jobs \ Strangers,
             BeginJob(j) \/ CommitJob(j) \/ RollbackJob(j) \/ DeleteJob(j)
      PROVE  TypeOK'
  <2>1. CASE BeginJob(j)
    BY <2>1 DEF BeginJob
  <2>2. CASE CommitJob(j)
    BY <2>2 DEF CommitJob
  <2>3. CASE RollbackJob(j)
    BY <2>3 DEF RollbackJob
  <2>4. CASE DeleteJob(j)
    BY <2>4 DEF DeleteJob
  <2> QED
    BY <1>3, <2>1, <2>2, <2>3, <2>4
<1>4. ASSUME NEW pt \in Texts, NEW st \in Texts, Probe(pt, st)
      PROVE  TypeOK'
  <2>1. Mine \subseteq Jobs \ Strangers
    BY DEF Mine
  <2>2. \E u \in {"200", "500"}, f \in BOOLEAN, P \in SUBSET Mine :
          probe' = [page |-> pt, size |-> st, status |-> u, failed |-> f,
                    answer |-> P]
    BY <1>4 DEF Probe
  <2>3. probe' \in Probes
    BY <2>1, <2>2 DEF Probes
  <2>4. UNCHANGED <<listVars, walkVars>>
    BY <1>4 DEF Probe
  <2> QED
    BY <2>3, <2>4
<1>5. ASSUME NEW s \in WalkSizes, StartWalk(s)
      PROVE  TypeOK'
  BY <1>5, ListingAssumption DEF StartWalk, Mine
<1>6. CASE WalkOn
  BY <1>6 DEF WalkOn
<1> QED
  BY <1>1, <1>2, <1>3, <1>4, <1>5, <1>6 DEF Next

-----------------------------------------------------------------------------
(* Ranks and pages *)

\* The list and what is cut out of it are finite.
LEMMA MineIsFinite ==
  /\ IsFiniteSet(Mine) /\ Cardinality(Mine) \in Nat
  /\ Cardinality(Mine) <= Cardinality(Jobs) /\ Cardinality(Jobs) \in Nat
  /\ \A S \in SUBSET Mine : /\ IsFiniteSet(S) /\ Cardinality(S) \in Nat
                            /\ Cardinality(S) <= Cardinality(Mine)
<1>1. IsFiniteSet(Jobs) /\ Mine \in SUBSET Jobs
  BY ListingAssumption DEF Mine
<1>2. IsFiniteSet(Mine) /\ Cardinality(Mine) <= Cardinality(Jobs)
  BY <1>1, FS_Subset
<1>3. \A S \in SUBSET Mine : IsFiniteSet(S) /\ Cardinality(S) <= Cardinality(Mine)
  BY <1>2, FS_Subset
<1> QED
  BY <1>1, <1>2, <1>3, FS_CardinalityType

\* A rank is a number.
LEMMA RankType ==
  ASSUME NEW j \in Mine
  PROVE  /\ Newer(j) \in SUBSET Mine /\ IsFiniteSet(Newer(j))
         /\ Rank[j] = Cardinality(Newer(j)) /\ Rank[j] \in Nat
<1>1. Newer(j) \in SUBSET Mine
  BY DEF Newer
<1>2. Rank[j] = Cardinality(Newer(j))
  BY DEF Rank, Mine
<1> QED
  BY <1>1, <1>2, MineIsFinite

\* The rank of a listed job is that of a place in the list.
LEMMA RankInList ==
  ASSUME TypeOK, NEW j \in Mine
  PROVE  Rank[j] < Cardinality(Mine)
<1>1. j \notin Newer(j) /\ Newer(j) \cup {j} \in SUBSET Mine
  BY DEF Newer, TypeOK, Mine
<1>2. Cardinality(Newer(j) \cup {j}) = Rank[j] + 1
  BY <1>1, RankType, FS_AddElement
<1> QED
  BY <1>1, <1>2, MineIsFinite, RankType

\* Two jobs have two places.
LEMMA RanksDiffer ==
  ASSUME TypeOK, PublicOrdered, NEW i \in Mine, NEW j \in Mine, i # j
  PROVE  Rank[i] # Rank[j]
<1>1. ASSUME NEW a \in Mine, NEW b \in Mine, stamp[a] < stamp[b]
      PROVE  Rank[b] < Rank[a]
  <2>1. /\ b \notin Newer(b)
        /\ Newer(b) \cup {b} \in SUBSET Newer(a)
    BY <1>1 DEF Newer, TypeOK, Mine
  <2>2. Cardinality(Newer(b) \cup {b}) = Rank[b] + 1
    BY <2>1, RankType, FS_AddElement
  <2>3. Cardinality(Newer(b) \cup {b}) <= Rank[a]
    BY <2>1, RankType, FS_Subset
  <2> QED
    BY <2>2, <2>3, RankType
<1>2. stamp[i] # stamp[j] /\ stamp[i] \in Nat /\ stamp[j] \in Nat
  BY DEF PublicOrdered, Public, Mine, TypeOK
<1>3. stamp[i] < stamp[j] \/ stamp[j] < stamp[i]
  BY <1>2
<1>4. Rank[i] \in Nat /\ Rank[j] \in Nat
  BY RankType
<1> QED
  BY <1>1, <1>3, <1>4

\* LIMIT and OFFSET cut ranks out of an ordered list.
LEMMA PageRanks ==
  ASSUME TypeOK, PublicOrdered, NEW P \in SUBSET Mine,
         NEW limit \in Nat, NEW offset \in Nat, IsPage(P, limit, offset)
  PROVE  P = {j \in Mine : offset <= Rank[j] /\ Rank[j] < offset + limit}
<1>1. PICK B \in SUBSET Mine :
        LET rest == Mine \ B IN
        /\ Cardinality(B) = Smaller(offset, Cardinality(Mine))
        /\ \A b \in B, j \in rest : stamp[b] >= stamp[j]
        /\ P \subseteq rest
        /\ Cardinality(P) = Smaller(limit, Cardinality(rest))
        /\ \A p \in P, j \in rest \ P : stamp[p] >= stamp[j]
  BY DEF IsPage
<1> DEFINE rest == Mine \ B
           nB == Cardinality(B)
           nP == Cardinality(P)
           nR == Cardinality(rest)
           nM == Cardinality(Mine)
<1>2. /\ IsFiniteSet(B) /\ IsFiniteSet(P) /\ IsFiniteSet(rest)
      /\ nB \in Nat /\ nP \in Nat /\ nR \in Nat /\ nM \in Nat
  BY MineIsFinite
<1>3. nR = nM - nB
  <2>1. Mine \cap B = B
    OBVIOUS
  <2> QED
    BY <2>1, MineIsFinite, FS_Difference
<1>4. rest # {} => nB = offset
  <2>1. rest # {} => nR # 0
    BY <1>2, FS_EmptySet
  <2> QED
    BY <1>1, <1>2, <1>3, <2>1 DEF Smaller
<1>5. rest \ P # {} => nP = limit
  <2>1. nP = nR => P = rest
    BY <1>1, <1>2, FS_Subset
  <2> QED
    BY <1>1, <1>2, <2>1 DEF Smaller
<1>6. \A i, j \in Mine : i # j /\ stamp[i] >= stamp[j] => stamp[i] > stamp[j]
  BY DEF PublicOrdered, Public, Mine, TypeOK
<1>7. nB <= offset /\ nP <= limit
  BY <1>1, <1>2 DEF Smaller
<1>8. IsFiniteSet(B \cup P) /\ Cardinality(B \cup P) = nB + nP
  <2>1. B \cap P = {}
    BY <1>1
  <2>2. Cardinality(B \cap P) = 0
    BY <2>1, FS_EmptySet
  <2>3. /\ IsFiniteSet(B \cup P)
        /\ Cardinality(B \cup P) = nB + nP - Cardinality(B \cap P)
    BY <1>2, FS_Union
  <2> QED
    BY <1>2, <2>2, <2>3
<1> HIDE DEF nB, nP, nR, nM
<1>9. ASSUME NEW b \in B
      PROVE  Rank[b] < offset
  <2>1. Newer(b) \in SUBSET (B \ {b})
    BY <1>1 DEF Newer, TypeOK, Mine
  <2>2. IsFiniteSet(B \ {b}) /\ Cardinality(B \ {b}) = nB - 1
    BY <1>2, FS_RemoveElement DEF nB
  <2>3. Rank[b] <= nB - 1
    BY <2>1, <2>2, RankType, FS_Subset
  <2> QED
    BY <1>2, <1>7, <2>3, RankType
<1>10. ASSUME NEW p \in P
       PROVE  offset <= Rank[p] /\ Rank[p] < offset + limit
  <2>1. p \in rest
    BY <1>1
  <2>2. B \in SUBSET Newer(p)
    BY <1>1, <1>6, <2>1 DEF Newer
  <2>3. nB <= Rank[p]
    BY <2>2, RankType, FS_Subset DEF nB
  <2>4. Newer(p) \in SUBSET ((B \cup P) \ {p})
    BY <1>1, <2>1 DEF Newer, TypeOK, Mine
  <2>5. /\ IsFiniteSet((B \cup P) \ {p})
        /\ Cardinality((B \cup P) \ {p}) = nB + nP - 1
    <3>1. p \in B \cup P
      OBVIOUS
    <3>2. /\ IsFiniteSet((B \cup P) \ {p})
          /\ Cardinality((B \cup P) \ {p}) = Cardinality(B \cup P) - 1
      BY <1>8, <3>1, FS_RemoveElement
    <3> QED
      BY <1>2, <1>8, <3>2
  <2>6. Rank[p] <= nB + nP - 1
    BY <2>4, <2>5, RankType, FS_Subset
  <2>7. nB = offset
    BY <1>4, <2>1
  <2> QED
    BY <1>2, <1>7, <2>3, <2>6, <2>7, RankType
<1>11. ASSUME NEW j \in rest \ P
       PROVE  Rank[j] >= offset + limit
  <2>1. (B \cup P) \in SUBSET Newer(j)
    BY <1>1, <1>6 DEF Newer
  <2>2. nB + nP <= Rank[j]
    BY <1>8, <2>1, RankType, FS_Subset
  <2> QED
    BY <1>4, <1>5, <2>2
<1>12. ASSUME NEW j \in Mine
       PROVE  j \in P <=> offset <= Rank[j] /\ Rank[j] < offset + limit
  <2>1. j \in B \/ j \in P \/ j \in rest \ P
    OBVIOUS
  <2>2. Rank[j] \in Nat
    BY RankType
  <2>3. CASE j \in B
    BY <1>1, <1>9, <2>2, <2>3
  <2>4. CASE j \in P
    BY <1>10, <2>4
  <2>5. CASE j \in rest \ P
    BY <1>11, <2>2, <2>5
  <2> QED
    BY <2>1, <2>3, <2>4, <2>5
<1> QED
  BY <1>12

-----------------------------------------------------------------------------
(* Machine integers *)

\* Only what is no int changes when it is stored as one.
LEMMA IntsDoNotWrap ==
  ASSUME NEW n \in Nat, n < HalfWord
  PROVE  Wrapped(n) = n
<1> DEFINE m == 2 * HalfWord
           k == n + HalfWord
<1>0. HalfWord \in Nat \ {0}
  BY ListingAssumption
<1>1. m \in Nat /\ m > 0 /\ k \in 0..(m - 1) /\ HalfWord \in Nat
  BY <1>0
<1>2. k % m = k
  <2> HIDE DEF m, k
  <2> QED
    BY <1>1
<1> QED
  BY <1>1, <1>2 DEF Wrapped

\* A text that stands for an int is read as what it asks for; a page size that
\* is none is read as the largest int.
LEMMA TextsAreRead ==
  ASSUME NEW t \in Texts
  PROVE  /\ Asked(t, 1) \in Nat \ {0} /\ Asked(t, DefaultSize) \in Nat \ {0}
         /\ Asked(t, 1) < HalfWord => PageNumber(t) = Asked(t, 1)
         /\ PageSize(t) = Smaller(HalfWord - 1, Asked(t, DefaultSize))
<1>1. /\ t \in Int \/ t = NoNumber
      /\ HalfWord \in Nat \ {0} /\ DefaultSize \in Nat \ {0}
      /\ DefaultSize < HalfWord
  BY ListingAssumption
<1>2. CASE t = NoNumber
  BY <1>1, <1>2 DEF Asked, PageNumber, PageSize, Atoi, Smaller
<1>3. CASE t # NoNumber
  <2>1. t \in Int /\ HalfWord > 1
    BY <1>1, <1>3
  <2>2. Atoi(t) = IF t >= HalfWord THEN HalfWord - 1
                  ELSE IF t < -HalfWord THEN -HalfWord ELSE t
    BY <1>3 DEF Atoi
  <2>3. \A d \in Nat \ {0} : Asked(t, d) = IF t >= 1 THEN t ELSE d
    BY <1>3 DEF Asked
  <2>4. /\ Asked(t, 1) \in Nat \ {0} /\ Asked(t, DefaultSize) \in Nat \ {0}
        /\ Asked(t, 1) < HalfWord => PageNumber(t) = Asked(t, 1)
    BY <1>1, <2>1, <2>2, <2>3 DEF PageNumber
  <2>5. PageSize(t) = Smaller(HalfWord - 1, Asked(t, DefaultSize))
    BY <1>1, <2>1, <2>2, <2>3 DEF PageSize, Smaller
  <2> QED
    BY <2>4, <2>5
<1> QED
  BY <1>2, <1>3

\* The answer to a page whose offset is an int.
LEMMA FitIsServed ==
  ASSUME TypeOK, ProbeFits
  PROVE  AskedPageIsServed
<1> DEFINE p == Asked(probe.page, 1)
           s == Asked(probe.size, DefaultSize)
<1> SUFFICES ASSUME Ordered, probe # NoProbe,
                    s <= MaxPageSize, p < HalfWord, (p - 1) * s < HalfWord,
                    ~ probe.failed
             PROVE  /\ probe.status = "200"
                    /\ probe.answer =
                         {j \in Mine : (p - 1) * s <= Rank[j] /\ Rank[j] < p * s}
  BY DEF AskedPageIsServed, Rank, Newer, Mine
<1> DEFINE m == PageSize(probe.size)
           o == Offset(PageNumber(probe.page), m)
<1>1. /\ probe.page \in Texts /\ probe.size \in Texts
      /\ probe.answer \in SUBSET (Jobs \ Strangers)
  BY DEF TypeOK, Probes
<1>2. HalfWord \in Nat \ {0}
  BY ListingAssumption
<1>3. /\ p \in Nat \ {0} /\ s \in Nat \ {0}
      /\ PageNumber(probe.page) = p /\ m = Smaller(HalfWord - 1, s)
  BY <1>1, TextsAreRead
<1>4. PublicOrdered
  BY DEF Ordered, PublicOrdered, Public
<1>5. m = s \/ (p = 1 /\ m = HalfWord - 1 /\ s >= HalfWord)
  <2>1. p # 1 => s < HalfWord
    <3>1. ASSUME p # 1 PROVE (p - 1) * s >= s
      <4> HIDE DEF p, s
      <4>1. PICK q \in Nat : p - 1 = q + 1
        <5>1. p - 2 \in Nat /\ p - 1 = (p - 2) + 1
          BY <1>3, <3>1
        <5> QED
          BY <5>1
      <4>2. (q + 1) * s = q * s + s /\ q * s >= 0
        BY <1>3, <4>1
      <4> QED
        BY <1>3, <4>1, <4>2
    <3> HIDE DEF p, s
    <3> QED
      BY <1>2, <1>3, <3>1
  <2> HIDE DEF p, s
  <2> QED
    BY <1>2, <1>3, <2>1 DEF Smaller
<1>6. m \in Nat /\ (p - 1) * m = (p - 1) * s /\ (p - 1) * s \in Nat
  <2> HIDE DEF p, s, m
  <2>1. m \in Nat /\ (p - 1) * m = (p - 1) * s
    BY <1>2, <1>3, <1>5
  <2>2. p - 1 \in Nat
    BY <1>3
  <2> QED
    BY <1>3, <2>1, <2>2
<1>7. o = (p - 1) * s /\ o \in Nat
  BY <1>3, <1>6, IntsDoNotWrap DEF Offset
<1>8. p * s = o + s
  <2> HIDE DEF p, s, o, m
  <2>1. PICK q \in Nat : p = q + 1
    BY <1>3
  <2>2. (q + 1) * s = q * s + s
    BY <1>3, <2>1
  <2> QED
    BY <1>3, <1>7, <2>1, <2>2
<1>9. probe.status = "200" /\ IsPage(probe.answer, m, o)
  BY <1>7 DEF ProbeFits
<1>10. probe.answer \in SUBSET Mine
  BY <1>9 DEF IsPage
<1>11. probe.answer = {j \in Mine : o <= Rank[j] /\ Rank[j] < o + m}
  <2>1. m \in Nat /\ o \in Nat /\ IsPage(probe.answer, m, o)
    BY <1>6, <1>7, <1>9
  <2> HIDE DEF m, o
  <2> QED
    BY <1>4, <1>10, <2>1, PageRanks, Zenon
<1>12. ASSUME NEW j \in Mine
       PROVE  Rank[j] < o + m <=> Rank[j] < o + s
  <2>1. Rank[j] \in Nat /\ Rank[j] < HalfWord - 1
    BY <1>2, RankType, RankInList, MineIsFinite, ListingAssumption
  <2> HIDE DEF p, s, m, o
  <2> QED
    BY <1>2, <1>3, <1>5, <1>6, <1>7, <2>1
<1> QED
  BY <1>7, <1>8, <1>9, <1>11, <1>12

-----------------------------------------------------------------------------
(* The list changes under the walk *)

\* One job more than S at most.
LEMMA OneMore ==
  ASSUME NEW S, IsFiniteSet(S), NEW T,
         \A i, k \in T \ S : i = k
  PROVE  IsFiniteSet(T) /\ Cardinality(T) <= Cardinality(S) + 1
<1>0. Cardinality(S) \in Nat
  BY FS_CardinalityType
<1>1. CASE T \subseteq S
  BY <1>0, <1>1, FS_Subset, FS_CardinalityType
<1>2. CASE ~(T \subseteq S)
  <2>1. PICK k \in T \ S : TRUE
    BY <1>2
  <2>2. T \in SUBSET (S \cup {k})
    BY <2>1
  <2>3. /\ IsFiniteSet(S \cup {k})
        /\ Cardinality(S \cup {k}) = Cardinality(S) + 1
    BY <2>1, FS_AddElement
  <2> QED
    BY <2>2, <2>3, FS_Subset
<1> QED
  BY <1>1, <1>2

\* What is committed is never taken back, and keeps its created_at.
LEMMA OrderIsOld ==
  ASSUME TypeOK, [Next]_vars, PublicOrdered'
  PROVE  PublicOrdered
<1> USE DEF TypeOK, Public, listVars
<1>1. /\ Public \subseteq Public'
      /\ \A j \in Public : stamp'[j] = stamp[j]
  <2>1. CASE UNCHANGED listVars
    BY <2>1
  <2>2. ASSUME NEW j \in Jobs \ Strangers,
               BeginJob(j) \/ CommitJob(j) \/ RollbackJob(j) \/ DeleteJob(j)
        PROVE  /\ Public \subseteq Public'
               /\ \A i \in Public : stamp'[i] = stamp[i]
    BY <2>2 DEF BeginJob, CommitJob, RollbackJob, DeleteJob
  <2> QED
    BY <2>1, <2>2 DEF Next, vars, Tick, Probe, StartWalk, WalkOn
<1> HIDE DEF Public
<1> QED
  BY <1>1 DEF PublicOrdered

\* Steps that change neither the list nor the walk.
LEMMA QuietStep ==
  ASSUME TypeOK, WalkIsSound, DeletionsCount, CreationsCount,
         PublicOrdered' => PublicOrdered,
         Mine' = Mine, Public' = Public,
         \A j \in Mine : stamp'[j] = stamp[j],
         UNCHANGED walkVars
  PROVE  WalkIsSound' /\ DeletionsCount' /\ CreationsCount'
<1> USE DEF walkVars
<1>1. \A j \in Mine : Rank'[j] = Rank[j]
  <2>1. \A j \in Mine : {i \in Mine' : stamp'[i] > stamp'[j]} =
                         {i \in Mine : stamp[i] > stamp[j]}
    OBVIOUS
  <2> QED
    BY <2>1 DEF Rank, Newer, Mine
<1>2. Passed' = Passed /\ Repeats' = Repeats
  BY DEF Passed, Repeats
<1>3. WalkIsSound'
  BY <1>2 DEF WalkIsSound
<1>4. DeletionsCount'
  <2>1. page > 0 => Missed' = Missed
    BY <1>1, <1>2 DEF Missed, WalkIsSound
  <2> QED
    BY <2>1 DEF DeletionsCount
<1>5. CreationsCount'
  <2>1. Returned' = Returned
    BY <1>1, <1>2 DEF Returned
  <2> QED
    BY <1>2, <2>1 DEF CreationsCount
<1> QED
  BY <1>3, <1>4, <1>5

\* A new job pushes the older ones one place back.
LEMMA CommitStep ==
  ASSUME TypeOK, TypeOK', WalkIsSound, DeletionsCount, CreationsCount,
         PublicOrdered' => PublicOrdered,
         NEW j \in Jobs \ Strangers, CommitJob(j)
  PROVE  WalkIsSound' /\ DeletionsCount' /\ CreationsCount'
<1>1. /\ UNCHANGED <<stamp, page, size, seen, kept, removed>>
      /\ added' = IF page > 0 THEN added + 1 ELSE added
      /\ j \notin Mine /\ j \notin Public
      /\ Mine' = Mine \cup {j} /\ Public \subseteq Public'
  BY DEF CommitJob, Mine, Public, TypeOK
<1>2. ASSUME NEW i \in Mine
      PROVE  Rank'[i] = Rank[i] \/ Rank'[i] = Rank[i] + 1
  <2>1. \/ Newer(i)' = Newer(i)
        \/ Newer(i)' = Newer(i) \cup {j}
    BY <1>1 DEF Newer
  <2>2. j \notin Newer(i)
    BY <1>1 DEF Newer
  <2>3. Cardinality(Newer(i) \cup {j}) = Rank[i] + 1
    BY <2>2, RankType, FS_AddElement
  <2>4. Rank'[i] = Cardinality(Newer(i)')
    BY DEF Rank, Mine
  <2> QED
    BY <2>1, <2>3, <2>4, RankType
<1>3. Passed' = Passed /\ Repeats' = Repeats
  BY <1>1 DEF Passed, Repeats
<1>4. WalkIsSound'
  BY <1>1, <1>3 DEF WalkIsSound
<1>5. page > 0 => Passed \in Int /\ removed \in Nat /\ added \in Nat
  BY ListingAssumption DEF WalkIsSound, Passed, TypeOK
<1>6. DeletionsCount'
  <2>1. page > 0 => Missed' \subseteq Missed
    BY <1>1, <1>2, <1>3, <1>5, RankType DEF Missed, WalkIsSound
  <2>2. page > 0 => IsFiniteSet(Missed) /\ Cardinality(Missed) \in Nat
    BY MineIsFinite DEF Missed, WalkIsSound
  <2>3. page > 0 => /\ Cardinality(Missed') <= Cardinality(Missed)
                    /\ Cardinality(Missed') \in Nat
    BY <2>1, <2>2, FS_Subset, FS_CardinalityType
  <2> QED
    BY <1>1, <1>5, <2>2, <2>3 DEF DeletionsCount
<1>7. CreationsCount'
  <2>1. IsFiniteSet(Returned) /\ Cardinality(Returned) \in Nat
    BY MineIsFinite DEF Returned
  <2>2. ASSUME page > 0, PublicOrdered
        PROVE  Cardinality(Returned') <= Cardinality(Returned) + 1
    <3>1. ASSUME NEW i \in Returned' \ Returned
          PROVE  i \in Mine /\ Rank[i] = Passed - 1
      <4>1. i \in Mine' /\ seen[i] > 0 /\ Rank'[i] >= Passed
        BY <1>1, <1>3, <3>1 DEF Returned
      <4>2. i \in Mine
        BY <1>1, <4>1 DEF WalkIsSound
      <4>3. Rank[i] < Passed /\ Rank[i] \in Nat
        BY <1>5, <2>2, <3>1, <4>1, <4>2, RankType DEF Returned
      <4> QED
        BY <1>2, <1>5, <2>2, <4>1, <4>2, <4>3
    <3>2. \A i, k \in Returned' \ Returned : i = k
      BY <2>2, <3>1, RanksDiffer
    <3> QED
      BY <2>1, <3>2, OneMore
  <2>3. IsFiniteSet(Returned') /\ Cardinality(Returned') \in Nat
    BY <1>1, MineIsFinite, FS_AddElement, FS_Subset, FS_CardinalityType
       DEF Returned
  <2>4. Cardinality(Repeats) \in Nat
    BY FS_CardinalityType DEF WalkIsSound
  <2> QED
    BY <1>1, <1>3, <1>5, <2>1, <2>2, <2>3, <2>4 DEF CreationsCount, TypeOK
<1> QED
  BY <1>4, <1>6, <1>7

\* A deleted job lets the older ones move up by one place.
LEMMA DeleteStep ==
  ASSUME TypeOK, TypeOK', WalkIsSound, DeletionsCount, CreationsCount,
         PublicOrdered' => PublicOrdered,
         NEW j \in Jobs \ Strangers, DeleteJob(j)
  PROVE  WalkIsSound' /\ DeletionsCount' /\ CreationsCount'
<1>1. /\ UNCHANGED <<stamp, page, size, seen, added>>
      /\ kept' = IF page > 0 THEN kept \ {j} ELSE kept
      /\ removed' = IF page > 0 THEN removed + 1 ELSE removed
      /\ j \in Mine /\ Mine' = Mine \ {j} /\ Public' = Public
  BY DEF DeleteJob, Mine, Public, TypeOK
<1>2. ASSUME NEW i \in Mine
      PROVE  Rank'[i] = Rank[i] \/ Rank'[i] = Rank[i] - 1
  <2>1. Newer(i)' = Newer(i) \ {j}
    BY <1>1 DEF Newer
  <2>2. \/ Cardinality(Newer(i) \ {j}) = Rank[i]
        \/ Cardinality(Newer(i) \ {j}) = Rank[i] - 1
    BY RankType, FS_RemoveElement
  <2>3. Rank'[i] = Cardinality(Newer(i)')
    BY DEF Rank, Mine
  <2> QED
    BY <2>1, <2>2, <2>3
<1>3. Passed' = Passed /\ Repeats' = Repeats
  BY <1>1 DEF Passed, Repeats
<1>4. WalkIsSound'
  BY <1>1, <1>3 DEF WalkIsSound
<1>5. page > 0 => Passed \in Int /\ removed \in Nat /\ added \in Nat
  BY ListingAssumption DEF WalkIsSound, Passed, TypeOK
<1>6. DeletionsCount'
  <2>1. page > 0 => IsFiniteSet(Missed) /\ Cardinality(Missed) \in Nat
    BY MineIsFinite DEF Missed, WalkIsSound
  <2>2. ASSUME page > 0, PublicOrdered
        PROVE  /\ Cardinality(Missed') <= Cardinality(Missed) + 1
               /\ Cardinality(Missed') \in Nat
    <3>1. ASSUME NEW i \in Missed' \ Missed
          PROVE  i \in Mine /\ Rank[i] = Passed
      <4>1. i \in kept /\ seen[i] = 0 /\ Rank'[i] < Passed
        BY <1>1, <1>3, <2>2, <3>1 DEF Missed
      <4>2. i \in Mine
        BY <2>2, <4>1 DEF WalkIsSound
      <4>3. Rank[i] >= Passed /\ Rank[i] \in Nat
        BY <1>5, <2>2, <3>1, <4>1, <4>2, RankType DEF Missed
      <4> QED
        BY <1>2, <1>5, <2>2, <4>1, <4>2, <4>3
    <3>2. \A i, k \in Missed' \ Missed : i = k
      BY <2>2, <3>1, RanksDiffer
    <3> QED
      BY <2>1, <2>2, <3>2, OneMore, FS_CardinalityType
  <2> QED
    BY <1>1, <1>5, <2>1, <2>2 DEF DeletionsCount
<1>7. CreationsCount'
  <2>1. IsFiniteSet(Returned) /\ Cardinality(Returned) \in Nat
    BY MineIsFinite DEF Returned
  <2>2. page > 0 => Returned' \subseteq Returned
    BY <1>1, <1>2, <1>3, <1>5, RankType DEF Returned
  <2>3. page > 0 => /\ Cardinality(Returned') <= Cardinality(Returned)
                    /\ Cardinality(Returned') \in Nat
    BY <2>1, <2>2, FS_Subset, FS_CardinalityType
  <2>4. Cardinality(Repeats) \in Nat
    BY FS_CardinalityType DEF WalkIsSound
  <2> QED
    BY <1>1, <1>3, <1>5, <2>1, <2>3, <2>4 DEF CreationsCount, TypeOK
<1> QED
  BY <1>4, <1>6, <1>7

-----------------------------------------------------------------------------
(* The walk goes on *)

\* A walk begins before the first job, with nothing shown.
LEMMA StartWalkStep ==
  ASSUME TypeOK, NEW s \in WalkSizes, StartWalk(s)
  PROVE  WalkIsSound' /\ DeletionsCount' /\ CreationsCount'
<1>1. /\ page' = 1 /\ size' = s /\ seen' = [j \in Jobs |-> 0]
      /\ kept' = Mine /\ removed' = 0 /\ added' = 0
      /\ UNCHANGED <<row, stamp>>
  BY DEF StartWalk, listVars
<1>2. Mine' = Mine /\ Rank' = Rank /\ Public' = Public
  BY <1>1 DEF Mine, Rank, Newer, Public
<1>3. Passed' = 0
  BY <1>1, ListingAssumption DEF Passed
<1>4. Repeats' = {}
  <2>1. \A j \in Jobs : {j} \X (2..seen'[j]) = {}
    BY <1>1
  <2> QED
    BY <2>1 DEF Repeats
<1>5. Missed' = {}
  BY <1>1, <1>2, <1>3, RankType DEF Missed
<1>6. Returned' = {}
  BY <1>1, <1>2 DEF Returned, Mine
<1>7. WalkIsSound'
  BY <1>1, <1>2, <1>3, <1>4, MineIsFinite, FS_EmptySet DEF WalkIsSound
<1>8. DeletionsCount' /\ CreationsCount'
  BY <1>1, <1>4, <1>5, <1>6, FS_EmptySet DEF DeletionsCount, CreationsCount
<1> QED
  BY <1>7, <1>8

\* A page is full if and only if the list reaches to its end.
LEMMA PageLength ==
  ASSUME NEW P \in SUBSET Mine, NEW limit \in Nat \ {0}, NEW offset \in Nat,
         IsPage(P, limit, offset)
  PROVE  Cardinality(P) < limit <=> Cardinality(Mine) < offset + limit
<1>1. PICK B \in SUBSET Mine :
        /\ Cardinality(B) = Smaller(offset, Cardinality(Mine))
        /\ Cardinality(P) = Smaller(limit, Cardinality(Mine \ B))
  BY DEF IsPage
<1>2. Cardinality(Mine \ B) = Cardinality(Mine) - Cardinality(B)
  <2>1. Mine \cap B = B
    OBVIOUS
  <2> QED
    BY <2>1, MineIsFinite, FS_Difference
<1>3. Cardinality(Mine) \in Nat /\ Cardinality(B) \in Nat
  BY MineIsFinite
<1> QED
  BY <1>1, <1>2, <1>3 DEF Smaller

\* Showing a page repeats those of its jobs that were shown before.
LEMMA RepeatsGrow ==
  ASSUME TypeOK, IsFiniteSet(Repeats), NEW P \in SUBSET Mine,
         seen' = [j \in Jobs |-> seen[j] + (IF j \in P THEN 1 ELSE 0)]
  PROVE  LET D == {j \in P : seen[j] > 0} IN
         /\ IsFiniteSet(Repeats')
         /\ Cardinality(Repeats') <= Cardinality(Repeats) + Cardinality(D)
<1> DEFINE D == {j \in P : seen[j] > 0}
           E == {<<j, seen[j] + 1>> : j \in D}
           f == [j \in D |-> <<j, seen[j] + 1>>]
<1>1. IsFiniteSet(D) /\ D \subseteq Jobs
  BY MineIsFinite DEF Mine
<1>2. IsFiniteSet(E) /\ Cardinality(E) <= Cardinality(D)
  <2>1. f \in Surjection(D, E)
    BY DEF Surjection
  <2> HIDE DEF f, E, D
  <2> QED
    BY <1>1, <2>1, FS_Surjection
<1>3. Repeats' \in SUBSET (Repeats \cup E)
  <2>1. ASSUME NEW r \in Repeats'
        PROVE  r \in Repeats \cup E
    <3>1. PICK j \in Jobs : r \in {j} \X (2..seen'[j])
      BY <2>1 DEF Repeats
    <3>2. PICK n \in 2..seen'[j] : r = <<j, n>>
      BY <3>1
    <3>3. seen[j] \in Nat /\ n \in Nat /\ n >= 2
          /\ (n <= seen[j] \/ (j \in P /\ n = seen[j] + 1))
      BY <3>2 DEF TypeOK
    <3>4. CASE n <= seen[j]
      <4>1. r \in {j} \X (2..seen[j])
        BY <3>2, <3>3, <3>4
      <4> QED
        BY <4>1 DEF Repeats
    <3>5. CASE j \in P /\ n = seen[j] + 1
      BY <3>2, <3>3, <3>5
    <3> QED
      BY <3>3, <3>4, <3>5
  <2> QED
    BY <2>1
<1> HIDE DEF D, E
<1>4. /\ IsFiniteSet(Repeats \cup E)
      /\ Cardinality(Repeats \cup E) =
           Cardinality(Repeats) + Cardinality(E) - Cardinality(Repeats \cap E)
  BY <1>2, FS_Union
<1>5. IsFiniteSet(Repeats \cap E)
  BY <1>2, FS_Intersection
<1>6. /\ IsFiniteSet(Repeats')
      /\ Cardinality(Repeats') <= Cardinality(Repeats \cup E)
  BY <1>3, <1>4, FS_Subset
<1>7. /\ Cardinality(Repeats) \in Nat /\ Cardinality(E) \in Nat
      /\ Cardinality(D) \in Nat /\ Cardinality(Repeats \cap E) \in Nat
      /\ Cardinality(Repeats') \in Nat
  BY <1>1, <1>2, <1>5, <1>6, FS_CardinalityType
<1>8. Cardinality(Repeats') <= Cardinality(Repeats) + Cardinality(D)
  BY <1>2, <1>4, <1>6, <1>7
<1> QED
  BY <1>6, <1>8 DEF D

\* A page is shown: its ranks are those between the old and the new offset.
LEMMA WalkOnStep ==
  ASSUME TypeOK, TypeOK', WalkIsSound, DeletionsCount, CreationsCount, WalkOn
  PROVE  WalkIsSound' /\ DeletionsCount' /\ CreationsCount'
<1>1. PICK P \in SUBSET Mine :
        /\ page > 0
        /\ IsPage(P, size, Offset(page, size))
        /\ seen' = [j \in Jobs |-> seen[j] + (IF j \in P THEN 1 ELSE 0)]
        /\ page' = IF Cardinality(P) < size THEN 0 ELSE page + 1
        /\ UNCHANGED <<row, stamp, size, kept, removed, added>>
  BY DEF WalkOn, listVars
<1>2. /\ size \in WalkSizes /\ size \in Nat \ {0}
      /\ page \in Nat \ {0} /\ removed \in Nat /\ added \in Nat
      /\ Cardinality(Jobs) \in Nat /\ Cardinality(Jobs) < HalfWord
      /\ HalfWord \in Nat
  BY <1>1, ListingAssumption, MineIsFinite DEF WalkIsSound, TypeOK
<1>3. Passed \in Nat /\ Passed <= Cardinality(Jobs)
  <2>1. page - 1 \in Nat
    BY <1>2
  <2>2. (page - 1) * size \in Nat
    BY <1>2, <2>1
  <2> QED
    BY <1>1, <2>2 DEF WalkIsSound, Passed
<1>4. IsPage(P, size, Passed)
  <2>1. Passed < HalfWord
    BY <1>2, <1>3
  <2>2. Wrapped(Passed) = Passed
    BY <1>3, <2>1, IntsDoNotWrap
  <2> QED
    BY <1>1, <2>2 DEF Offset, Passed
<1>5. Mine' = Mine /\ Rank' = Rank /\ Public' = Public
  BY <1>1 DEF Mine, Rank, Newer, Public
<1>6. page' > 0 => Passed' = Passed + size
  <2>1. PICK q \in Nat : page = q + 1
    <3>1. page - 1 \in Nat /\ page = (page - 1) + 1
      BY <1>2
    <3> QED
      BY <3>1
  <2>2. (q + 1) * size = q * size + size
    BY <1>2, <2>1
  <2>3. page - 1 = q /\ (page + 1) - 1 = q + 1
    BY <1>2, <2>1
  <2> QED
    BY <1>1, <1>2, <2>2, <2>3 DEF Passed
<1>7. Cardinality(P) < size <=> Cardinality(Mine) < Passed + size
  BY <1>2, <1>3, <1>4, PageLength
<1>8. Cardinality(Mine) \in Nat /\ Cardinality(P) \in Nat
  BY MineIsFinite
<1> DEFINE D == {j \in P : seen[j] > 0}
<1>9. /\ IsFiniteSet(Repeats')
      /\ Cardinality(Repeats') <= Cardinality(Repeats) + Cardinality(D)
  BY <1>1, RepeatsGrow DEF WalkIsSound
<1>10. \A j \in Jobs : /\ seen[j] \in Nat
                       /\ j \in P => seen'[j] = seen[j] + 1
                       /\ j \notin P => seen'[j] = seen[j]
  BY <1>1 DEF TypeOK
<1>11. \A j \in Mine : j \in Jobs /\ j \in Public /\ Rank[j] \in Nat
  BY RankType DEF Mine, Public
<1>12. kept \subseteq Mine
  BY <1>1 DEF WalkIsSound
<1>13. WalkIsSound'
  <2>1. page' > 0 => size' \in WalkSizes /\ Passed' <= Cardinality(Jobs)
    BY <1>1, <1>2, <1>3, <1>6, <1>7, <1>8, MineIsFinite
  <2>2. page' > 0 => kept' \subseteq Mine'
    BY <1>1, <1>5, <1>12
  <2>3. \A j \in Jobs : seen'[j] > 0 => j \in Public'
    BY <1>5, <1>10, <1>11 DEF WalkIsSound
  <2> QED
    BY <1>9, <2>1, <2>2, <2>3 DEF WalkIsSound
<1>14. ASSUME PublicOrdered
       PROVE  P = {j \in Mine : Passed <= Rank[j] /\ Rank[j] < Passed + size}
  BY <1>2, <1>3, <1>4, <1>14, PageRanks
<1>15. DeletionsCount'
  <2>1. SUFFICES ASSUME PublicOrdered'
                 PROVE  /\ page' > 0 => Cardinality(Missed') <= removed'
                        /\ page' = 0 => Cardinality({j \in kept' : seen'[j] = 0}) <= removed'
    BY DEF DeletionsCount
  <2>2. PublicOrdered
    BY <1>1, <1>5, <2>1 DEF PublicOrdered
  <2>3. /\ IsFiniteSet(Missed) /\ Cardinality(Missed) \in Nat
        /\ Cardinality(Missed) <= removed
    BY <1>1, <1>12, <2>2, MineIsFinite DEF Missed, DeletionsCount
  <2>4. \A T \in SUBSET Missed : Cardinality(T) <= removed
    <3>1. \A T \in SUBSET Missed : /\ Cardinality(T) <= Cardinality(Missed)
                                   /\ Cardinality(T) \in Nat
      BY <2>3, FS_Subset, FS_CardinalityType
    <3> QED
      BY <1>2, <2>3, <3>1
  <2>5. page' > 0 => Missed' \subseteq Missed
    BY <1>1, <1>2, <1>3, <1>5, <1>6, <1>10, <1>11, <1>12, <1>14, <2>2 DEF Missed
  <2>6. ASSUME page' = 0
        PROVE  {j \in kept' : seen'[j] = 0} \subseteq Missed
    <3>1. Cardinality(Mine) < Passed + size
      BY <1>1, <1>2, <1>7, <2>6
    <3>2. \A j \in Mine : Rank[j] < Passed + size
      BY <1>2, <1>3, <1>8, <1>11, <3>1, RankInList
    <3> QED
      BY <1>1, <1>3, <1>10, <1>11, <1>12, <1>14, <2>2, <3>2 DEF Missed
  <2> QED
    BY <1>1, <2>4, <2>5, <2>6
<1>16. CreationsCount'
  <2>1. SUFFICES ASSUME PublicOrdered'
                 PROVE  /\ page' > 0 => Cardinality(Repeats') + Cardinality(Returned') <= added'
                        /\ page' = 0 => Cardinality(Repeats') <= added'
    BY DEF CreationsCount
  <2>2. PublicOrdered
    BY <1>1, <1>5, <2>1 DEF PublicOrdered
  <2>3. /\ IsFiniteSet(Returned) /\ Cardinality(Returned) \in Nat
        /\ IsFiniteSet(Returned') /\ Cardinality(Returned') \in Nat
        /\ IsFiniteSet(D) /\ Cardinality(D) \in Nat
        /\ Cardinality(Repeats) \in Nat /\ Cardinality(Repeats') \in Nat
    <3>1. Returned \in SUBSET Mine /\ Returned' \in SUBSET Mine /\ D \in SUBSET Mine
      BY <1>5 DEF Returned
    <3> QED
      BY <1>9, <3>1, MineIsFinite, FS_CardinalityType DEF WalkIsSound
  <2>4. Cardinality(Repeats) + Cardinality(Returned) <= added
    BY <1>1, <2>2 DEF CreationsCount
  <2>5. D \in SUBSET Returned
    BY <1>14, <2>2 DEF Returned
  <2>6. Cardinality(D) <= Cardinality(Returned)
    BY <2>3, <2>5, FS_Subset
  <2>7. ASSUME page' > 0
        PROVE  Cardinality(D) + Cardinality(Returned') <= Cardinality(Returned)
    <3>1. \A j \in Returned' : j \notin P /\ j \in Returned
      BY <1>2, <1>3, <1>5, <1>6, <1>10, <1>11, <1>14, <2>2, <2>7 DEF Returned
    <3>2. D \cup Returned' \in SUBSET Returned /\ D \cap Returned' = {}
      BY <2>5, <3>1
    <3>3. Cardinality(D \cup Returned') <= Cardinality(Returned)
      BY <2>3, <3>2, FS_Subset
    <3>4. Cardinality(D \cap Returned') = 0
      BY <3>2, FS_EmptySet
    <3>5. Cardinality(D \cup Returned') =
            Cardinality(D) + Cardinality(Returned') - Cardinality(D \cap Returned')
      BY <2>3, FS_Union
    <3> HIDE DEF D
    <3> QED
      BY <2>3, <3>3, <3>4, <3>5
  <2> HIDE DEF D
  <2> QED
    BY <1>1, <1>2, <1>9, <2>3, <2>4, <2>6, <2>7
<1> QED
  BY <1>13, <1>15, <1>16

-----------------------------------------------------------------------------
(* The theorems *)

\* An answer is forgotten as soon as the list changes.
LEMMA ProbeStep ==
  ASSUME TypeOK, ProbeFits, [Next]_vars
  PROVE  ProbeFits'
<1>1. CASE probe' = NoProbe
  BY <1>1 DEF ProbeFits
<1>2. CASE probe' = probe /\ UNCHANGED listVars
  BY <1>2 DEF ProbeFits, IsPage, Mine, listVars
<1>3. ASSUME NEW pt \in Texts, NEW st \in Texts, Probe(pt, st)
      PROVE  ProbeFits'
  <2> DEFINE s == PageSize(st)
             o == Offset(PageNumber(pt), s)
  <2>1. UNCHANGED <<row, stamp>>
    BY <1>3 DEF Probe, listVars
  <2>2. /\ probe'.page = pt /\ probe'.size = st
        /\ \/ probe'.failed
           \/ o < 0 /\ probe'.status = "500"
           \/ o >= 0 /\ probe'.status = "200" /\ IsPage(probe'.answer, s, o)
    BY <1>3 DEF Probe
  <2> QED
    BY <2>1, <2>2 DEF ProbeFits, IsPage, Mine
<1> QED
  BY <1>1, <1>2, <1>3 DEF Next, Tick, BeginJob, CommitJob, RollbackJob,
     DeleteJob, StartWalk, WalkOn, vars

LEMMA ListingStep ==
  ASSUME ListingInv, [Next]_vars
  PROVE  ListingInv'
<1> USE DEF ListingInv
<1>1. TypeOK' /\ ProbeFits'
  BY TypeStep, ProbeStep
<1>2. PublicOrdered' => PublicOrdered
  BY OrderIsOld
<1>3. WalkIsSound' /\ DeletionsCount' /\ CreationsCount'
  <2>1. CASE \/ UNCHANGED vars \/ Tick
             \/ \E pt, st \in Texts : Probe(pt, st)
             \/ \E j \in Jobs \ Strangers : BeginJob(j) \/ RollbackJob(j)
    <3>1. UNCHANGED walkVars
      BY <2>1 DEF vars, Tick, Probe, BeginJob, RollbackJob
    <3>2. /\ Mine' = Mine /\ Public' = Public
          /\ \A j \in Mine : stamp'[j] = stamp[j]
      BY <2>1 DEF vars, listVars, Tick, Probe, BeginJob, RollbackJob, Mine,
         Public, TypeOK
    <3> QED
      BY <1>2, <3>1, <3>2, QuietStep
  <2>2. ASSUME NEW j \in Jobs \ Strangers, CommitJob(j) \/ DeleteJob(j)
        PROVE  WalkIsSound' /\ DeletionsCount' /\ CreationsCount'
    BY <1>1, <1>2, <2>2, CommitStep, DeleteStep
  <2>3. ASSUME NEW s \in WalkSizes, StartWalk(s)
        PROVE  WalkIsSound' /\ DeletionsCount' /\ CreationsCount'
    BY <2>3, StartWalkStep
  <2>4. CASE WalkOn
    BY <1>1, <2>4, WalkOnStep
  <2> QED
    BY <2>1, <2>2, <2>3, <2>4 DEF Next
<1> QED
  BY <1>1, <1>3

LEMMA ListingInvariance == Spec => []ListingInv
<1>1. ListingInv /\ [Next]_vars => ListingInv'
  BY ListingStep
<1> QED
  BY ListingInit, <1>1, PTL DEF Spec

\* Ordered says more than the induction needs.
LEMMA OrderedIsPublic == Ordered => PublicOrdered
  BY DEF Ordered, PublicOrdered, Public

\* Rows, counters of the walk and answers have the values their declarations
\* say; in particular no answer holds a job of another user.
THEOREM ListingTypeCorrect == Spec => []TypeOK
<1>1. ListingInv => TypeOK
  BY DEF ListingInv
<1> QED
  BY <1>1, ListingInvariance, PTL

\* A client that walks all pages of GET /jobs, of any size, misses at most as
\* many of its jobs as were deleted while it walked.
THEOREM WalkMissesLittle == Spec => []MissedAtMostDeleted
<1>1. ListingInv => MissedAtMostDeleted
  BY OrderedIsPublic DEF ListingInv, DeletionsCount, MissedAtMostDeleted
<1> QED
  BY <1>1, ListingInvariance, PTL

\* It is shown jobs again at most as often as jobs were committed meanwhile.
THEOREM WalkRepeatsLittle == Spec => []RepeatedAtMostCreated
<1>1. ASSUME ListingInv, Ordered
      PROVE  Cardinality(Repeats) <= added
  <2>1. page \in Nat /\ added \in Nat /\ Cardinality(Repeats) \in Nat
    BY <1>1, FS_CardinalityType DEF ListingInv, TypeOK, WalkIsSound
  <2>2. Cardinality(Returned) \in Nat
    BY MineIsFinite DEF Returned
  <2> QED
    BY <1>1, <2>1, <2>2, OrderedIsPublic DEF ListingInv, CreationsCount
<1>2. ListingInv => RepeatedAtMostCreated
  BY <1>1 DEF RepeatedAtMostCreated, Repeats
<1> QED
  BY <1>2, ListingInvariance, PTL

\* listJobsHandler answers any text for page and any page_size up to the
\* documented maximum with the jobs of the ranks they ask for, unless
\* (page - 1) * page_size is no int.
THEOREM PagesAreServed == Spec => []AskedPageIsServed
<1>1. ListingInv => AskedPageIsServed
  BY FitIsServed DEF ListingInv
<1> QED
  BY <1>1, ListingInvariance, PTL
=============================================================================
