----------------------------- MODULE JobListing -----------------------------
(***************************************************************************)
(* GET /jobs: listJobsHandler (handler/routes.go) and ListJobsByUser       *)
(* (db/store.go), for a client that walks the pages while jobs are created *)
(* and deleted.                                                            *)
(*                                                                         *)
(* The list is ordered by created_at, newest first, and a page is cut out  *)
(* of it by LIMIT and OFFSET, each time anew.  created_at is the time at   *)
(* which the creating transaction began, so a job may appear behind newer  *)
(* ones, and rows with equal times come in any order.  page and page_size  *)
(* are texts that strconv.Atoi reads; the offset is a product of machine   *)
(* integers.                                                               *)
(***************************************************************************)
EXTENDS Integers, FiniteSets

CONSTANTS
  Jobs,        \* ids
  Strangers,   \* SUBSET Jobs: jobs of other users, there all the time
  Texts,       \* integers, of any size, and NoNumber
  NoNumber,    \* a text that is no number, or no text at all
  DefaultSize, \* 20
  MaxPageSize, \* 100, the documented maximum; no code knows of it
  HalfWord,    \* 2^63: an int is between -HalfWord and HalfWord - 1
  WalkSizes,   \* values of page_size a walking client uses
  MaxClock,    \* bound: the last created_at
  NoProbe

\* A table has fewer than 2^63 rows.
ASSUME ListingAssumption ==
  /\ IsFiniteSet(Jobs) /\ Cardinality(Jobs) < HalfWord
  /\ Strangers \subseteq Jobs
  /\ Texts \subseteq Int \cup {NoNumber}
  /\ {DefaultSize, MaxPageSize, HalfWord} \cup WalkSizes \subseteq Nat \ {0}
  /\ DefaultSize <= MaxPageSize
  /\ \A n \in WalkSizes \cup {DefaultSize} : n < HalfWord
  /\ MaxClock \in Nat

VARIABLES
  row,      \* [Jobs -> RowState]; "open": inserted but not committed
  stamp,    \* [Jobs -> Nat]: created_at
  clock,    \* Nat: the database's now()
  page,     \* Nat: the page the client asks for next; 0: it does not walk
  size,     \* Nat: the page_size it uses; 0: it has never walked
  seen,     \* [Jobs -> Nat]: how often the walk has shown a job
  kept,     \* SUBSET (Jobs \ Strangers): listed when the walk began, not
            \* deleted in it
  removed,  \* Nat: jobs of the client deleted during the walk
  added,    \* Nat: jobs of the client committed during the walk
  probe     \* the last answer to a page asked for on its own, while the list
            \* is as it was then, or NoProbe

listVars == <<row, stamp, clock>>
walkVars == <<page, size, seen, kept, removed, added>>
vars     == <<listVars, walkVars, probe>>

RowState == {"absent", "open", "live", "deleted"}
Probes   == [page : Texts, size : Texts, status : {"200", "500"},
             failed : BOOLEAN, answer : SUBSET (Jobs \ Strangers)]

TypeOK ==
  /\ row \in [Jobs -> RowState]
  /\ stamp \in [Jobs -> Nat]
  /\ clock \in Nat
  /\ page \in Nat
  /\ size \in Nat
  /\ seen \in [Jobs -> Nat]
  /\ kept \in SUBSET (Jobs \ Strangers)
  /\ removed \in Nat
  /\ added \in Nat
  /\ probe \in Probes \cup {NoProbe}

Init ==
  /\ row = [j \in Jobs |-> IF j \in Strangers THEN "live" ELSE "absent"]
  /\ stamp = [j \in Jobs |-> 0]
  /\ clock = 0
  /\ page = 0
  /\ size = 0
  /\ seen = [j \in Jobs |-> 0]
  /\ kept = {}
  /\ removed = 0
  /\ added = 0
  /\ probe = NoProbe

-----------------------------------------------------------------------------
(* The table *)

\* Variant: without the WHERE.
Everybodys == {j \in Jobs : row[j] = "live"}

\* WHERE user_id = $1
Mine == {j \in Jobs \ Strangers : row[j] = "live"}

Smaller(m, n) == IF m < n THEN m ELSE n

\* P may be what LIMIT limit OFFSET offset leaves of the ordered list: the
\* rows B before it are passed over, and rows of equal times in any order.
IsPage(P, limit, offset) ==
  \E B \in SUBSET Mine :
    LET rest == Mine \ B IN
    /\ Cardinality(B) = Smaller(offset, Cardinality(Mine))
    /\ \A b \in B, j \in rest : stamp[b] >= stamp[j]
    /\ P \subseteq rest
    /\ Cardinality(P) = Smaller(limit, Cardinality(rest))
    /\ \A p \in P, j \in rest \ P : stamp[p] >= stamp[j]

Tick ==
  /\ clock < MaxClock
  /\ clock' = clock + 1
  /\ probe' = NoProbe
  /\ UNCHANGED <<row, stamp, walkVars>>

\* The transaction of a POST begins, which sets created_at, ...
BeginJob(j) ==
  /\ row[j] = "absent"
  /\ row' = [row EXCEPT ![j] = "open"]
  /\ stamp' = [stamp EXCEPT ![j] = clock]
  /\ probe' = NoProbe
  /\ UNCHANGED <<clock, walkVars>>

\* ... and later others see the row, ...
CommitJob(j) ==
  /\ row[j] = "open"
  /\ row' = [row EXCEPT ![j] = "live"]
  /\ added' = IF page > 0 THEN added + 1 ELSE added
  /\ probe' = NoProbe
  /\ UNCHANGED <<stamp, clock, page, size, seen, kept, removed>>

\* ... or never do.
RollbackJob(j) ==
  /\ row[j] = "open"
  /\ row' = [row EXCEPT ![j] = "absent"]
  /\ stamp' = [stamp EXCEPT ![j] = 0]
  /\ probe' = NoProbe
  /\ UNCHANGED <<clock, walkVars>>

DeleteJob(j) ==
  /\ row[j] = "live"
  /\ row' = [row EXCEPT ![j] = "deleted"]
  /\ kept' = IF page > 0 THEN kept \ {j} ELSE kept
  /\ removed' = IF page > 0 THEN removed + 1 ELSE removed
  /\ probe' = NoProbe
  /\ UNCHANGED <<stamp, clock, page, size, seen, added>>

-----------------------------------------------------------------------------
(* listJobsHandler *)

\* The error of strconv.Atoi is not looked at: 0 for what is no number, the
\* nearest int for what is out of range.
Atoi(t) ==
  IF t = NoNumber THEN 0
  ELSE IF t >= HalfWord THEN HalfWord - 1
  ELSE IF t < -HalfWord THEN -HalfWord
  ELSE t

\* Variant: only a missing page is replaced.
PageAsGiven(t) == IF Atoi(t) = 0 THEN 1 ELSE Atoi(t)

PageNumber(t) == IF Atoi(t) < 1 THEN 1 ELSE Atoi(t)
PageSize(t)   == IF Atoi(t) < 1 THEN DefaultSize ELSE Atoi(t)

\* The int that the machine has for n.
Wrapped(n) == ((n + HalfWord) % (2 * HalfWord)) - HalfWord

\* Variant: a job is passed over before every page but the first.
OffsetBehind(p, s) == Wrapped((p - 1) * s + (IF p > 1 THEN 1 ELSE 0))

\* Variant: each page begins with the last job of the one before.
OffsetOverlapping(p, s) == Wrapped((p - 1) * s - (IF p > 1 THEN 1 ELSE 0))

Offset(p, s) == Wrapped((p - 1) * s)

\* PostgreSQL refuses a negative OFFSET, and any query may fail: both are
\* "failed to list jobs".  Bound: a client probes before its
\* first walk, and once until the list changes.
Probe(pt, st) ==
  LET s == PageSize(st)
      o == Offset(PageNumber(pt), s)
      Answer(status, f, P) ==
        probe' = [page |-> pt, size |-> st, status |-> status, failed |-> f,
                  answer |-> P]
  IN
  /\ size = 0 /\ probe = NoProbe
  /\ \/ o >= 0 /\ \E P \in SUBSET Mine : IsPage(P, s, o) /\ Answer("200", FALSE, P)
     \/ o < 0 /\ Answer("500", FALSE, {})
     \/ Answer("500", TRUE, {})
  /\ UNCHANGED <<listVars, walkVars>>

-----------------------------------------------------------------------------
(* A client that asks for page 1, 2, ... until a page is not full; after a *)
(* 500 it asks again, which is no step.                                    *)

StartWalk(s) ==
  /\ page = 0
  /\ page' = 1
  /\ size' = s
  /\ seen' = [j \in Jobs |-> 0]
  /\ kept' = Mine
  /\ removed' = 0
  /\ added' = 0
  /\ probe' = NoProbe
  /\ UNCHANGED listVars

WalkOn ==
  /\ page > 0
  /\ \E P \in SUBSET Mine :
       /\ IsPage(P, size, Offset(page, size))
       /\ seen' = [j \in Jobs |-> seen[j] + (IF j \in P THEN 1 ELSE 0)]
       /\ page' = IF Cardinality(P) < size THEN 0 ELSE page + 1
  /\ UNCHANGED <<listVars, size, kept, removed, added, probe>>

Next ==
  \/ Tick
  \/ \E j \in Jobs \ Strangers :
       BeginJob(j) \/ CommitJob(j) \/ RollbackJob(j) \/ DeleteJob(j)
  \/ \E pt, st \in Texts : Probe(pt, st)
  \/ \E s \in WalkSizes : StartWalk(s)
  \/ WalkOn

Spec == Init /\ [][Next]_vars

-----------------------------------------------------------------------------
(* Properties *)

\* No two jobs of the client began in the same microsecond.
Ordered ==
  \A i, j \in Jobs \ Strangers :
    i # j /\ row[i] # "absent" /\ row[j] # "absent" => stamp[i] # stamp[j]

\* A client that walks all pages misses at most as many jobs as were deleted
\* while it walked, however many are created, and in whichever order their
\* transactions end: each deletion moves one job across a page boundary.
MissedAtMostDeleted ==
  Ordered /\ page = 0 => Cardinality({j \in kept : seen[j] = 0}) <= removed

\* It is shown a job again at most as often as jobs were created meanwhile:
\* OFFSET is counted anew for every page.
RepeatedAtMostCreated ==
  Ordered =>
    Cardinality(UNION {{j} \X (2..seen[j]) : j \in Jobs}) <= added

\* The number a text asks for; what is none, or not positive, asks for the
\* default.
Asked(t, default) == IF t # NoNumber /\ t >= 1 THEN t ELSE default

\* A page is answered with the jobs of these ranks, for any text in place of
\* page and any page_size that the documentation allows, as long as its offset
\* is an int; for pages further off the product in listJobsHandler wraps
\* around, to a 500 or to a wrong page.  Of larger sizes it says nothing:
\* routes.go:296 documents max 100, and the code serves any (PageSize).
AskedPageIsServed ==
  Ordered /\ probe # NoProbe =>
    LET p       == Asked(probe.page, 1)
        s       == Asked(probe.size, DefaultSize)
        Own     == {j \in Jobs \ Strangers : row[j] = "live"}
        Rank(j) == Cardinality({i \in Own : stamp[i] > stamp[j]})
    IN s <= MaxPageSize /\ p < HalfWord /\ (p - 1) * s < HalfWord /\ ~ probe.failed =>
         /\ probe.status = "200"
         /\ probe.answer =
              {j \in Own : (p - 1) * s <= Rank(j) /\ Rank(j) < p * s}
=============================================================================
