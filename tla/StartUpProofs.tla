---------------------------- MODULE StartUpProofs ----------------------------
(***************************************************************************)
(* Proofs about the start-up for any number of processes, migration files  *)
(* and deaths.  The properties are not inductive by themselves: what a     *)
(* holder of the lock has done of a file has to be related to the row of   *)
(* schema_migrations, and the lock to the phases of all processes.         *)
(***************************************************************************)
EXTENDS StartUp, TLAPS

Holding == {"locked", "upgrading", "marked", "ran"}

\* The lock is held by the one process that is within Up.
LockInv == \A p \in Processes : phase[p] \in Holding <=> lock = p

\* How far a process is, and what the row and the tables say.
Progress(p) ==
  /\ phase[p] = "upgrading" => ~ dirty /\ at[p] = version
  /\ phase[p] = "marked" => /\ dirty /\ ~ cut
                            /\ at[p] = version /\ Len(applied) + 1 = version
  /\ phase[p] = "ran" => /\ dirty /\ ~ cut
                         /\ at[p] = version /\ Len(applied) = version
  /\ phase[p] \in {"migrated", "serving"} => version = Latest /\ ~ dirty

SchemaInv ==
  /\ ~ dirty => Len(applied) = version
  /\ cut => dirty
  /\ AppliedInOrder

Inv ==
  /\ TypeOK
  /\ LockInv
  /\ SchemaInv
  /\ \A p \in Processes : Progress(p)

\* The empty database, with every process down, satisfies the invariant.
LEMMA InitInv == Init => Inv
<1> SUFFICES ASSUME Init PROVE Inv
  OBVIOUS
<1> USE StartUpAssumption DEF Init
<1>1. TypeOK
  <2>1. << >> \in Seq(1..Latest)
    OBVIOUS
  <2>2. phase \in [Processes -> ProcessPhase] /\ at \in [Processes -> 0..Latest]
    BY DEF ProcessPhase
  <2>3. version \in 0..Latest /\ deaths \in 0..MaxDeaths
    OBVIOUS
  <2>4. dirty \in BOOLEAN /\ cut \in BOOLEAN /\ applied \in Seq(1..Latest)
    BY <2>1
  <2> QED
    BY <2>2, <2>3, <2>4 DEF TypeOK
<1>2. LockInv
  BY DEF LockInv, Holding
<1>3. SchemaInv /\ \A p \in Processes : Progress(p)
  BY DEF SchemaInv, AppliedInOrder, Progress
<1> QED
  BY <1>1, <1>2, <1>3 DEF Inv

\* Steps that leave the lock and the row alone, and nobody's place in Up.
LEMMA QuietStep ==
  ASSUME Inv, NEW p \in Processes, NEW to \in ProcessPhase \ Holding,
         phase[p] \notin Holding,
         phase' = [phase EXCEPT ![p] = to],
         to \in {"migrated", "serving"} => version = Latest /\ ~ dirty,
         UNCHANGED <<lock, schema, at, deaths, cut>>
  PROVE  Inv'
  BY DEF Inv, TypeOK, LockInv, SchemaInv, AppliedInOrder, Progress, Holding,
         schema, ProcessPhase

\* Every step of every process keeps the invariant.
LEMMA NextInv == Inv /\ [Next]_vars => Inv'
<1> SUFFICES ASSUME Inv, [Next]_vars PROVE Inv'
  OBVIOUS
<1> USE StartUpAssumption
<1>0. CASE UNCHANGED vars
  BY <1>0 DEF vars, schema, Inv, TypeOK, LockInv, SchemaInv, AppliedInOrder,
              Progress
<1> SUFFICES ASSUME NEW p \in Processes,
                    \/ ProcessStep(p) \/ WithInstance(p) \/ Up(p)
                    \/ LockTimeout(p) \/ Die(p)
             PROVE  Inv'
  BY <1>0 DEF Next
<1>1. CASE Open(p)
  BY <1>1, QuietStep DEF Open, Go, Holding, ProcessPhase
<1>2. CASE WithInstance(p)
  BY <1>2, QuietStep DEF WithInstance, Go, Holding, ProcessPhase
<1>3. CASE LockTimeout(p)
  BY <1>3, QuietStep DEF LockTimeout, Go, Holding, ProcessPhase
<1>4. CASE Serve(p)
  BY <1>4, QuietStep DEF Serve, Go, Holding, ProcessPhase, Inv, Progress
<1>5. CASE SecretMissing(p)
  BY <1>5, QuietStep DEF SecretMissing, Go, Holding, ProcessPhase
<1>6. CASE Up(p)
  BY <1>6 DEF Up, Go, schema, Inv, TypeOK, ProcessPhase, LockInv, Holding,
              SchemaInv, AppliedInOrder, Progress
<1>7. CASE ReadVersion(p)
  BY <1>7 DEF ReadVersion, Go, schema, Inv, TypeOK, ProcessPhase, LockInv,
              Holding, SchemaInv, AppliedInOrder, Progress
<1>8. CASE ReadDirty(p)
  BY <1>8 DEF ReadDirty, Go, LeaveLock, schema, Inv, TypeOK, ProcessPhase,
              LockInv, Holding, SchemaInv, AppliedInOrder, Progress
<1>9. CASE MarkDirty(p)
  BY <1>9 DEF MarkDirty, Go, Inv, TypeOK, ProcessPhase, LockInv, Holding,
              SchemaInv, AppliedInOrder, Progress
<1>10. CASE RunFile(p)
  BY <1>10 DEF RunFile, Go, Inv, TypeOK, ProcessPhase, LockInv, Holding,
               SchemaInv, AppliedInOrder, Progress
<1>11. CASE MarkClean(p)
  BY <1>11 DEF MarkClean, Go, Inv, TypeOK, ProcessPhase, LockInv, Holding,
               SchemaInv, AppliedInOrder, Progress
<1>12. CASE Finish(p)
  BY <1>12 DEF Finish, Go, LeaveLock, schema, Inv, TypeOK, ProcessPhase,
               LockInv, Holding, SchemaInv, AppliedInOrder, Progress
<1>13. CASE Die(p)
  BY <1>13 DEF Die, LeaveLock, schema, Inv, TypeOK, ProcessPhase, LockInv,
               Holding, SchemaInv, AppliedInOrder, Progress
<1> QED
  BY <1>1, <1>2, <1>3, <1>4, <1>5, <1>6, <1>7, <1>8, <1>9, <1>10, <1>11,
     <1>12, <1>13 DEF ProcessStep

\* The invariant holds in every reachable state.
LEMMA Invariance == Spec => []Inv
  BY InitInv, NextInv, PTL DEF Spec

\* The variables keep their types: in particular no process ever records a
\* version beyond the last file (MarkDirty stops in time).
THEOREM TypeCorrect == Spec => []TypeOK
<1>1. Inv => TypeOK
  BY DEF Inv
<1> QED
  BY Invariance, <1>1, PTL

\* Nobody serves, or is about to, without the complete schema, for any number
\* of processes that start and end at any moment.
THEOREM FullSchema == Spec => []ServesOnlyFullSchema
<1>1. Inv => ServesOnlyFullSchema
  BY DEF Inv, SchemaInv, Progress, ServesOnlyFullSchema
<1> QED
  BY Invariance, <1>1, PTL

\* Every migration file is run once and in its turn.
THEOREM InOrder == Spec => []AppliedInOrder
<1>1. Inv => AppliedInOrder
  BY DEF Inv, SchemaInv
<1> QED
  BY Invariance, <1>1, PTL

\* After a death within a migration nobody serves any more.
THEOREM CutIsFinal == Spec => []CutStopsEveryone
<1>1. Inv => CutStopsEveryone
  BY DEF Inv, SchemaInv, Progress, CutStopsEveryone
<1> QED
  BY Invariance, <1>1, PTL
-----------------------------------------------------------------------------
(* What may be concluded from the lock and from the flag *)

\* One process at a time is within Up, and if none is, the lock is free: no
\* end of a process, in whatever phase, leaves the lock behind.
LockIsNeverOrphaned ==
  /\ \A p, q \in Processes : phase[p] \in Holding /\ phase[q] \in Holding => p = q
  /\ lock # NoOne => \E p \in Processes : lock = p /\ phase[p] \in Holding

\* Migrations of any number of processes exclude each other, and the lock goes
\* with the session of its holder (WithInstance, Up and every fatal error).
THEOREM LockHeldByOne == Spec => []LockIsNeverOrphaned
<1>1. Inv => LockIsNeverOrphaned
  BY StartUpAssumption DEF Inv, TypeOK, LockInv, LockIsNeverOrphaned
<1> QED
  BY Invariance, <1>1, PTL

\* The flag is up only while somebody is between the two marks of a file, or
\* because somebody ended there.
DirtyIsExplained ==
  dirty => cut \/ \E p \in Processes : phase[p] \in {"marked", "ran"}

\* ErrDirty needs a cut: who holds the lock and reads the flag does so after a
\* process has ended within a migration.
ErrDirtyMeansCut == \A p \in Processes : phase[p] = "locked" /\ dirty => cut

LEMMA DirtyStep ==
  ASSUME Inv, DirtyIsExplained, [Next]_vars
  PROVE  DirtyIsExplained'
<1> USE DEF Inv, TypeOK, DirtyIsExplained
<1>1. CASE UNCHANGED vars
  BY <1>1 DEF vars, schema
<1> SUFFICES ASSUME NEW p \in Processes,
                    \/ ProcessStep(p) \/ WithInstance(p) \/ Up(p)
                    \/ LockTimeout(p) \/ Die(p)
             PROVE  DirtyIsExplained'
  BY <1>1 DEF Next
\* A process that is not between the marks moves, and the flag stays.
<1>2. ASSUME UNCHANGED <<dirty, cut>>, phase[p] \notin {"marked", "ran"},
             \A q \in Processes \ {p} : phase'[q] = phase[q]
      PROVE  DirtyIsExplained'
  BY <1>2
<1>3. CASE \/ Open(p) \/ WithInstance(p) \/ Up(p) \/ LockTimeout(p)
           \/ ReadVersion(p) \/ ReadDirty(p) \/ Finish(p) \/ Serve(p)
           \/ SecretMissing(p)
  BY <1>2, <1>3 DEF Open, WithInstance, Up, LockTimeout, ReadVersion, ReadDirty,
     Finish, Serve, SecretMissing, Go, schema
<1>4. CASE MarkDirty(p) \/ RunFile(p)
  BY <1>4 DEF MarkDirty, RunFile, Go
<1>5. CASE MarkClean(p)
  BY <1>5 DEF MarkClean
<1>6. CASE Die(p)
  BY <1>6 DEF Die, schema
<1> QED
  BY <1>3, <1>4, <1>5, <1>6 DEF ProcessStep

\* However many processes migrate at the same time, wait for each other, give
\* up waiting or end elsewhere, none of them is refused with ErrDirty unless
\* one ended between the two SetVersion calls of a file.
THEOREM NoFalseDirty == Spec => []ErrDirtyMeansCut
<1>1. Init => DirtyIsExplained
  BY DEF Init, DirtyIsExplained
<1>2. Inv /\ DirtyIsExplained /\ [Next]_vars => DirtyIsExplained'
  BY DirtyStep
<1>3. ASSUME Inv, DirtyIsExplained, NEW p \in Processes,
             phase[p] = "locked", dirty
      PROVE  cut
  <2>1. \A q \in Processes : phase[q] \in Holding => q = p
    BY <1>3 DEF Inv, LockInv, Holding
  <2> QED
    BY <1>3, <2>1 DEF DirtyIsExplained, Holding
<1>4. Inv /\ DirtyIsExplained => ErrDirtyMeansCut
  BY <1>3 DEF ErrDirtyMeansCut
<1> QED
  BY <1>1, <1>2, <1>4, Invariance, PTL DEF Spec

\* The schema only moves forward: no process, however late it comes and
\* whatever it read before, lowers the version or runs any file but the next.
THEOREM SchemaOnlyGrows ==
  Spec => [][/\ version <= version'
             /\ applied' \in {applied, Append(applied, version)}]_vars
<1>1. ASSUME Inv, Next
      PROVE  /\ version <= version'
             /\ applied' \in {applied, Append(applied, version)}
  <2>1. PICK p \in Processes : \/ ProcessStep(p) \/ WithInstance(p) \/ Up(p)
                               \/ LockTimeout(p) \/ Die(p)
    BY <1>1 DEF Next
  <2>2. version \in 0..Latest /\ Progress(p)
    BY <1>1 DEF Inv, TypeOK
  <2>3. version \in Int /\ version <= version /\ version <= version + 1
    BY <2>2, StartUpAssumption
  <2>4. CASE UNCHANGED schema
    BY <2>3, <2>4 DEF schema
  <2>5. CASE MarkDirty(p)
    BY <2>2, <2>3, <2>5 DEF MarkDirty, Go, Progress
  <2>6. CASE RunFile(p)
    BY <2>2, <2>3, <2>6 DEF RunFile, Go, Progress
  <2>7. CASE MarkClean(p)
    BY <2>2, <2>3, <2>7 DEF MarkClean, Go, Progress
  <2> QED
    BY <2>1, <2>4, <2>5, <2>6, <2>7 DEF ProcessStep, WithInstance, Up,
       LockTimeout, Die, Open, ReadVersion, ReadDirty, Finish, Serve,
       SecretMissing
<1>2. Inv /\ [Next]_vars => [/\ version <= version'
                             /\ applied' \in {applied, Append(applied, version)}]_vars
  BY <1>1
<1> QED
  BY <1>2, Invariance, PTL DEF Spec

=============================================================================
