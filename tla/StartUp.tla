------------------------------- MODULE StartUp -------------------------------
(***************************************************************************)
(* The start of the API (cmd/main.go) and of the workers                   *)
(* (cmd/worker/main.go): each of them migrates the database (db/migrate.go)*)
(* before it serves, all at the same time, and Docker starts it again      *)
(* whenever it ends.                                                       *)
(*                                                                         *)
(* golang-migrate holds an advisory lock of PostgreSQL, which goes with    *)
(* its session; it records the version of a migration as dirty, runs the   *)
(* file (one implicit transaction), and records the version as clean.      *)
(***************************************************************************)
EXTENDS Integers, Sequences

CONSTANTS
  Processes,  \* API servers and workers
  EarlyGap,   \* SUBSET Processes: a variable that is asked for before the
              \* migration is not set, or no number: DATABASE_URL, REDIS_ADDR,
              \* REDIS_DB
  LateGap,    \* SUBSET Processes: API servers without JWT_SECRET
  Latest,     \* the number of migration files: 5
  NoOne,
  MaxDeaths   \* bound: how often processes end before their time

ASSUME StartUpAssumption ==
  /\ EarlyGap \subseteq Processes
  /\ LateGap \subseteq Processes
  /\ NoOne \notin Processes
  /\ Latest \in Nat
  /\ MaxDeaths \in Nat

VARIABLES
  phase,    \* [Processes -> ProcessPhase]
  lock,     \* Processes \cup {NoOne}: who holds the advisory lock
  version,  \* 0..Latest: the row of schema_migrations; 0: there is none
  dirty,    \* BOOLEAN, in the same row
  at,       \* [Processes -> 0..Latest]: the version a process has come to
  applied,  \* history, Seq(1..Latest): the files that were run
  deaths,   \* Nat
  cut       \* history, BOOLEAN: somebody ended within a migration

schema == <<version, dirty, applied>>
vars   == <<phase, lock, schema, at, deaths, cut>>

ProcessPhase == {"down", "opened", "waiting", "locked", "upgrading", "marked",
                 "ran", "migrated", "serving"}

TypeOK ==
  /\ phase \in [Processes -> ProcessPhase]
  /\ lock \in Processes \cup {NoOne}
  /\ version \in 0..Latest
  /\ dirty \in BOOLEAN
  /\ at \in [Processes -> 0..Latest]
  /\ applied \in Seq(1..Latest)
  /\ deaths \in 0..MaxDeaths
  /\ cut \in BOOLEAN

Init ==
  /\ phase = [p \in Processes |-> "down"]
  /\ lock = NoOne
  /\ version = 0
  /\ dirty = FALSE
  /\ at = [p \in Processes |-> 0]
  /\ applied = << >>
  /\ deaths = 0
  /\ cut = FALSE

-----------------------------------------------------------------------------
(* Helpers *)

Go(p, from, to) ==
  /\ phase[p] = from
  /\ phase' = [phase EXCEPT ![p] = to]

\* The session of p ends, and its lock with it.
LeaveLock(p) == lock' = IF lock = p THEN NoOne ELSE lock

-----------------------------------------------------------------------------
(* main of the API and of the worker, and Migrate *)

\* The environment is read and the database opened and pinged.  With a gap
\* this is where logger.Fatal ends the process again, and no step.
Open(p) ==
  /\ p \notin EarlyGap
  /\ Go(p, "down", "opened")
  /\ UNCHANGED <<lock, schema, at, deaths, cut>>

\* WithInstance creates schema_migrations under the lock, for which it waits
\* as long as it takes.
WithInstance(p) ==
  /\ lock = NoOne
  /\ Go(p, "opened", "waiting")
  /\ UNCHANGED <<lock, schema, at, deaths, cut>>

\* Variant: nobody asks for the lock.
UpUnlocked(p) ==
  /\ Go(p, "waiting", "locked")
  /\ UNCHANGED <<lock, schema, at, deaths, cut>>

\* Up takes the lock ...
Up(p) ==
  /\ lock = NoOne
  /\ Go(p, "waiting", "locked")
  /\ lock' = p
  /\ UNCHANGED <<schema, at, deaths, cut>>

\* Variant: the error of Up is not returned.
TimeoutIgnored(p) ==
  /\ lock # NoOne
  /\ Go(p, "waiting", "migrated")
  /\ UNCHANGED <<lock, schema, at, deaths, cut>>

\* ... or gives up after 15 seconds: logger.Fatal.
LockTimeout(p) ==
  /\ lock # NoOne
  /\ Go(p, "waiting", "down")
  /\ UNCHANGED <<lock, schema, at, deaths, cut>>

\* Variant: ErrNoChange is an error like any other.
NoChangeIsFatal(p) ==
  /\ ~ dirty
  /\ Go(p, "locked", IF version = Latest THEN "down" ELSE "upgrading")
  /\ lock' = IF version = Latest THEN NoOne ELSE p
  /\ at' = [at EXCEPT ![p] = version]
  /\ UNCHANGED <<schema, deaths, cut>>

ReadVersion(p) ==
  /\ ~ dirty
  /\ Go(p, "locked", "upgrading")
  /\ at' = [at EXCEPT ![p] = version]
  /\ UNCHANGED <<lock, schema, deaths, cut>>

\* ErrDirty is returned: logger.Fatal.
ReadDirty(p) ==
  /\ dirty
  /\ Go(p, "locked", "down")
  /\ LeaveLock(p)
  /\ UNCHANGED <<schema, at, deaths, cut>>

\* SetVersion(v, true) for the next file.
MarkDirty(p) ==
  /\ at[p] < Latest
  /\ Go(p, "upgrading", "marked")
  /\ version' = at[p] + 1
  /\ dirty' = TRUE
  /\ at' = [at EXCEPT ![p] = @ + 1]
  /\ UNCHANGED <<lock, applied, deaths, cut>>

RunFile(p) ==
  /\ Go(p, "marked", "ran")
  /\ applied' = Append(applied, at[p])
  /\ UNCHANGED <<lock, version, dirty, at, deaths, cut>>

\* SetVersion(v, false)
MarkClean(p) ==
  /\ Go(p, "ran", "upgrading")
  /\ version' = at[p]
  /\ dirty' = FALSE
  /\ UNCHANGED <<lock, applied, at, deaths, cut>>

\* No file is left, or there was none (ErrNoChange): the lock is released.
Finish(p) ==
  /\ at[p] = Latest
  /\ Go(p, "upgrading", "migrated")
  /\ LeaveLock(p)
  /\ UNCHANGED <<schema, at, deaths, cut>>

\* The database is opened again, JWT_SECRET is there, and the server or the
\* pollers and handlers start.
Serve(p) ==
  /\ p \notin LateGap
  /\ Go(p, "migrated", "serving")
  /\ UNCHANGED <<lock, schema, at, deaths, cut>>

\* "JWT_SECRET is required"
SecretMissing(p) ==
  /\ p \in LateGap
  /\ Go(p, "migrated", "down")
  /\ UNCHANGED <<lock, schema, at, deaths, cut>>

\* Variant: the flag is cleared on the way out.
DieTidily(p) ==
  /\ deaths < MaxDeaths
  /\ phase[p] # "down"
  /\ phase' = [phase EXCEPT ![p] = "down"]
  /\ LeaveLock(p)
  /\ deaths' = deaths + 1
  /\ cut' = (cut \/ phase[p] \in {"marked", "ran"})
  /\ dirty' = FALSE
  /\ UNCHANGED <<version, applied, at>>

\* A connection or a statement fails, which is fatal, or the process ends.
Die(p) ==
  /\ deaths < MaxDeaths
  /\ phase[p] # "down"
  /\ phase' = [phase EXCEPT ![p] = "down"]
  /\ LeaveLock(p)
  /\ deaths' = deaths + 1
  /\ cut' = (cut \/ phase[p] \in {"marked", "ran"})
  /\ UNCHANGED <<schema, at>>

ProcessStep(p) ==
  \/ Open(p) \/ ReadVersion(p) \/ ReadDirty(p)
  \/ MarkDirty(p) \/ RunFile(p) \/ MarkClean(p) \/ Finish(p)
  \/ Serve(p) \/ SecretMissing(p)

Next ==
  \E p \in Processes :
    ProcessStep(p) \/ WithInstance(p) \/ Up(p) \/ LockTimeout(p) \/ Die(p)

Spec == Init /\ [][Next]_vars

\* Docker restarts what ends (restart: unless-stopped) and the database
\* answers; PostgreSQL queues those who wait for the lock, so that none is
\* passed over for ever.
Fairness ==
  \A p \in Processes :
    WF_vars(ProcessStep(p)) /\ SF_vars(WithInstance(p)) /\ SF_vars(Up(p))

FairSpec == Spec /\ Fairness

-----------------------------------------------------------------------------
(* Properties *)

\* Whoever serves, and whoever is about to, has every migration behind it,
\* whatever others that start, end or start again are doing to the schema
\* (Migrate comes before the database is opened for the store).
ServesOnlyFullSchema ==
  \A p \in Processes :
    phase[p] \in {"migrated", "serving"} =>
      version = Latest /\ ~ dirty /\ Len(applied) = Latest

\* Every file is run once and in order, although every process migrates:
\* 000005 has no IF NOT EXISTS and would fail the second time.
AppliedInOrder == \A n \in 1..Len(applied) : applied[n] = n

\* If a process ends between the two SetVersion calls of a file, the flag
\* stays, whether or not the file was run: nobody serves, and no restart of
\* anybody changes that (Migrate returns ErrDirty to every main).
CutStopsEveryone ==
  cut => /\ dirty
         /\ \A p \in Processes : phase[p] \notin {"migrated", "serving"}

\* Unless somebody ends within a migration, every process whose environment
\* is complete serves in the end and for good, whatever the others do.
EveryoneServes ==
  \A p \in Processes \ (EarlyGap \cup LateGap) :
    <>(cut \/ [](phase[p] = "serving"))
=============================================================================
