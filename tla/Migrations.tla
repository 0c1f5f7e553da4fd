----------------------------- MODULE Migrations -----------------------------
(***************************************************************************)
(* internal/db/migrations.go as main runs it: every process migrates the   *)
(* database before it serves.  Processes come and go (docker-compose       *)
(* restarts the container, a deploy replaces the release) and may overlap: *)
(* the set of applied versions that a process reads can be out of date     *)
(* when it executes a migration.                                           *)
(*                                                                         *)
(* SQLite has one writer at a time; what a transaction has done is gone if *)
(* it does not commit.                                                     *)
(***************************************************************************)
EXTENDS Integers, FiniteSets

CONSTANTS
  Processes,
  Migrations,    \* the .sql files of all releases
  Version,       \* the number in the file's name
  Releases,      \* the sets of files that a process may be shipped with
  NoProcess,     \* nobody has the write lock
  MaxFaults      \* bound on the crashes and errors

ASSUME ProcessAssumption == NoProcess \notin Processes
ASSUME ReleaseAssumption == \A rel \in Releases : rel \subseteq Migrations /\ IsFiniteSet(rel)
ASSUME FaultsAssumption  == MaxFaults \in Nat

\* Not enforced by loadMigrations: of two files with one number the second fails
\* the first startup and is skipped by all later ones.
ASSUME VersionAssumption == /\ Version \in [Migrations -> Nat]
                            /\ \A m, n \in Migrations : Version[m] = Version[n] => m = n

VARIABLES
  recorded,   \* the versions in schema_migrations
  applied,    \* history: how often each migration's SQL was committed
  writer,     \* the process that has SQLite's write lock
  phase,      \* where each process is in main
  release,    \* the files it has loaded
  todo,       \* those that its loop has still to execute
  faults

migrationVars == <<recorded, applied, writer, phase, release, todo, faults>>

\* "query": getAppliedMigrations; "loop": the loop of RunMigrations; "exec": in
\* the transaction of executeMigration; "up": RunMigrations has returned.
Phases == {"down", "query", "loop", "exec", "up"}

-----------------------------------------------------------------------------
\* The files of the directory the process was shipped with.
LoadMigrations(p) == \E rel \in Releases : release' = [release EXCEPT ![p] = rel]

\* RunMigrations up to the query: createMigrationsTable (IF NOT EXISTS), the files.
Start(p) ==
  /\ phase[p] = "down" /\ phase' = [phase EXCEPT ![p] = "query"]
  /\ LoadMigrations(p)
  /\ UNCHANGED <<recorded, applied, writer, todo, faults>>

\* The files that the loop does not skip.
Pending(p) == {m \in release[p] : Version[m] \notin recorded}

GetAppliedMigrations(p) ==
  /\ phase[p] = "query" /\ phase' = [phase EXCEPT ![p] = "loop"]
  /\ todo' = [todo EXCEPT ![p] = Pending(p)]
  /\ UNCHANGED <<recorded, applied, writer, release, faults>>

\* The files in descending order.
NewestFirst(p) == CHOOSE m \in todo[p] : \A n \in todo[p] : Version[n] <= Version[m]

\* The files are sorted by version.
Current(p) == CHOOSE m \in todo[p] : \A n \in todo[p] : Version[m] <= Version[n]

\* BeginTx and the migration's SQL.
Execute(p) ==
  /\ phase[p] = "loop" /\ todo[p] # {} /\ writer = NoProcess
  /\ writer' = p /\ phase' = [phase EXCEPT ![p] = "exec"]
  /\ UNCHANGED <<recorded, applied, release, todo, faults>>

Unlocked(p) == writer' = IF writer = p THEN NoProcess ELSE writer

\* The error is logged and the loop goes on with the next file.
FailGoesOn(p) == /\ phase' = [phase EXCEPT ![p] = "loop"] /\ Unlocked(p)
                 /\ todo' = [todo EXCEPT ![p] = @ \ {Current(p)}]
                 /\ UNCHANGED <<recorded, applied, release>>

\* Rollback, and logger.Fatal in main.
Fail(p) == /\ phase' = [phase EXCEPT ![p] = "down"] /\ Unlocked(p)
           /\ todo' = [todo EXCEPT ![p] = {}]
           /\ UNCHANGED <<recorded, applied, release>>

\* A table without the constraint.
NeverConflicts(p) == FALSE

\* version is the PRIMARY KEY of schema_migrations.
Conflicts(p) == Version[Current(p)] \in recorded

\* The INSERT into schema_migrations and Commit.
Commit(p) ==
  /\ phase[p] = "exec"
  /\ \/ Conflicts(p) /\ Fail(p)
     \/ /\ ~ Conflicts(p)
        /\ recorded' = recorded \cup {Version[Current(p)]}
        /\ applied' = [applied EXCEPT ![Current(p)] = @ + 1]
        /\ todo' = [todo EXCEPT ![p] = @ \ {Current(p)}]
        /\ phase' = [phase EXCEPT ![p] = "loop"] /\ Unlocked(p)
        /\ UNCHANGED release
  /\ UNCHANGED faults

\* RunMigrations returns; main goes on.
Ready(p) ==
  /\ phase[p] = "loop" /\ todo[p] = {} /\ phase' = [phase EXCEPT ![p] = "up"]
  /\ UNCHANGED <<recorded, applied, writer, release, todo, faults>>

\* The SQL, the INSERT or the Commit fails, or the context times out.
ExecuteFails(p) ==
  /\ phase[p] = "exec" /\ faults < MaxFaults /\ faults' = faults + 1
  /\ Fail(p)

\* The process dies at any point: a crash, a signal, or logger.Fatal after an
\* error outside of a transaction (a lock that is busy for too long included).
Die(p) ==
  /\ phase[p] # "down" /\ faults < MaxFaults /\ faults' = faults + 1
  /\ phase' = [phase EXCEPT ![p] = "down"] /\ Unlocked(p)
  /\ todo' = [todo EXCEPT ![p] = {}] /\ UNCHANGED <<recorded, applied, release>>

MigrationsInit ==
  /\ recorded = {} /\ applied = [m \in Migrations |-> 0] /\ writer = NoProcess
  /\ phase = [p \in Processes |-> "down"] /\ release = [p \in Processes |-> {}]
  /\ todo = [p \in Processes |-> {}] /\ faults = 0

RunMigrations(p) == GetAppliedMigrations(p) \/ Execute(p) \/ Commit(p) \/ Ready(p)

MigrationsNext == \E p \in Processes : Start(p) \/ RunMigrations(p) \/ ExecuteFails(p) \/ Die(p)

MigrationsSpec == MigrationsInit /\ [][MigrationsNext]_migrationVars

-----------------------------------------------------------------------------
(* Properties.                                                             *)

\* The type invariant of the schema and of the processes that migrate it.
MigrationsTypeOK ==
  /\ recorded \subseteq Nat /\ applied \in [Migrations -> Nat]
  /\ writer \in Processes \cup {NoProcess} /\ phase \in [Processes -> Phases]
  /\ release \in [Processes -> SUBSET Migrations] /\ todo \in [Processes -> SUBSET Migrations]
  /\ faults \in Nat

\* No migration is applied twice and schema_migrations tells the truth, although
\* processes act on a set of versions that others make stale and any of them may
\* die between the SQL and the record of it (migrations.go:35-49, 139-163).
AppliedOnce ==
  \A m \in Migrations : applied[m] = IF Version[m] \in recorded THEN 1 ELSE 0

\* A process that serves finds every migration of its release in the database,
\* whoever applied it and however often startups failed (main.go:46-50).
UpMeansMigrated ==
  \A p \in Processes : phase[p] = "up" => \A m \in release[p] : applied[m] > 0

\* A migration finds the effects of the earlier ones of its release: it commits
\* only after them, also when another process is working through the same list
\* (migrations.go:40-49, 109-112).
PredecessorsFirst ==
  [][\A m \in Migrations : applied'[m] > applied[m] =>
        \A n \in release[writer] : Version[n] < Version[m] => applied[n] > 0]_migrationVars
=============================================================================
