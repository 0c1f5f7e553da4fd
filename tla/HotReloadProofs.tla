-------------------------- MODULE HotReloadProofs --------------------------
(***************************************************************************)
(* Proofs about Migrations and HotReload, for any settings, values, PUT    *)
(* bodies, processes, migrations and releases.                             *)
(*                                                                         *)
(* What a process believes about the schema while it works through its     *)
(* list of migrations is the inductive part of the first half: everything  *)
(* of its release that is no longer on the list has been recorded, by it   *)
(* or by others.  A step of the service is a step of some process to the   *)
(* schema, so the same invariant holds while settings change.              *)
(***************************************************************************)
EXTENDS HotReload, FiniteSetTheorems, WellFoundedInduction, TLAPS

-----------------------------------------------------------------------------
(* Migrations.                                                             *)

\* The variables but the count of faults, and a step of some process.
schemaVars == <<recorded, applied, writer, phase, release, todo>>

SchemaStep ==
  \/ \E p \in Processes : Start(p) \/ RunMigrations(p) \/ Die(p) \/ ExecuteFails(p)
  \/ UNCHANGED schemaVars

SchemaOK ==
  /\ recorded \subseteq Nat /\ applied \in [Migrations -> Nat]
  /\ writer \in Processes \cup {NoProcess} /\ phase \in [Processes -> Phases]
  /\ release \in [Processes -> SUBSET Migrations] /\ todo \in [Processes -> SUBSET Migrations]

\* A process in its loop misses nothing but what is on its list, one in a
\* transaction has the lock and something to do, one that is up misses nothing.
Progress ==
  \A p \in Processes :
    /\ phase[p] \in {"loop", "exec", "up"} =>
         \A m \in release[p] : m \in todo[p] \/ Version[m] \in recorded
    /\ phase[p] = "exec" => writer = p /\ todo[p] # {}
    /\ phase[p] = "up" => todo[p] = {}

SchemaInv == SchemaOK /\ AppliedOnce /\ Progress

-----------------------------------------------------------------------------
\* The sorted list of files (migrations.go:109-112) has a first one: a
\* non-empty set of versions has a least element.
LEMMA CurrentIsFirst ==
  ASSUME SchemaOK, NEW p \in Processes, todo[p] # {}
  PROVE  /\ Current(p) \in todo[p] /\ Current(p) \in Migrations
         /\ \A n \in todo[p] : Version[Current(p)] <= Version[n]
<1> DEFINE T == {Version[m] : m \in todo[p]}
<1>1. todo[p] \subseteq Migrations
  BY DEF SchemaOK
<1>2. T \subseteq Nat /\ T # {}
  BY <1>1, VersionAssumption
<1>3. PICK v \in T : \A u \in T : ~ (<<u, v>> \in OpToRel(<, Nat))
  <2> HIDE DEF T
  <2> QED BY <1>2, NatLessThanWellFounded, WFMin
<1>4. \A u \in T : v <= u
  <2>1. \A u \in T : ~ (u < v)
    BY <1>2, <1>3 DEF OpToRel
  <2>2. QED
    BY <1>2, <2>1
<1>5. \E m \in todo[p] : \A n \in todo[p] : Version[m] <= Version[n]
  <2>1. PICK m \in todo[p] : v = Version[m]
    BY <1>3
  <2>2. QED
    BY <1>4, <2>1
<1>6. QED
  BY <1>1, <1>5 DEF Current

\* No step takes a version out of schema_migrations.
LEMMA RecordedGrows ==
  ASSUME SchemaStep PROVE recorded \subseteq recorded'
BY DEF SchemaStep, schemaVars, Start, RunMigrations, GetAppliedMigrations, Execute, Commit, Ready,
       ExecuteFails, Fail, Die

\* A process that goes down leaves the schema as it is.
LEMMA GoingDown ==
  ASSUME SchemaInv, NEW p \in Processes, Unlocked(p), UNCHANGED <<recorded, applied, release>>,
         phase' = [phase EXCEPT ![p] = "down"], todo' = [todo EXCEPT ![p] = {}]
  PROVE  SchemaInv'
<1>1. SchemaOK'
  BY ProcessAssumption DEF SchemaInv, SchemaOK, Unlocked, Phases
<1>2. AppliedOnce'
  BY DEF SchemaInv, AppliedOnce
<1>3. Progress'
  BY DEF SchemaInv, SchemaOK, Progress, Unlocked
<1>4. QED
  BY <1>1, <1>2, <1>3 DEF SchemaInv

\* A committed migration was recorded by nobody before, and is off the list.
LEMMA Committing ==
  ASSUME SchemaInv, NEW p \in Processes, phase[p] = "exec", ~ Conflicts(p),
         recorded' = recorded \cup {Version[Current(p)]},
         applied' = [applied EXCEPT ![Current(p)] = @ + 1],
         todo' = [todo EXCEPT ![p] = @ \ {Current(p)}],
         phase' = [phase EXCEPT ![p] = "loop"], Unlocked(p), UNCHANGED release
  PROVE  SchemaInv'
<1> DEFINE c == Current(p)
<1>1. /\ c \in Migrations /\ c \in todo[p] /\ Version[c] \in Nat /\ Version[c] \notin recorded
      /\ \A m \in Migrations : Version[m] = Version[c] => m = c
  BY CurrentIsFirst, VersionAssumption DEF SchemaInv, Progress, Conflicts
<1> HIDE DEF c
<1>2. SchemaOK'
  <2>1. applied' \in [Migrations -> Nat]
    BY <1>1 DEF SchemaInv, SchemaOK, c
  <2>2. QED
    BY <1>1, <2>1 DEF SchemaInv, SchemaOK, Unlocked, Phases, c
<1>3. AppliedOnce'
  <2>1. applied[c] = 0 /\ applied'[c] = 1
    BY <1>1 DEF SchemaInv, SchemaOK, AppliedOnce, c
  <2>2. ASSUME NEW m \in Migrations, m # c
        PROVE  applied'[m] = applied[m] /\ (Version[m] \in recorded' <=> Version[m] \in recorded)
    BY <1>1, <2>2 DEF SchemaInv, SchemaOK, c
  <2>3. Version[c] \in recorded'
    BY DEF c
  <2>4. QED
    BY <2>1, <2>2, <2>3 DEF SchemaInv, AppliedOnce
<1>4. Progress'
  <2> SUFFICES ASSUME NEW q \in Processes
               PROVE  /\ phase'[q] \in {"loop", "exec", "up"} =>
                           \A m \in release'[q] : m \in todo'[q] \/ Version[m] \in recorded'
                      /\ phase'[q] = "exec" => writer' = q /\ todo'[q] # {}
                      /\ phase'[q] = "up" => todo'[q] = {}
    BY DEF Progress
  <2>1. CASE q = p
    BY <1>1, <2>1 DEF SchemaInv, SchemaOK, Progress, c
  <2>2. CASE q # p
    BY <1>1, <2>2 DEF SchemaInv, SchemaOK, Progress, Unlocked
  <2>3. QED
    BY <2>1, <2>2
<1>5. QED
  BY <1>2, <1>3, <1>4 DEF SchemaInv

\* Every step keeps the invariant.
LEMMA SchemaInductive ==
  ASSUME SchemaInv, SchemaStep PROVE SchemaInv'
<1>1. CASE UNCHANGED schemaVars
  BY <1>1 DEF schemaVars, SchemaInv, SchemaOK, AppliedOnce, Progress
<1>2. ASSUME NEW p \in Processes, Start(p) PROVE SchemaInv'
  <2>1. PICK rel \in Releases : release' = [release EXCEPT ![p] = rel]
    BY <1>2 DEF Start, LoadMigrations
  <2>2. rel \subseteq Migrations
    BY ReleaseAssumption
  <2>3. QED
    BY <1>2, <2>1, <2>2 DEF Start, SchemaInv, SchemaOK, AppliedOnce, Progress, Phases
<1>3. ASSUME NEW p \in Processes, GetAppliedMigrations(p) PROVE SchemaInv'
  <2>1. Pending(p) \subseteq Migrations
        /\ \A m \in release[p] : m \in Pending(p) \/ Version[m] \in recorded
    BY DEF Pending, SchemaInv, SchemaOK
  <2>2. SchemaOK'
    BY <1>3, <2>1 DEF GetAppliedMigrations, SchemaInv, SchemaOK, Phases
  <2>3. AppliedOnce'
    BY <1>3 DEF GetAppliedMigrations, SchemaInv, AppliedOnce
  <2>4. Progress'
    BY <1>3, <2>1 DEF GetAppliedMigrations, SchemaInv, SchemaOK, Progress
  <2>5. QED
    BY <2>2, <2>3, <2>4 DEF SchemaInv
<1>4. ASSUME NEW p \in Processes, Execute(p) PROVE SchemaInv'
  <2>1. \A q \in Processes : phase[q] # "exec"
    BY <1>4, ProcessAssumption DEF Execute, SchemaInv, Progress
  <2>2. QED
    BY <1>4, <2>1 DEF Execute, SchemaInv, SchemaOK, AppliedOnce, Progress, Phases
<1>5. ASSUME NEW p \in Processes, Commit(p) PROVE SchemaInv'
  BY <1>5, GoingDown, Committing DEF Commit, Fail
<1>6. ASSUME NEW p \in Processes, Ready(p) PROVE SchemaInv'
  BY <1>6 DEF Ready, SchemaInv, SchemaOK, AppliedOnce, Progress, Phases
<1>7. ASSUME NEW p \in Processes, Die(p) \/ ExecuteFails(p) PROVE SchemaInv'
  BY <1>7, GoingDown DEF Die, ExecuteFails, Fail
<1>8. QED
  BY <1>1, <1>2, <1>3, <1>4, <1>5, <1>6, <1>7 DEF SchemaStep, RunMigrations

\* An empty database and no process.
LEMMA SchemaStarts == MigrationsInit => SchemaInv
BY DEF MigrationsInit, SchemaInv, SchemaOK, AppliedOnce, Progress, Phases

\* Only a commit runs a migration's SQL for good: of the first file on the list
\* of the process with the lock.
LEMMA CommitsInOrder ==
  ASSUME SchemaInv, SchemaStep, NEW m \in Migrations, applied'[m] > applied[m]
  PROVE  \A n \in release[writer] : Version[n] < Version[m] => applied[n] > 0
<1>1. PICK p \in Processes : /\ phase[p] = "exec"
                             /\ applied' = [applied EXCEPT ![Current(p)] = @ + 1]
  <2>1. applied' # applied
    BY DEF SchemaInv, SchemaOK
  <2>2. QED
    BY <2>1 DEF SchemaStep, schemaVars, Start, RunMigrations, GetAppliedMigrations, Execute, Commit,
                Ready, ExecuteFails, Fail, Die
<1>2. writer = p /\ todo[p] # {}
  BY <1>1 DEF SchemaInv, Progress
<1>3. m = Current(p)
  BY <1>1 DEF SchemaInv, SchemaOK
<1>4. \A n \in todo[p] : Version[m] <= Version[n]
  BY <1>2, <1>3, CurrentIsFirst DEF SchemaInv
<1>5. release[p] \subseteq Migrations /\ todo[p] \subseteq Migrations
      /\ \A n \in Migrations : Version[n] \in Nat
  BY VersionAssumption DEF SchemaInv, SchemaOK
<1>6. ASSUME NEW n \in release[p], Version[n] < Version[m] PROVE applied[n] > 0
  <2>1. n \notin todo[p]
    BY <1>4, <1>5, <1>6
  <2>2. Version[n] \in recorded
    BY <1>1, <2>1 DEF SchemaInv, Progress
  <2>3. QED
    BY <1>5, <2>2 DEF SchemaInv, AppliedOnce
<1>7. QED
  BY <1>2, <1>6

\* The invariant says what the properties say.
LEMMA SchemaInvSays == SchemaInv => AppliedOnce /\ UpMeansMigrated
<1>1. ASSUME SchemaInv, NEW p \in Processes, phase[p] = "up", NEW m \in release[p]
      PROVE  applied[m] > 0
  BY <1>1 DEF SchemaInv, SchemaOK, Progress, AppliedOnce
<1>2. QED
  BY <1>1 DEF SchemaInv, UpMeansMigrated

-----------------------------------------------------------------------------
(* The theorems.                                                           *)

\* Every step of the migrations is a step of some process on the schema.
LEMMA MigrationsSteps == [MigrationsNext]_migrationVars => SchemaStep
BY DEF MigrationsNext, migrationVars, SchemaStep, schemaVars

\* The inductive invariant of the migrations.
THEOREM SchemaInvHolds == MigrationsSpec => []SchemaInv
<1>1. SchemaInv /\ [MigrationsNext]_migrationVars => SchemaInv'
  BY MigrationsSteps, SchemaInductive
<1>2. QED
  BY <1>1, SchemaStarts, PTL DEF MigrationsSpec

\* No interleaving of processes, crashes and failed transactions applies a
\* migration twice or records one that is not applied.
THEOREM AppliedOnceHolds == MigrationsSpec => []AppliedOnce
BY SchemaInvHolds, SchemaInvSays, PTL

\* A process serves only on a schema that has all migrations of its release.
THEOREM UpMeansMigratedHolds == MigrationsSpec => []UpMeansMigrated
BY SchemaInvHolds, SchemaInvSays, PTL

\* Migrations commit in the order of their versions.
THEOREM PredecessorsFirstHolds == MigrationsSpec => PredecessorsFirst
<1>1. SchemaInv /\ [MigrationsNext]_migrationVars =>
        [\A m \in Migrations : applied'[m] > applied[m] =>
           \A n \in release[writer] : Version[n] < Version[m] => applied[n] > 0]_migrationVars
  BY MigrationsSteps, CommitsInOrder
<1>2. QED
  BY <1>1, SchemaInvHolds, PTL DEF MigrationsSpec, PredecessorsFirst

-----------------------------------------------------------------------------
(* The service with its settings.                                          *)

USE DEF memoryVars, configVars, hotReloadVars, migrationVars

\* Whatever the configuration does, the schema sees a step of some process.
LEMMA HotReloadSteps == [HotReloadNext]_hotReloadVars => SchemaStep
BY DEF HotReloadNext, Startup, StartProcess, MigrationStep, CommitMigration, Serve, Down,
       UpdateConfig, UpdateSystemConfig, UpdateConfigFails, ReloadLoop, GetSystemConfig, Update,
       StrategyLoop, ReadStrategy, SwitchStrategy, RunMigrations, SchemaStep, schemaVars

\* The invariant of the migrations holds in the service as a whole.
THEOREM SchemaHolds == HotReloadSpec => []SchemaInv
<1>1. HotReloadInit => SchemaInv
  BY SchemaStarts DEF HotReloadInit
<1>2. SchemaInv /\ [HotReloadNext]_hotReloadVars => SchemaInv'
  BY HotReloadSteps, SchemaInductive
<1>3. QED
  BY <1>1, <1>2, PTL DEF HotReloadSpec

-----------------------------------------------------------------------------
(* Types.                                                                  *)

\* The type invariant but for the schema and the bounds on what is read.
MemoryOK ==
  /\ DOMAIN table = Settings /\ \A p \in Processes : DOMAIN put[p] \subseteq Settings
  /\ DOMAIN put = Processes
  /\ DOMAIN hot = Settings /\ DOMAIN static = Settings
  /\ dbConfig = {} \/ \E x : dbConfig = {x}
  /\ mgrCfg = {} \/ \E x : mgrCfg = {x}
  /\ ~ Up(Server) => dbConfig = {} /\ mgrCfg = {}
  /\ faults \in Nat

\* Type correctness of the table, the PUT handlers and the server's memory: in
\* particular nothing that was read before a crash is applied after it.
THEOREM TypeCorrect == HotReloadSpec => []HotReloadTypeOK
<1>1. HotReloadInit => MemoryOK
  BY DefaultAssumption DEF HotReloadInit, MigrationsInit, MemoryOK, NothingLeft
<1>2. SchemaInv /\ MemoryOK /\ [HotReloadNext]_hotReloadVars => MemoryOK'
  <2> SUFFICES ASSUME SchemaInv, MemoryOK, [HotReloadNext]_hotReloadVars PROVE MemoryOK'
    OBVIOUS
  <2>0. phase \in [Processes -> Phases] /\ Server \in Processes
    BY ServerAssumption DEF SchemaInv, SchemaOK
  <2> USE DEF MemoryOK, Up
  <2>1. CASE UNCHANGED hotReloadVars
    BY <2>1
  <2>2. ASSUME NEW p \in Processes, StartProcess(p) PROVE MemoryOK'
    BY <2>0, <2>2 DEF StartProcess, Start, Loaded
  <2>3. ASSUME NEW p \in Processes, MigrationStep(p) PROVE MemoryOK'
    BY <2>0, <2>3 DEF MigrationStep, GetAppliedMigrations, Execute
  <2>4. ASSUME NEW p \in Processes, CommitMigration(p) PROVE MemoryOK'
    <3>1. DOMAIN table' = Settings /\ faults' = faults
      BY <2>4 DEF CommitMigration, Commit, SeedTable
    <3>2. phase[p] = "exec"
      BY <2>4 DEF CommitMigration, Commit
    <3>3. phase'[Server] = phase[Server] \/ phase[Server] = "exec"
      BY <2>0, <2>4, <3>2 DEF CommitMigration, Commit, Fail
    <3>4. UNCHANGED <<put, puts, memoryVars>>
      BY <2>4 DEF CommitMigration
    <3>5. QED
      BY <3>1, <3>3, <3>4
  <2>5. ASSUME NEW p \in Processes, Serve(p) PROVE MemoryOK'
    BY <2>0, <2>5 DEF Serve, NewHotReloadConfig, Ready
  <2>6. ASSUME NEW p \in Processes, Down(p) PROVE MemoryOK'
    <3>1. /\ put' = [put EXCEPT ![p] = NothingLeft] /\ table' = table /\ faults' \in Nat
          /\ phase' = [phase EXCEPT ![p] = "down"]
      BY <2>6, FaultsAssumption DEF Down, Die, ExecuteFails, Fail
    <3>2. /\ DOMAIN put' = Processes
          /\ \A q \in Processes : DOMAIN put'[q] \subseteq Settings
      BY <3>1 DEF NothingLeft
    <3>3. CASE p = Server
      BY <2>6, <3>1, <3>2, <3>3, DefaultAssumption DEF Down
    <3>4. CASE p # Server
      BY <2>0, <2>6, <3>1, <3>2, <3>4 DEF Down
    <3>5. QED
      BY <3>3, <3>4
  <2>7. ASSUME NEW p \in Processes, UpdateConfig(p) PROVE MemoryOK'
    BY <2>7, BodiesAssumption DEF UpdateConfig
  <2>8. ASSUME NEW p \in Processes, UpdateSystemConfig(p) PROVE MemoryOK'
    <3>1. PICK s \in DOMAIN put[p] : /\ table' = [table EXCEPT ![s] = put[p][s]]
                                     /\ put' = [put EXCEPT ![p] = Left(p, s)]
      BY <2>8 DEF UpdateSystemConfig
    <3>2. DOMAIN Left(p, s) \subseteq Settings
      BY DEF Left
    <3>3. QED
      BY <2>8, <3>1, <3>2 DEF UpdateSystemConfig
  <2>9. ASSUME NEW p \in Processes, UpdateConfigFails(p) PROVE MemoryOK'
    <3>1. DOMAIN NothingLeft \subseteq Settings /\ put' = [put EXCEPT ![p] = NothingLeft]
      BY <2>9 DEF UpdateConfigFails, NothingLeft
    <3>2. faults' \in Nat /\ UNCHANGED <<phase, table, memoryVars>>
      BY <2>9 DEF UpdateConfigFails
    <3>3. QED
      BY <3>1, <3>2
  <2>10. CASE GetSystemConfig
    BY <2>10 DEF GetSystemConfig
  <2>11. CASE Update
    BY <2>11 DEF Update
  <2>12. CASE ReadStrategy
    BY <2>12 DEF ReadStrategy
  <2>13. CASE SwitchStrategy
    BY <2>13 DEF SwitchStrategy
  <2>14. QED
    BY <2>1, <2>2, <2>3, <2>4, <2>5, <2>6, <2>7, <2>8, <2>9, <2>10, <2>11, <2>12, <2>13
       DEF HotReloadNext, Startup, ReloadLoop, StrategyLoop
<1>3. SchemaInv /\ MemoryOK => HotReloadTypeOK
  <2>1. ASSUME NEW S, S = {} \/ \E x : S = {x} PROVE Cardinality(S) <= 1
    <3>1. Cardinality({}) = 0
      BY FS_EmptySet
    <3>2. \A x : Cardinality({x}) = 1
      BY FS_Singleton
    <3>3. Cardinality(S) = 0 \/ Cardinality(S) = 1
      BY <2>1, <3>1, <3>2, Zenon
    <3>4. QED
      BY <3>3
  <2>2. QED
    BY <2>1 DEF SchemaInv, SchemaOK, MemoryOK, HotReloadTypeOK, MigrationsTypeOK
<1>4. QED
  BY <1>1, <1>2, <1>3, SchemaHolds, PTL DEF HotReloadSpec

-----------------------------------------------------------------------------
(* The running configuration.                                              *)

\* What validate guarantees of the configuration a process was started with.
StartedSane ==
  phase[Server] # "down" =>
    \A s \in Settings : /\ Kind[s] = "name" => static[s] \in ValidStrategies
                        /\ Kind[s] = "count" => static[s] \in Int /\ static[s] >= 1

\* The values that the update functions let through are usable.
LEMMA AcceptedIsUsable ==
  ASSUME NEW s \in Settings, NEW text, Accepts(s, text) PROVE Usable(s, text)
BY KindAssumption DEF Accepts, Usable

\* The server never runs with a strategy that is not registered or a count that
\* is not positive, whatever is in the table.
THEOREM HotIsSaneHolds == HotReloadSpec => []HotIsSane
<1>1. HotReloadInit => StartedSane /\ HotIsSane
  BY ServerAssumption DEF HotReloadInit, MigrationsInit, StartedSane, HotIsSane, Up
<1>2. SchemaInv /\ StartedSane /\ HotIsSane /\ [HotReloadNext]_hotReloadVars
        => StartedSane' /\ HotIsSane'
  <2> SUFFICES ASSUME SchemaInv, StartedSane, HotIsSane, [HotReloadNext]_hotReloadVars
               PROVE  StartedSane' /\ HotIsSane'
    OBVIOUS
  <2>0. phase \in [Processes -> Phases] /\ Server \in Processes
    BY ServerAssumption DEF SchemaInv, SchemaOK
  <2> USE DEF StartedSane, HotIsSane, Up
  <2>1. CASE /\ UNCHANGED <<static, hot, active>>
             /\ phase'[Server] = phase[Server] \/ (phase[Server] # "down" /\ phase'[Server] # "up")
    BY <2>1 DEF Usable
  <2>2. ASSUME NEW p \in Processes, StartProcess(p) PROVE StartedSane' /\ HotIsSane'
    <3>1. CASE p # Server
      BY <2>0, <2>1, <2>2, <3>1 DEF StartProcess, Start
    <3>2. CASE p = Server
      <4>1. PICK env \in Environments : Validate(Loaded(env)) /\ static' = Loaded(env)
        BY <2>2, <3>2 DEF StartProcess
      <4>2. phase'[Server] = "query"
        BY <2>0, <2>2, <3>2 DEF StartProcess, Start
      <4>3. \A s \in Settings : Kind[s] = "count" => Loaded(env)[s] \in Int
        BY DefaultAssumption DEF Loaded, GetEnv
      <4>4. QED
        BY <4>1, <4>2, <4>3 DEF Validate, ValidSetting
    <3>3. QED
      BY <3>1, <3>2
  <2>3. ASSUME NEW p \in Processes, MigrationStep(p) \/ CommitMigration(p)
        PROVE  StartedSane' /\ HotIsSane'
    <3>1. UNCHANGED <<static, hot, active>>
      BY <2>3 DEF MigrationStep, CommitMigration
    <3>2. phase'[Server] = phase[Server] \/ (phase[Server] # "down" /\ phase'[Server] # "up")
      BY <2>0, <2>3
         DEF MigrationStep, CommitMigration, GetAppliedMigrations, Execute, Commit, Fail
    <3>3. QED
      BY <2>1, <3>1, <3>2
  <2>4. ASSUME NEW p \in Processes, Serve(p) PROVE StartedSane' /\ HotIsSane'
    <3>1. CASE p # Server
      BY <2>0, <2>1, <2>4, <3>1 DEF Serve, NewHotReloadConfig, Ready
    <3>2. CASE p = Server
      <4>1. phase[Server] = "loop" /\ static' = static /\ hot' = static /\ active' = static[Strategy]
        BY <2>4, <3>2 DEF Serve, NewHotReloadConfig, Ready
      <4>2. \A s \in Settings : \/ Usable(s, static[s])
                                \/ Kind[s] \in {"number", "ratio"}
        BY <4>1, KindAssumption DEF Usable
      <4>3. static[Strategy] \in ValidStrategies
        BY <4>1, StrategyAssumption
      <4>4. QED
        BY <4>1, <4>2, <4>3 DEF Usable
    <3>3. QED
      BY <3>1, <3>2
  <2>5. ASSUME NEW p \in Processes, Down(p) PROVE StartedSane' /\ HotIsSane'
    <3>1. phase' = [phase EXCEPT ![p] = "down"]
      BY <2>5 DEF Down, Die, ExecuteFails, Fail
    <3>2. CASE p = Server
      BY <2>0, <3>1, <3>2
    <3>3. CASE p # Server
      BY <2>0, <2>1, <2>5, <3>1, <3>3 DEF Down
    <3>4. QED
      BY <3>2, <3>3
  <2>6. CASE Update
    <3>1. PICK read \in dbConfig :
            hot' = [s \in Settings |-> IF Accepts(s, read[s]) THEN read[s] ELSE hot[s]]
      BY <2>6 DEF Update
    <3>2. \A s \in Settings : Usable(s, hot'[s]) \/ hot'[s] = hot[s]
      BY <3>1, AcceptedIsUsable
    <3>3. UNCHANGED <<phase, static, active>>
      BY <2>6 DEF Update
    <3>4. \A s \in Settings : \/ Usable(s, hot'[s])
                              \/ Kind[s] \in {"number", "ratio"} /\ hot'[s] = static[s]
      BY <2>6, <3>2 DEF Update
    <3>5. QED
      BY <3>3, <3>4 DEF Usable
  <2>7. CASE SwitchStrategy
    BY <2>7 DEF SwitchStrategy, Usable
  <2>8. CASE UNCHANGED <<phase, static, hot, active>>
    BY <2>1, <2>8
  <2>9. QED
    BY <2>2, <2>3, <2>4, <2>5, <2>6, <2>7, <2>8
       DEF HotReloadNext, Startup, ReloadLoop, StrategyLoop, UpdateConfig, UpdateSystemConfig,
           UpdateConfigFails, GetSystemConfig, ReadStrategy
<1>3. QED
  BY <1>1, <1>2, SchemaHolds, PTL DEF HotReloadSpec

\* No migration, crash or restart changes an entry that an administrator has
\* set: only a PUT that carries it does.
THEOREM AdminValueSurvivesHolds == HotReloadSpec => AdminValueSurvives
<1> DEFINE Kept == \A s \in Settings : table[s] # NoText /\ table'[s] # table[s] =>
                      \E p \in Processes : s \in DOMAIN put[p] /\ table'[s] = put[p][s]
<1>1. HotReloadTypeOK /\ [HotReloadNext]_hotReloadVars => Kept
  <2> SUFFICES ASSUME HotReloadTypeOK, [HotReloadNext]_hotReloadVars PROVE Kept
    OBVIOUS
  <2>1. CASE table' = table
    BY <2>1
  <2>2. ASSUME NEW p \in Processes, CommitMigration(p) PROVE Kept
    BY <2>2 DEF CommitMigration, SeedTable
  <2>3. ASSUME NEW p \in Processes, UpdateSystemConfig(p) PROVE Kept
    <3>1. PICK s \in DOMAIN put[p] : table' = [table EXCEPT ![s] = put[p][s]]
      BY <2>3 DEF UpdateSystemConfig
    <3>2. \A r \in Settings : r # s => table'[r] = table[r]
      BY <3>1 DEF HotReloadTypeOK
    <3>3. s \in Settings => table'[s] = put[p][s]
      BY <3>1 DEF HotReloadTypeOK
    <3>4. QED
      BY <3>2, <3>3
  <2>4. QED
    BY <2>1, <2>2, <2>3
       DEF HotReloadNext, Startup, StartProcess, MigrationStep, Serve, Down, UpdateConfig,
           UpdateConfigFails, ReloadLoop, GetSystemConfig, Update, StrategyLoop, ReadStrategy,
           SwitchStrategy
<1>2. QED
  BY <1>1, TypeCorrect, PTL DEF HotReloadSpec, AdminValueSurvives
=============================================================================
