----------------------------- MODULE HotReload -----------------------------
(***************************************************************************)
(* The configuration: what Load makes of the environment, the table        *)
(* system_config that migrations create and seed and PUT /admin/config     *)
(* writes to, the loop that copies it into the running configuration       *)
(* (HotReloadConfig), and the key pool's loop that switches the strategy.  *)
(* All of it happens in processes that migrate, serve and die as in        *)
(* Migrations; the memory modelled is that of one of them, Server.         *)
(*                                                                         *)
(* A text is an integer (ratios are in hundredths) or a word; NoText is an *)
(* absent entry or variable.                                               *)
(***************************************************************************)
EXTENDS Migrations

CONSTANTS
  Server,            \* the process whose memory is modelled
  Settings, Strategy,   \* the hot settings; the one that names the strategy
  Kind,              \* "name", "count" (checked by validate), "number" or "ratio"
  ValidStrategies,   \* ValidStrategies, and what NewManager registers
  NoText, NaN,
  Default,           \* the default of each setting
  Seeded,            \* the values of 005_seed_system_config.sql
  Seed,              \* that migration
  Environments,      \* the environments a process may be started in
  Bodies,            \* the bodies of PUT /admin/config
  MaxPuts            \* bound on the PUT requests

ASSUME ServerAssumption   == Server \in Processes /\ Seed \in Migrations
ASSUME StrategyAssumption == Strategy \in Settings /\ Kind[Strategy] = "name"
ASSUME KindAssumption     == Kind \in [Settings -> {"name", "count", "number", "ratio"}]
ASSUME DefaultAssumption  == /\ DOMAIN Default = Settings
                             /\ \A s \in Settings : Kind[s] = "count" => Default[s] \in Int
ASSUME BodiesAssumption   == \A body \in Bodies : DOMAIN body \subseteq Settings
ASSUME PutsAssumption     == MaxPuts \in Nat

VARIABLES
  table,      \* system_config
  put, puts,  \* what each process has left to write of a PUT; PUTs so far
  static,     \* the Config that Load returned
  hot,        \* HotReloadConfig
  dbConfig,   \* what the reload loop has read and not yet applied, in a set
  mgrCfg,     \* the strategy updateStrategy has read and not yet applied, in a set
  active      \* activeStmt

memoryVars == <<static, hot, dbConfig, mgrCfg, active>>
configVars == <<table, put, puts, memoryVars>>
hotReloadVars == <<migrationVars, configVars>>

NothingLeft == [s \in {} |-> NoText]
Up(p) == phase[p] = "up"

-----------------------------------------------------------------------------
(* config.go, helpers.go, validators.go.                                   *)

\* getEnv, getEnvAsInt, getEnvAsFloat: what cannot be parsed is the default.
GetEnv(s, text) ==
  IF \/ Kind[s] = "name" /\ text # NoText
     \/ Kind[s] # "name" /\ text \in Int
     \/ Kind[s] = "ratio" /\ text = NaN
  THEN text ELSE Default[s]

Loaded(env) == [s \in Settings |-> GetEnv(s, env[s])]

\* validateStrategy and validatePositiveInt; the other hot settings have no check.
ValidSetting(s, value) == /\ Kind[s] = "name" => value \in ValidStrategies
                          /\ Kind[s] = "count" => value >= 1

Validate(cfg) == \A s \in Settings : ValidSetting(s, cfg[s])

\* main up to the migrations; with an environment that validate refuses it exits.
StartProcess(p) ==
  /\ Start(p)
  /\ IF p = Server
     THEN \E env \in Environments : Validate(Loaded(env)) /\ static' = Loaded(env)
     ELSE UNCHANGED static
  /\ UNCHANGED <<table, put, puts, hot, dbConfig, mgrCfg, active>>

-----------------------------------------------------------------------------
(* The table.                                                              *)

\* INSERT OR REPLACE.
SeedReplaces == Seeded

\* INSERT OR IGNORE.
SeedTable == [s \in Settings |-> IF table[s] = NoText THEN Seeded[s] ELSE table[s]]

CommitMigration(p) ==
  /\ Commit(p)
  /\ table' = IF applied'[Seed] > applied[Seed] THEN SeedTable ELSE table
  /\ UNCHANGED <<put, puts, memoryVars>>

\* UpdateConfig: the body is decoded, nothing in it is checked.
UpdateConfig(p) ==
  /\ Up(p) /\ put[p] = NothingLeft /\ puts < MaxPuts /\ puts' = puts + 1
  /\ \E body \in Bodies : put' = [put EXCEPT ![p] = body]
  /\ UNCHANGED <<migrationVars, table, memoryVars>>

Left(p, s) == [r \in DOMAIN put[p] \ {s} |-> put[p][r]]

\* UpdateSystemConfig for the next entry of the map, in an order of its own.
UpdateSystemConfig(p) ==
  /\ Up(p)
  /\ \E s \in DOMAIN put[p] : /\ table' = [table EXCEPT ![s] = put[p][s]]
                              /\ put' = [put EXCEPT ![p] = Left(p, s)]
  /\ UNCHANGED <<migrationVars, puts, memoryVars>>

\* An upsert fails: 500, the entries already written stay.
UpdateConfigFails(p) ==
  /\ Up(p) /\ put[p] # NothingLeft /\ faults < MaxFaults /\ faults' = faults + 1
  /\ put' = [put EXCEPT ![p] = NothingLeft]
  /\ UNCHANGED <<recorded, applied, writer, phase, release, todo, table, puts, memoryVars>>

-----------------------------------------------------------------------------
(* reload.go and the strategy of the key pool.                             *)

NewHotReloadConfig == hot' = static

\* main after the migrations: NewHotReloadConfig, NewManager, the loops.
Serve(p) ==
  /\ Ready(p)
  /\ IF p = Server
     THEN /\ NewHotReloadConfig /\ active' = static[Strategy]
          /\ dbConfig' = {} /\ mgrCfg' = {}
     ELSE UNCHANGED <<hot, active, dbConfig, mgrCfg>>
  /\ UNCHANGED <<table, put, puts, static>>

\* updateInt without the test for a positive number.
AcceptsAnyInt(s, text) ==
  \/ Kind[s] = "name" /\ text \in ValidStrategies
  \/ Kind[s] \in {"count", "number"} /\ text \in Int
  \/ Kind[s] = "ratio" /\ (text = NaN \/ text \in 0..100)

\* updateStrategy, updateInt, updateFloat: anything else leaves the field as it
\* is.  (ParseFloat knows NaN, and no comparison with it is true.)
Accepts(s, text) ==
  \/ Kind[s] = "name" /\ text \in ValidStrategies
  \/ Kind[s] \in {"count", "number"} /\ text \in Int /\ text > 0
  \/ Kind[s] = "ratio" /\ (text = NaN \/ text \in 0..100)

\* A loop that is started before the migrations.
GetSystemConfigEarly ==
  /\ dbConfig = {} /\ dbConfig' = {table}
  /\ UNCHANGED <<migrationVars, table, put, puts, static, hot, mgrCfg, active>>

\* StartReloadLoop: GetSystemConfig on a tick, then Update.
GetSystemConfig ==
  /\ Up(Server) /\ dbConfig = {} /\ dbConfig' = {table}
  /\ UNCHANGED <<migrationVars, table, put, puts, static, hot, mgrCfg, active>>

\* A loop that gives up when it meets a value it cannot use.
UpdateStops ==
  /\ Up(Server)
  /\ \E read \in dbConfig :
       /\ \A s \in Settings : Accepts(s, read[s])
       /\ hot' = read
  /\ dbConfig' = {}
  /\ UNCHANGED <<migrationVars, table, put, puts, static, mgrCfg, active>>

Update ==
  /\ Up(Server)
  /\ \E read \in dbConfig :
       hot' = [s \in Settings |-> IF Accepts(s, read[s]) THEN read[s] ELSE hot[s]]
  /\ dbConfig' = {}
  /\ UNCHANGED <<migrationVars, table, put, puts, static, mgrCfg, active>>

\* Manager.updateStrategy: Get, then the switch under the write lock.
ReadStrategy ==
  /\ Up(Server) /\ mgrCfg = {} /\ mgrCfg' = {hot[Strategy]}
  /\ UNCHANGED <<migrationVars, table, put, puts, static, hot, dbConfig, active>>

SwitchStrategy ==
  /\ Up(Server)
  /\ \E name \in mgrCfg : active' = IF name \in ValidStrategies THEN name ELSE active
  /\ mgrCfg' = {}
  /\ UNCHANGED <<migrationVars, table, put, puts, static, hot, dbConfig>>

\* A process that goes down takes its handlers and its memory with it.
Down(p) ==
  /\ Die(p) \/ ExecuteFails(p)
  /\ put' = [put EXCEPT ![p] = NothingLeft]
  /\ IF p = Server
     THEN /\ static' = Default /\ hot' = Default /\ active' = Default[Strategy]
          /\ dbConfig' = {} /\ mgrCfg' = {}
     ELSE UNCHANGED memoryVars
  /\ UNCHANGED <<table, puts>>

-----------------------------------------------------------------------------
HotReloadInit ==
  /\ MigrationsInit
  /\ table = [s \in Settings |-> NoText]
  /\ put = [p \in Processes |-> NothingLeft] /\ puts = 0
  /\ static = Default /\ hot = Default /\ active = Default[Strategy]
  /\ dbConfig = {} /\ mgrCfg = {}

\* Steps of the migrations that leave the configuration alone.
MigrationStep(p) == (GetAppliedMigrations(p) \/ Execute(p)) /\ UNCHANGED configVars

Startup(p)   == StartProcess(p) \/ MigrationStep(p) \/ CommitMigration(p) \/ Serve(p)
ReloadLoop   == GetSystemConfig \/ Update
StrategyLoop == ReadStrategy \/ SwitchStrategy

HotReloadNext == \/ \E p \in Processes : \/ Startup(p) \/ Down(p)
                                         \/ UpdateConfig(p) \/ UpdateSystemConfig(p)
                                         \/ UpdateConfigFails(p)
                 \/ ReloadLoop \/ StrategyLoop

HotReloadSpec == HotReloadInit /\ [][HotReloadNext]_hotReloadVars

\* The container is restarted (docker-compose.yml), startups and handlers run
\* on, tickers tick and reads of the table succeed now and then.
HotReloadFairness ==
  /\ \A p \in Processes : WF_hotReloadVars(Startup(p)) /\ WF_hotReloadVars(UpdateSystemConfig(p))
  /\ WF_hotReloadVars(ReloadLoop) /\ WF_hotReloadVars(StrategyLoop)

FairHotReloadSpec == HotReloadSpec /\ HotReloadFairness

-----------------------------------------------------------------------------
(* Properties.                                                             *)

\* The type invariant of the table, the PUT handlers and the server's memory.
HotReloadTypeOK ==
  /\ MigrationsTypeOK
  /\ DOMAIN table = Settings /\ \A p \in Processes : DOMAIN put[p] \subseteq Settings
  /\ DOMAIN hot = Settings /\ DOMAIN static = Settings
  /\ Cardinality(dbConfig) <= 1 /\ Cardinality(mgrCfg) <= 1
  /\ ~ Up(Server) => dbConfig = {} /\ mgrCfg = {}

\* The values that make sense for a setting (NaN counts: nothing in the code
\* tells it from a ratio).
Usable(s, value) ==
  CASE Kind[s] = "name"  -> value \in ValidStrategies
    [] Kind[s] = "ratio" -> value = NaN \/ value \in 0..100
    [] OTHER             -> value \in Int /\ value >= 1

\* Whatever administrators write into the table and however much of a PUT got
\* there, the values the server runs with are usable: the strategy is one the
\* key pool has registered, the counts are positive, and any other value is
\* usable or the one the process was started with (reload.go:95-143,
\* config.go:147-186).
HotIsSane ==
  Up(Server) =>
    /\ active \in ValidStrategies
    /\ \A s \in Settings :
         \/ Usable(s, hot[s])
         \/ Kind[s] \in {"number", "ratio"} /\ hot[s] = static[s]

\* What an administrator has set stays until it is set again: no crash, restart,
\* upgrade or late seeding of the table changes an entry that is there
\* (005_seed_system_config.sql:2, sqlite_config.go:72-84).
AdminValueSurvives ==
  [][\A s \in Settings : table[s] # NoText /\ table'[s] # table[s] =>
        \E p \in Processes : s \in DOMAIN put[p] /\ table'[s] = put[p][s]]_hotReloadVars

\* Hot reload works: when PUTs and faults have ceased, every usable value of the
\* table becomes the running one and stays it, next to entries that are not
\* usable, and the key pool uses the strategy; through failed startups, crashes
\* and half-written PUTs (reload.go:147-173, manager.go:308-325).
ConfigConverges ==
  <>[](/\ Up(Server) /\ active = hot[Strategy]
       /\ \A s \in Settings : Usable(s, table[s]) => hot[s] = table[s])
=============================================================================
