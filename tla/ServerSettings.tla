--------------------------- MODULE ServerSettings ---------------------------
(***************************************************************************)
(* The settings an administrator may change while the server runs.  The    *)
(* environment gives every setting a base value; an override is a row of   *)
(* the database; the running process keeps a copy of what is in force.     *)
(* Settings of RestartSetting take effect at the next start only.          *)
(***************************************************************************)
EXTENDS Integers, FiniteSets, FiniteSetsExt, Tables

CONSTANTS
    Setting,         \* EDITABLE_CONFIG_KEYS
    RestartSetting,  \* RESTART_CONFIG_KEYS
    Value,           \* what overrides may say
    Patch,           \* mutation ids of the requests that change a setting
    None             \* no file, no value, no override

ASSUME SettingAssumption == RestartSetting \subseteq Setting /\ None \notin Value

VARIABLES
    db,       \* the database, a record; see EmptyDatabase
    process,  \* "up", "down", or a step of startServer
    running   \* runtimeConfig: setting -> value in force, None for the base value

settingVars == <<db, process, running>>

\* editableConfigSnapshot(baseConfig) under applicableConfigOverrides
Desired == [k \in Setting |-> IF k \in DOMAIN db.overrides THEN db.overrides[k] ELSE None]

\* What GET and PATCH /operational-settings name as waiting for a restart.
RestartRequired == {k \in RestartSetting : Desired[k] # running[k]}

\* applyImmediateConfig
InForceAfter(change) ==
    IF change.setting \in RestartSetting THEN running
    ELSE [running EXCEPT ![change.setting] = change.value]

\* The rows of server_config_overrides after a change; None removes the override.
Overridden(change) ==
    IF change.value = None THEN Without(db.overrides, {change.setting})
    ELSE Put(db.overrides, change.setting, change.value)

Execute(id, change) ==
    /\ id \notin DOMAIN db.answers
    /\ db' = [db EXCEPT !.overrides = Overridden(change),
                        !.answers = Put(@, id, change)]

\* Mutant: a repeated request is applied to the running process again.
ReplayApplied(id) ==
    /\ id \in DOMAIN db.answers
    /\ running' = InForceAfter(db.answers[id])
    /\ UNCHANGED db

\* The same request again gets the stored answer.
Replay(id) == id \in DOMAIN db.answers /\ UNCHANGED <<db, running>>

\* PATCH /operational-settings: the row, the audit and the answer are committed,
\* then the running process takes the value over.
PatchSettings(id, change) ==
    /\ process = "up"
    /\ \/ Execute(id, change) /\ running' = InForceAfter(change)
       \/ Replay(id)
    /\ UNCHANGED process

\* The process stops between the commit and the change in memory.
StopWhilePatching(id, change) ==
    /\ process = "up"
    /\ Execute(id, change)
    /\ process' = "down"
    /\ UNCHANGED running

\* applyStoredConfigOverrides, the last step before the listeners open.
LoadSettings ==
    /\ process = "settings"
    /\ running' = Desired
    /\ process' = "up"
    /\ UNCHANGED db

Changes == [setting : Setting, value : Value \cup {None}]

\* Settings in force are those of the database, but for those that wait.
SettingsAreInForce ==
    \A k \in Setting : running[k] = Desired[k] \/ k \in RestartRequired
=============================================================================
