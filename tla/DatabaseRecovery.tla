-------------------------- MODULE DatabaseRecovery --------------------------
(***************************************************************************)
(* Replacing the whole database by a backup of it.  An administrator       *)
(* uploads and confirms a file while the server runs; the next start of    *)
(* the process takes a safety backup and replaces the data before it       *)
(* listens.  The process may stop before any step; files and database stay *)
(* as they are then.                                                       *)
(***************************************************************************)
EXTENDS ServerSettings

CONSTANTS
    Entry,    \* what clients write into the database
    Job       \* restore jobs, random ids

VARIABLES
    version,    \* the last migration that the installed program knows
    backups,    \* database files that the administrator has at hand
    upload,     \* the upload being checked
    preview,    \* preview.json, None when absent or older than 15 minutes
    pending,    \* pending.json, None when absent
    safety,     \* before-<job>.sqlite3: job -> database
    lineage,    \* lineage.json: instance ids
    lastResult, \* last-result.json
    outcome,    \* the result that the running start will write
    used,       \* ghost: all instance ids so far
    failed      \* ghost: jobs of which an attempt failed

fileVars == <<backups, upload, preview, pending, safety, lineage, lastResult, version>>

recoveryVars == <<settingVars, fileVars, outcome, used, failed>>

\* entries: the data; auth: the auth_version of the administrator; instance:
\* server_settings.instance_id; schema: the migrations recorded; done: the jobs
\* with a completion audit; overrides and answers: of ServerSettings.
EmptyDatabase ==
    [entries |-> {}, auth |-> 1, instance |-> 1, schema |-> 1, done |-> {},
     overrides |-> NoRows, answers |-> NoRows]

-----------------------------------------------------------------------------
(* While the server runs *)

Commit(e) ==
    /\ process = "up" /\ e \notin db.entries
    /\ db' = [db EXCEPT !.entries = @ \cup {e}]
    /\ UNCHANGED <<fileVars, process, running, outcome, used, failed>>

\* A password change or a revocation of all logins.
AuthorizationChanges ==
    /\ process = "up"
    /\ db' = [db EXCEPT !.auth = @ + 1]
    /\ UNCHANGED <<fileVars, process, running, outcome, used, failed>>

\* The administrator downloads a backup.
TakeBackup ==
    /\ process = "up"
    /\ backups' = backups \cup {db}
    /\ UNCHANGED <<version, running, db, upload, preview, pending, safety, lineage, lastResult,
                   process, outcome, used, failed>>

\* acceptedInstanceIds
AcceptedInstances == {db.instance} \cup lineage

\* POST /preview: a backup, or a safety backup that was downloaded.
Upload(file) ==
    /\ process = "up" /\ upload = None /\ pending = None
    /\ upload' = [file |-> file, auth |-> db.auth]
    /\ UNCHANGED <<version, running, db, backups, preview, pending, safety, lineage, lastResult,
                   process, outcome, used, failed>>

\* After the inspection in another process; the login is checked again.
UploadChecked(j) ==
    /\ process = "up" /\ upload # None
    /\ upload' = None
    /\ j \notin DOMAIN safety \cup failed
    /\ preview # None => preview.id # j
    /\ preview' = IF /\ upload.auth = db.auth
                     /\ upload.file.instance \in AcceptedInstances
                     /\ upload.file.schema = db.schema
                  THEN [id |-> j, file |-> upload.file, auth |-> db.auth,
                        instance |-> db.instance, schema |-> db.schema]
                  ELSE preview
    /\ UNCHANGED <<version, running, db, backups, pending, safety, lineage, lastResult, process,
                   outcome, used, failed>>

PreviewExpires ==
    /\ preview # None /\ preview' = None
    /\ UNCHANGED <<version, running, db, backups, upload, pending, safety, lineage, lastResult,
                   process, outcome, used, failed>>

\* POST /confirm: the job is queued under a new instance id and the process will
\* restart; a repeated request only asks for the restart again.
Confirm ==
    /\ process = "up" /\ preview # None /\ upload = None /\ pending = None
    /\ preview.auth = db.auth
    /\ pending' = [job |-> preview, newInstance |-> Max(used) + 1]
    /\ used' = used \cup {Max(used) + 1}
    /\ UNCHANGED <<version, running, db, backups, upload, preview, safety, lineage, lastResult,
                   process, outcome, failed>>

\* The process stops, whatever it was doing.
ProcessStops ==
    /\ process # "down"
    /\ process' = "down"
    /\ upload' = None
    /\ UNCHANGED <<version, running, db, backups, preview, pending, safety, lineage, lastResult,
                   outcome, used, failed>>

-----------------------------------------------------------------------------
(* startServer, before the listeners open *)

\* A newer program is installed.
Upgrade ==
    /\ process = "down"
    /\ version' = version + 1
    /\ UNCHANGED <<settingVars, backups, upload, preview, pending, safety, lineage,
                   lastResult, outcome, used, failed>>

\* runMigrations: each migration and its row are committed together.
Migrate ==
    /\ process = "down" /\ db.schema < version
    /\ db' = [db EXCEPT !.schema = @ + 1]
    /\ UNCHANGED <<fileVars, process, running, outcome, used, failed>>

StartAt(step) ==
    /\ process' = step
    /\ UNCHANGED <<running, db, fileVars, used>>

\* Mutant: no completion audit is looked for.
NeverCompleted == FALSE

\* The completion audit is in the database.
AlreadyDone == pending.job.id \in db.done

StillAllowed ==
    /\ db.auth = pending.job.auth
    /\ db.instance = pending.job.instance /\ db.schema = pending.job.schema

\* applyPendingDatabaseRestore finds no job, a job that was done, one that is no longer allowed, or one to do.
Start ==
    /\ process = "down" /\ db.schema = version
    /\ IF pending = None
       THEN StartAt("settings") /\ UNCHANGED <<outcome, failed>>
       ELSE IF AlreadyDone
       THEN StartAt("lineage") /\ outcome' = "completed" /\ UNCHANGED failed
       ELSE IF StillAllowed
       THEN StartAt("backup") /\ UNCHANGED <<outcome, failed>>
       ELSE StartAt("result") /\ outcome' = "failed" /\ UNCHANGED failed

\* Mutant: one safety backup is enough.
SafetyBackupOnce ==
    /\ process = "backup"
    /\ process' = "replace"
    /\ safety' = IF safety = NoRows THEN Put(safety, pending.job.id, db) ELSE safety
    /\ UNCHANGED <<version, running, db, backups, upload, preview, pending, lineage, lastResult,
                   outcome, used, failed>>

\* VACUUM INTO a temporary file that is then renamed; one from an earlier attempt
\* of the same job is kept.
SafetyBackup ==
    /\ process = "backup"
    /\ process' = "replace"
    /\ safety' = IF pending.job.id \in DOMAIN safety THEN safety
                 ELSE Put(safety, pending.job.id, db)
    /\ UNCHANGED <<version, running, db, backups, upload, preview, pending, lineage, lastResult,
                   outcome, used, failed>>

\* The transaction that copies every table; logins of before and of the backup end.
Replace ==
    /\ process = "replace"
    /\ process' = "lineage" /\ outcome' = "completed"
    /\ LET source == pending.job.file
       IN  db' = [entries |-> source.entries,
                  auth |-> Max({source.auth, db.auth}) + 1,
                  instance |-> pending.newInstance,
                  schema |-> source.schema,
                  done |-> source.done \cup {pending.job.id},
                  overrides |-> source.overrides, answers |-> source.answers]
    /\ UNCHANGED <<fileVars, running, used, failed>>

\* Anything in the try block throws; the transaction rolls back.
AttemptFails ==
    /\ process \in {"backup", "replace"}
    /\ process' = "result" /\ outcome' = "failed"
    /\ failed' = failed \cup {pending.job.id}
    /\ UNCHANGED <<running, db, fileVars, used>>

\* The ids that backups may have from now on.
LineageOf ==
    lineage \cup {db.instance, pending.job.instance, pending.job.file.instance}

WriteLineage ==
    /\ process = "lineage"
    /\ process' = "result"
    /\ lineage' = LineageOf
    /\ UNCHANGED <<version, running, db, backups, upload, preview, pending, safety, lastResult,
                   outcome, used, failed>>

WriteResult ==
    /\ process = "result"
    /\ process' = "remove"
    /\ lastResult' = [id |-> pending.job.id, status |-> outcome]
    /\ UNCHANGED <<version, running, db, backups, upload, preview, pending, safety, lineage,
                   outcome, used, failed>>

\* The last step of the recovery.
RemovePending ==
    /\ process = "remove"
    /\ process' = "settings"
    /\ pending' = None
    /\ UNCHANGED <<version, running, db, backups, upload, preview, safety, lineage, lastResult,
                   outcome, used, failed>>

RecoveryInit ==
    /\ db = EmptyDatabase /\ used = {1}
    /\ backups = {} /\ safety = NoRows /\ lineage = {} /\ failed = {}
    /\ upload = None /\ preview = None /\ pending = None
    /\ lastResult = None /\ process = "up" /\ outcome = None
    /\ version = 1 /\ running = [k \in Setting |-> None]

RecoveryStep ==
    \/ \E e \in Entry : Commit(e)
    \/ AuthorizationChanges \/ TakeBackup
    \/ \E file \in backups \cup Range(safety) : Upload(file)
    \/ \E j \in Job : UploadChecked(j)
    \/ PreviewExpires \/ Confirm \/ ProcessStops \/ Start \/ SafetyBackup \/ Replace
    \/ AttemptFails \/ WriteLineage \/ WriteResult \/ RemovePending
    \/ Upgrade \/ Migrate

\* Settings are changed, or the stopped program starts with those it finds.
SettingStep ==
    /\ \/ \E id \in Patch : \E change \in Changes :
             PatchSettings(id, change) \/ StopWhilePatching(id, change)
       \/ LoadSettings
    /\ UNCHANGED <<fileVars, outcome, used, failed>>
=============================================================================
