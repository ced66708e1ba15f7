---------------------------- MODULE PublicSafety ----------------------------
(***************************************************************************)
(* What is proved of Public: the database that is replaced by a backup, the *)
(* page of a viewer, the history that the page follows, the count of opens, *)
(* and the summary of the shares, each with its inductive invariant.  No    *)
(* step of the others touches the variables of the database; the page and   *)
(* the count share the rows of the public shares.                           *)
(***************************************************************************)
EXTENDS Public, TableLemmas, SequenceTheorems, FiniteSetTheorems, WellFoundedInduction

-----------------------------------------------------------------------------
(* The database and its restores *)

\* Tables of overrides, and of the answers to change requests.
Overrides == UNION {[K -> Value] : K \in SUBSET Setting}
Answers == UNION {[K -> Changes] : K \in SUBSET Patch}

\* What a database file holds, and a row of restore_jobs.
Database ==
    [entries : SUBSET Entry, auth : Nat, instance : Nat, schema : Nat, done : SUBSET Job,
     overrides : Overrides, answers : Answers]

JobRow == [id : Job, file : Database, auth : Nat, instance : Nat, schema : Nat]

\* The instance ids so far are 1, 2, 3, and so on, to the largest.
Numbered == Max(used) \in Nat \ {0} /\ used = 1..Max(used)

\* The types of the variables of DatabaseRecovery and ServerSettings.
RecoveryTypes ==
    /\ db \in Database /\ db.instance \in used
    /\ backups \subseteq Database /\ IsTable(safety, Job, Database)
    /\ upload # None => upload \in [file : Database, auth : Nat]
    /\ preview # None => preview \in JobRow
    /\ pending # None => pending \in [job : JobRow, newInstance : used]
    /\ version \in Nat
    /\ running \in [Setting -> Value \cup {None}]
    /\ process \in {"up", "down", "settings", "backup", "replace", "lineage", "result",
                    "remove"}

\* The largest of the first numbers is the last.
LEMMA MaxOfInterval ==
    ASSUME NEW n \in Nat \ {0}
    PROVE  Max(1..n) = n
BY DEF Max

\* The larger of two numbers.
LEMMA MaxOfTwo ==
    ASSUME NEW a \in Nat, NEW b \in Nat
    PROVE  Max({a, b}) \in Nat /\ Max({a, b}) >= a /\ Max({a, b}) >= b
<1>1. \E x \in {a, b} : \A y \in {a, b} : x >= y
  OBVIOUS
<1>2. Max({a, b}) \in {a, b} /\ \A y \in {a, b} : Max({a, b}) >= y
  BY <1>1 DEF Max
<1> QED BY <1>2

\* Storing or removing an override leaves a table of overrides.
LEMMA OverridesKept ==
    ASSUME NEW d \in Overrides, NEW k \in Setting, NEW v \in Value
    PROVE  Put(d, k, v) \in Overrides /\ Without(d, {k}) \in Overrides
<1>1. PICK K \in SUBSET Setting : d \in [K -> Value]
  BY DEF Overrides
<1>2. Put(d, k, v) \in [K \cup {k} -> Value]
  BY <1>1 DEF Put
<1>3. Without(d, {k}) \in [K \ {k} -> Value]
  BY <1>1 DEF Without, Restrict
<1>4. K \cup {k} \in SUBSET Setting /\ K \ {k} \in SUBSET Setting
  OBVIOUS
<1> QED BY <1>2, <1>3, <1>4 DEF Overrides

\* Removing an override leaves a table of overrides, whatever the values are.
LEMMA OverridesWithout ==
    ASSUME NEW d \in Overrides, NEW k \in Setting
    PROVE  Without(d, {k}) \in Overrides
<1>1. PICK K \in SUBSET Setting : d \in [K -> Value]
  BY DEF Overrides
<1>3. Without(d, {k}) \in [K \ {k} -> Value]
  BY <1>1 DEF Without, Restrict
<1>4. K \ {k} \in SUBSET Setting
  OBVIOUS
<1> QED BY <1>3, <1>4 DEF Overrides

\* Storing an answer leaves a table of answers.
LEMMA AnswersKept ==
    ASSUME NEW d \in Answers, NEW id \in Patch, NEW change \in Changes
    PROVE  Put(d, id, change) \in Answers
<1>1. PICK K \in SUBSET Patch : d \in [K -> Changes]
  BY DEF Answers
<1>2. Put(d, id, change) \in [K \cup {id} -> Changes]
  BY <1>1 DEF Put
<1>3. K \cup {id} \in SUBSET Patch
  OBVIOUS
<1> QED BY <1>2, <1>3 DEF Answers

\* A change that is executed leaves a database.
LEMMA ExecuteKeepsDatabase ==
    ASSUME db \in Database, NEW id \in Patch, NEW change \in Changes, Execute(id, change)
    PROVE  /\ db' \in Database /\ db'.instance = db.instance
           /\ db'.overrides = Overridden(change)
<1>1. change.setting \in Setting /\ change.value \in Value \cup {None}
  BY DEF Changes
<1>2. db.overrides \in Overrides /\ db.answers \in Answers
  BY DEF Database
<1>3. Overridden(change) \in Overrides
  BY <1>1, <1>2, OverridesKept, OverridesWithout DEF Overridden
<1>4. Put(db.answers, id, change) \in Answers
  BY <1>2, AnswersKept
<1> QED BY <1>3, <1>4 DEF Execute, Database

\* Every step of the recovery keeps the types of files and database.
LEMMA RecoveryTypesKept ==
    ASSUME RecoveryTypes, Numbered, RecoveryStep \/ SettingStep \/ UNCHANGED recoveryVars,
           \* pending exists where the recovery uses it
           process \in {"backup", "replace", "lineage", "result", "remove"} => pending # None
    PROVE  RecoveryTypes' /\ Numbered'
<1> USE DEF RecoveryTypes
<1>n. used' = used => Numbered'
  BY DEF Numbered
<1>1. ASSUME NEW e \in Entry, Commit(e) PROVE RecoveryTypes' /\ Numbered'
  BY <1>1, <1>n DEF Commit, fileVars, Database
<1>2. CASE AuthorizationChanges
  BY <1>2, <1>n DEF AuthorizationChanges, fileVars, Database
<1>3. CASE TakeBackup
  BY <1>3, <1>n DEF TakeBackup
<1>4. ASSUME NEW file \in backups \cup Range(safety), Upload(file)
      PROVE  RecoveryTypes' /\ Numbered'
  <2>1. file \in Database
    BY DEF Range, IsTable
  <2>2. db.auth \in Nat
    BY DEF Database
  <2> QED BY <1>4, <1>n, <2>1, <2>2 DEF Upload
<1>5. ASSUME NEW j \in Job, UploadChecked(j) PROVE RecoveryTypes' /\ Numbered'
  <2>1. preview' # preview => preview' \in JobRow
    <3>1. upload.file \in Database /\ db.auth \in Nat /\ db.instance \in Nat /\ db.schema \in Nat
      BY <1>5 DEF UploadChecked, Database
    <3> QED BY <1>5, <3>1 DEF UploadChecked, JobRow
  <2> QED BY <1>5, <1>n, <2>1 DEF UploadChecked
<1>6. CASE PreviewExpires
  BY <1>6, <1>n DEF PreviewExpires
<1>7. CASE Confirm
  <2>1. PICK n \in Nat \ {0} : n = Max(used)
    BY DEF Numbered
  <2>2. used' = 1..(n + 1)
    BY <1>7, <2>1 DEF Confirm, Numbered
  <2>3. Max(used') = n + 1
    BY <2>1, <2>2, MaxOfInterval
  <2>4. Numbered'
    BY <2>1, <2>2, <2>3 DEF Numbered
  <2>5. pending' \in [job : JobRow, newInstance : used']
    BY <1>7 DEF Confirm
  <2>6. db'.instance \in used'
    BY <1>7 DEF Confirm
  <2> QED BY <1>7, <2>4, <2>5, <2>6 DEF Confirm
<1>8. CASE ProcessStops
  BY <1>8, <1>n DEF ProcessStops
<1>9. CASE Start
  BY <1>9, <1>n DEF Start, StartAt, fileVars
<1>10. CASE SafetyBackup
  <2>1. pending.job.id \in Job
    BY <1>10 DEF SafetyBackup, JobRow
  <2>2. IsTable(safety', Job, Database)
    BY <1>10, <2>1, PutIsTable DEF SafetyBackup
  <2> QED BY <1>10, <1>n, <2>2 DEF SafetyBackup
<1>11. CASE Replace
  <2>1. pending.job.file \in Database /\ pending.job.id \in Job /\ pending.newInstance \in used
    BY <1>11 DEF Replace, JobRow
  <2>0. pending.job.file.auth \in Nat /\ db.auth \in Nat /\ pending.newInstance \in Nat
    BY <2>1 DEF Database, Numbered
  <2>2. Max({pending.job.file.auth, db.auth}) + 1 \in Nat
    BY <2>0, MaxOfTwo
  <2>3. db' \in Database
    BY <1>11, <2>0, <2>1, <2>2 DEF Replace, Database
  <2>4. db'.instance \in used'
    BY <1>11, <2>1 DEF Replace
  <2> QED BY <1>11, <1>n, <2>3, <2>4 DEF Replace, fileVars
<1>12. CASE AttemptFails
  BY <1>12, <1>n DEF AttemptFails, fileVars
<1>13. CASE WriteLineage
  BY <1>13, <1>n DEF WriteLineage
<1>14. CASE WriteResult
  BY <1>14, <1>n DEF WriteResult
<1>15. CASE RemovePending
  BY <1>15, <1>n DEF RemovePending
<1>16. CASE Upgrade
  BY <1>16, <1>n DEF Upgrade, settingVars
<1>17. CASE Migrate
  BY <1>17, <1>n DEF Migrate, fileVars, Database
<1>18. CASE SettingStep
  <2>1. ASSUME NEW id \in Patch, NEW change \in Changes, PatchSettings(id, change)
        PROVE  db' \in Database /\ db'.instance = db.instance
               /\ running' \in [Setting -> Value \cup {None}] /\ process' = process
    BY <2>1, ExecuteKeepsDatabase DEF PatchSettings, Replay, InForceAfter, Changes
  <2>2. ASSUME NEW id \in Patch, NEW change \in Changes, StopWhilePatching(id, change)
        PROVE  db' \in Database /\ db'.instance = db.instance
               /\ running' = running /\ process' = "down"
    BY <2>2, ExecuteKeepsDatabase DEF StopWhilePatching
  <2>3. ASSUME LoadSettings
        PROVE  db' = db /\ running' \in [Setting -> Value \cup {None}] /\ process' = "up"
    BY <2>3 DEF LoadSettings, Desired, Database, Overrides
  <2> QED BY <1>18, <1>n, <2>1, <2>2, <2>3 DEF SettingStep, fileVars
<1>19. CASE UNCHANGED recoveryVars
  BY <1>19, <1>n DEF recoveryVars, settingVars, fileVars
<1> QED
  BY <1>1, <1>2, <1>3, <1>4, <1>5, <1>6, <1>7, <1>8, <1>9, <1>10, <1>11, <1>12, <1>13,
     <1>14, <1>15, <1>16, <1>17, <1>18, <1>19 DEF RecoveryStep

\* A step of the recovery, a change of settings, or neither.
AnyRecoveryStep == RecoveryStep \/ SettingStep \/ UNCHANGED recoveryVars

\* The job may no longer be applied to the database d.
Outdated(job, d) ==
    d.auth # job.auth \/ d.instance # job.instance \/ d.schema # job.schema

\* The job is not ahead of d, brings a database of its own schema whose completed
\* jobs have safety backups, and is outdated when it is done.
JobFits(job, d, kept) ==
    /\ job.auth <= d.auth /\ job.schema <= d.schema
    /\ job.file.schema = job.schema /\ job.file.done \subseteq kept
    /\ job.id \in d.done => Outdated(job, d)

\* Files know only completed jobs of which there is a safety backup, and there is
\* one job at a time.
FilesInv ==
    /\ \A d \in backups \cup Range(safety) \cup {db} : d.done \subseteq DOMAIN safety
    /\ upload # None => upload.file.done \subseteq DOMAIN safety
    /\ preview # None => JobFits(preview, db, DOMAIN safety)
    /\ pending # None =>
          /\ JobFits(pending.job, db, DOMAIN safety)
          /\ upload = None /\ preview \in {None, pending.job}

\* What the steps of a start know of the job and of the database.
StepsInv ==
    /\ db.schema <= version
    /\ process # "down" => db.schema = version
    /\ process \in {"backup", "replace", "lineage", "result", "remove"} => pending # None
    /\ process \in {"backup", "replace"} => StillAllowed /\ ~AlreadyDone
    /\ process = "replace" => pending.job.id \in DOMAIN safety
    /\ process \in {"lineage", "result", "remove"} => (outcome = "completed" <=> AlreadyDone)
    /\ process = "lineage" => AlreadyDone
    /\ pending # None /\ ~AlreadyDone => db.instance # pending.newInstance

\* An attempt left a safety backup and did not fail: it was interrupted.
Kept(job) == job.id \in DOMAIN safety /\ job.id \notin failed

\* A safety backup that will be kept for a job is a copy of what the job replaces.
SafetyInv ==
    /\ pending # None /\ Kept(pending.job) =>
          \/ Outdated(pending.job, db)
          \/ process \in {"down", "backup", "replace"} /\ safety[pending.job.id] = db
    /\ preview # None /\ pending = None /\ Kept(preview) => Outdated(preview, db)

\* How the database may go on: logins and schema are never those of before, and
\* only the end of all logins lets another instance take its place.
Grows(d, e) ==
    /\ e.auth >= d.auth /\ e.schema >= d.schema
    /\ \/ e.auth > d.auth
       \/ e.done = d.done /\ e.instance = d.instance

\* A job that is outdated stays so.
LEMMA OutdatedForGood ==
    ASSUME NEW job \in JobRow, NEW d \in Database, NEW e \in Database,
           job.auth <= d.auth, job.schema <= d.schema, Outdated(job, d), Grows(d, e)
    PROVE  Outdated(job, e)
<1>1. job.auth \in Nat /\ job.schema \in Nat /\ d.auth \in Nat /\ e.auth \in Nat
      /\ d.schema \in Nat /\ e.schema \in Nat
  BY DEF JobRow, Database
<1> QED BY <1>1 DEF Outdated, Grows

\* A job that fits a database fits the databases that follow.
LEMMA JobsFitForGood ==
    ASSUME NEW job \in JobRow, NEW d \in Database, NEW e \in Database, NEW kept, NEW more,
           JobFits(job, d, kept), Grows(d, e), kept \subseteq more
    PROVE  JobFits(job, e, more)
<1>1. job.auth \in Nat /\ job.schema \in Nat /\ d.auth \in Nat /\ e.auth \in Nat
      /\ d.schema \in Nat /\ e.schema \in Nat
  BY DEF JobRow, Database
<1>2. job.auth <= e.auth /\ job.schema <= e.schema
  BY <1>1 DEF JobFits, Grows
<1>3. ASSUME job.id \in e.done PROVE Outdated(job, e)
  <2>1. CASE e.auth > d.auth
    BY <1>1, <2>1 DEF JobFits, Outdated
  <2>2. CASE e.done = d.done /\ e.instance = d.instance
    BY <1>3, <2>2, OutdatedForGood DEF JobFits
  <2> QED BY <2>1, <2>2 DEF Grows
<1> QED BY <1>2, <1>3 DEF JobFits

\* What a change of settings leaves alone, and how the process goes on.
LEMMA SettingEffect ==
    ASSUME RecoveryTypes, SettingStep
    PROVE  /\ UNCHANGED <<fileVars, outcome, used, failed>>
           /\ db'.auth = db.auth /\ db'.schema = db.schema /\ db'.done = db.done
           /\ db'.instance = db.instance /\ db'.entries = db.entries
           /\ \/ process' = process /\ process = "up"
              \/ process = "up" /\ process' = "down"
              \/ process = "settings" /\ process' = "up" /\ db' = db
<1>0. db \in Database
  BY DEF RecoveryTypes
<1>1. ASSUME NEW id \in Patch, NEW change \in Changes, PatchSettings(id, change)
      PROVE  /\ db'.auth = db.auth /\ db'.schema = db.schema /\ db'.done = db.done
             /\ db'.instance = db.instance /\ db'.entries = db.entries
             /\ process' = process /\ process = "up"
  BY <1>0, <1>1 DEF PatchSettings, Execute, Replay, Database
<1>2. ASSUME NEW id \in Patch, NEW change \in Changes, StopWhilePatching(id, change)
      PROVE  /\ db'.auth = db.auth /\ db'.schema = db.schema /\ db'.done = db.done
             /\ db'.instance = db.instance /\ db'.entries = db.entries
             /\ process' = "down" /\ process = "up"
  BY <1>0, <1>2 DEF StopWhilePatching, Execute, Database
<1>3. ASSUME LoadSettings
      PROVE  db' = db /\ process' = "up" /\ process = "settings"
  BY <1>3 DEF LoadSettings
<1>4. UNCHANGED <<fileVars, outcome, used, failed>>
  BY DEF SettingStep
<1> QED BY <1>1, <1>2, <1>3, <1>4 DEF SettingStep

\* Every step lets the database grow and keeps the safety backups.
LEMMA DatabaseGrows ==
    ASSUME RecoveryTypes, FilesInv, StepsInv, AnyRecoveryStep
    PROVE  Grows(db, db') /\ DOMAIN safety \subseteq DOMAIN safety'
<1>0. db.auth \in Nat /\ db.schema \in Nat /\ db \in Database
  BY DEF RecoveryTypes, Database
<1>1. CASE db' = db /\ safety' = safety
  BY <1>0, <1>1 DEF Grows
<1>2. ASSUME NEW e \in Entry, Commit(e)
      PROVE  Grows(db, db') /\ DOMAIN safety \subseteq DOMAIN safety'
  BY <1>0, <1>2 DEF Commit, Grows, Database, fileVars
<1>3. CASE AuthorizationChanges
  BY <1>0, <1>3 DEF AuthorizationChanges, Grows, Database, fileVars
<1>4. CASE SafetyBackup
  <2>1. db' = db
    BY <1>4 DEF SafetyBackup
  <2>2. DOMAIN Put(safety, pending.job.id, db) = DOMAIN safety \cup {pending.job.id}
    BY DEF Put
  <2>3. DOMAIN safety \subseteq DOMAIN safety'
    BY <1>4, <2>2 DEF SafetyBackup
  <2> QED BY <1>0, <2>1, <2>3 DEF Grows
<1>5. CASE Replace
  <2>1. pending # None
    BY <1>5 DEF Replace, StepsInv
  <2>2. pending.job.file.auth \in Nat
    BY <2>1 DEF RecoveryTypes, JobRow, Database
  <2>3. Max({pending.job.file.auth, db.auth}) \in Nat
        /\ Max({pending.job.file.auth, db.auth}) >= db.auth
    BY <1>0, <2>2, MaxOfTwo
  <2>4. db'.auth > db.auth /\ db'.auth \in Nat
    BY <1>0, <1>5, <2>3 DEF Replace
  <2>5. db.schema = pending.job.schema
    BY <1>5 DEF Replace, StepsInv, StillAllowed
  <2>6. db'.schema = pending.job.schema
    BY <1>5, <2>1 DEF Replace, FilesInv, JobFits
  <2>7. safety' = safety
    BY <1>5 DEF Replace, fileVars
  <2> QED BY <1>0, <2>4, <2>5, <2>6, <2>7 DEF Grows
<1>6. CASE Migrate
  BY <1>0, <1>6 DEF Migrate, Grows, Database, fileVars
<1>7. CASE SettingStep
  BY <1>0, <1>7, SettingEffect DEF Grows, fileVars
<1>8. CASE AttemptFails \/ Start \/ Upgrade \/ UNCHANGED recoveryVars
  BY <1>1, <1>8 DEF AttemptFails, Start, StartAt, Upgrade, fileVars, recoveryVars, settingVars
<1>9. ASSUME NEW file \in backups \cup Range(safety), Upload(file)
      PROVE  Grows(db, db') /\ DOMAIN safety \subseteq DOMAIN safety'
  BY <1>1, <1>9 DEF Upload
<1>10. ASSUME NEW j \in Job, UploadChecked(j)
       PROVE  Grows(db, db') /\ DOMAIN safety \subseteq DOMAIN safety'
  BY <1>1, <1>10 DEF UploadChecked
<1>11. CASE TakeBackup \/ PreviewExpires \/ Confirm \/ ProcessStops \/ WriteLineage
            \/ WriteResult \/ RemovePending
  BY <1>1, <1>11 DEF TakeBackup, PreviewExpires, Confirm, ProcessStops, WriteLineage,
                     WriteResult, RemovePending
<1> QED BY <1>2, <1>3, <1>4, <1>5, <1>6, <1>7, <1>8, <1>9, <1>10, <1>11
        DEF AnyRecoveryStep, RecoveryStep

\* One job at a time, and every file knows only jobs with safety backups.
LEMMA FilesKept ==
    ASSUME RecoveryTypes, RecoveryTypes', FilesInv, StepsInv, AnyRecoveryStep
    PROVE  FilesInv'
<1>0. Grows(db, db') /\ DOMAIN safety \subseteq DOMAIN safety'
  BY DatabaseGrows
<1>1. db \in Database /\ db' \in Database
  BY DEF RecoveryTypes
<1>2. ASSUME NEW job \in JobRow, JobFits(job, db, DOMAIN safety)
      PROVE  JobFits(job, db', DOMAIN safety')
  <2>1. PICK d \in Database, e \in Database : d = db /\ e = db'
    BY <1>1
  <2>2. JobFits(job, e, DOMAIN safety')
    BY <1>0, <1>2, <2>1, JobsFitForGood
  <2> QED BY <2>1, <2>2
<1>3. preview' = preview /\ preview # None => JobFits(preview', db', DOMAIN safety')
  BY <1>2 DEF FilesInv, RecoveryTypes
<1>4. pending' = pending /\ pending # None => JobFits(pending'.job, db', DOMAIN safety')
  <2> SUFFICES ASSUME pending' = pending, pending # None
               PROVE  JobFits(pending'.job, db', DOMAIN safety')
    OBVIOUS
  <2>1. pending.job \in JobRow
    BY DEF RecoveryTypes
  <2> QED BY <1>2, <2>1 DEF FilesInv
<1> DEFINE Known == \A d \in backups \cup Range(safety) \cup {db} : d.done \subseteq DOMAIN safety
<1>5. ASSUME backups' = backups, safety' = safety, db'.done = db.done
      PROVE  Known'
  BY <1>5 DEF FilesInv
<1> HIDE DEF Known
<1>6. ASSUME Known', UNCHANGED <<preview, pending>>, upload' = upload \/ upload' = None
      PROVE  FilesInv'
  BY <1>0, <1>3, <1>4, <1>6 DEF FilesInv, Known
<1>7. ASSUME UNCHANGED <<backups, safety, preview, pending, db>>,
             upload' = upload \/ upload' = None
      PROVE  FilesInv'
  BY <1>5, <1>6, <1>7
<1>8. ASSUME NEW e \in Entry, Commit(e) PROVE FilesInv'
  <2>1. db'.done = db.done
    BY <1>1, <1>8 DEF Commit, Database
  <2> QED BY <1>5, <1>6, <1>8, <2>1 DEF Commit, fileVars
<1>9. CASE AuthorizationChanges
  <2>1. db'.done = db.done
    BY <1>1, <1>9 DEF AuthorizationChanges, Database
  <2> QED BY <1>5, <1>6, <1>9, <2>1 DEF AuthorizationChanges, fileVars
<1>10. CASE Migrate
  <2>1. db'.done = db.done
    BY <1>1, <1>10 DEF Migrate, Database
  <2> QED BY <1>5, <1>6, <1>10, <2>1 DEF Migrate, fileVars
<1>11. CASE SettingStep
  BY <1>5, <1>6, <1>11, SettingEffect DEF fileVars
<1>12. CASE AttemptFails \/ Start \/ Upgrade \/ UNCHANGED recoveryVars
  BY <1>7, <1>12 DEF AttemptFails, Start, StartAt, Upgrade, fileVars, recoveryVars, settingVars
<1>13. CASE ProcessStops \/ WriteLineage \/ WriteResult
  BY <1>7, <1>13 DEF ProcessStops, WriteLineage, WriteResult
<1>14. CASE TakeBackup
  <2>1. Known'
    BY <1>14 DEF TakeBackup, Known, FilesInv
  <2> QED BY <1>6, <1>14, <2>1 DEF TakeBackup
<1>15. ASSUME NEW file \in backups \cup Range(safety), Upload(file) PROVE FilesInv'
  <2>1. Known'
    BY <1>5, <1>15 DEF Upload
  <2>2. upload'.file.done \subseteq DOMAIN safety'
    BY <1>15 DEF Upload, FilesInv
  <2>3. pending' = None /\ preview' = preview
    BY <1>15 DEF Upload
  <2> QED BY <1>3, <2>1, <2>2, <2>3 DEF FilesInv, Known
<1>16. ASSUME NEW j \in Job, UploadChecked(j) PROVE FilesInv'
  <2>1. Known'
    BY <1>5, <1>16 DEF UploadChecked
  <2>2. upload' = None /\ pending = None /\ pending' = None /\ upload # None
        /\ db' = db /\ safety' = safety
    BY <1>16 DEF UploadChecked, FilesInv
  <2>3. CASE preview' = preview
    BY <1>3, <2>1, <2>2, <2>3 DEF FilesInv, Known
  <2>4. CASE preview' # preview
    <3>1. /\ preview'.id = j /\ preview'.file = upload.file /\ preview'.auth = db.auth
          /\ preview'.schema = db.schema /\ upload.file.schema = db.schema
          /\ j \notin DOMAIN safety
      BY <1>16, <2>4 DEF UploadChecked
    <3>2. j \notin db.done
      BY <3>1 DEF FilesInv
    <3>3. upload.file.done \subseteq DOMAIN safety
      BY <2>2 DEF FilesInv
    <3>4. db.auth \in Nat /\ db.schema \in Nat
      BY <1>1 DEF Database
    <3>5. JobFits(preview', db', DOMAIN safety')
      BY <2>2, <3>1, <3>2, <3>3, <3>4 DEF JobFits
    <3> QED BY <2>1, <2>2, <3>5 DEF FilesInv, Known
  <2> QED BY <2>3, <2>4
<1>17. CASE PreviewExpires
  <2>1. Known'
    BY <1>5, <1>17 DEF PreviewExpires
  <2> QED BY <1>4, <1>17, <2>1 DEF PreviewExpires, FilesInv, Known
<1>18. CASE Confirm
  <2>1. Known' /\ preview' = preview /\ preview # None /\ upload' = None
        /\ pending'.job = preview
    BY <1>5, <1>18 DEF Confirm
  <2>2. JobFits(preview', db', DOMAIN safety')
    BY <1>3, <2>1
  <2> QED BY <2>1, <2>2 DEF FilesInv, Known
<1>19. CASE SafetyBackup
  <2>1. backups' = backups /\ db' = db /\ UNCHANGED <<preview, pending, upload>>
    BY <1>19 DEF SafetyBackup
  <2>2. Range(safety') \subseteq Range(safety) \cup {db}
    BY <1>19 DEF SafetyBackup, Range, Put
  <2>3. Known'
    BY <1>0, <2>1, <2>2 DEF Known, FilesInv
  <2> QED BY <1>6, <2>1, <2>3
<1>20. CASE Replace
  <2>1. backups' = backups /\ safety' = safety /\ UNCHANGED <<preview, pending, upload>>
    BY <1>20 DEF Replace, fileVars
  <2>2. pending # None /\ pending.job.id \in DOMAIN safety
        /\ pending.job.file.done \subseteq DOMAIN safety
    BY <1>20 DEF Replace, StepsInv, FilesInv, JobFits
  <2>3. db'.done = pending.job.file.done \cup {pending.job.id}
    BY <1>20 DEF Replace
  <2>4. Known'
    BY <2>1, <2>2, <2>3 DEF Known, FilesInv
  <2> QED BY <1>6, <2>1, <2>4
<1>21. CASE RemovePending
  <2>1. Known' /\ preview' = preview /\ upload' = upload /\ pending' = None
    BY <1>5, <1>21 DEF RemovePending
  <2>2. pending # None /\ safety' = safety
    BY <1>21 DEF RemovePending, StepsInv
  <2>3. upload = None
    BY <2>2 DEF FilesInv
  <2> QED BY <1>3, <2>1, <2>3 DEF FilesInv, Known
<1> QED
  BY <1>8, <1>9, <1>10, <1>11, <1>12, <1>13, <1>14, <1>15, <1>16, <1>17, <1>18, <1>19,
     <1>20, <1>21 DEF AnyRecoveryStep, RecoveryStep

\* The next instance id is a new one.
LEMMA NextInstanceIsNew ==
    ASSUME Numbered
    PROVE  Max(used) + 1 \notin used
<1>1. PICK n : n = Max(used)
  OBVIOUS
<1>2. n \in Nat /\ used = 1..n
  BY <1>1 DEF Numbered
<1>3. n + 1 \notin used
  BY <1>2
<1> QED BY <1>1, <1>3

\* The steps of a start come one after the other.
LEMMA StepsKept ==
    ASSUME RecoveryTypes, RecoveryTypes', Numbered, FilesInv, StepsInv, AnyRecoveryStep
    PROVE  StepsInv'
<1> USE DEF StepsInv
<1>0. db \in Database /\ db.schema \in Nat /\ version \in Nat
  BY DEF RecoveryTypes, Database
<1>1. ASSUME UNCHANGED <<version, process, outcome, safety, pending>>,
             db'.auth = db.auth, db'.schema = db.schema, db'.done = db.done,
             db'.instance = db.instance
      PROVE  StepsInv'
  BY <1>1 DEF StillAllowed, AlreadyDone
<1>2. ASSUME NEW e \in Entry, Commit(e) PROVE StepsInv'
  BY <1>0, <1>1, <1>2 DEF Commit, fileVars, Database
<1>3. CASE AuthorizationChanges
  <2>1. process = "up" /\ process' = "up" /\ UNCHANGED <<version, pending>>
        /\ db'.schema = db.schema /\ db'.done = db.done /\ db'.instance = db.instance
    BY <1>0, <1>3 DEF AuthorizationChanges, fileVars, Database
  <2> QED BY <2>1 DEF AlreadyDone
<1>4. CASE TakeBackup \/ PreviewExpires
  BY <1>1, <1>4 DEF TakeBackup, PreviewExpires
<1>5. ASSUME NEW file \in backups \cup Range(safety), Upload(file) PROVE StepsInv'
  BY <1>1, <1>5 DEF Upload
<1>6. ASSUME NEW j \in Job, UploadChecked(j) PROVE StepsInv'
  BY <1>1, <1>6 DEF UploadChecked
<1>7. CASE Confirm
  <2>1. process = "up" /\ process' = "up" /\ UNCHANGED <<db, version>>
        /\ pending'.newInstance = Max(used) + 1
    BY <1>7 DEF Confirm
  <2>2. db.instance # Max(used) + 1
    BY NextInstanceIsNew DEF RecoveryTypes
  <2> QED BY <2>1, <2>2
<1>8. CASE ProcessStops
  BY <1>8 DEF ProcessStops, AlreadyDone
<1>9. CASE Start
  <2>1. UNCHANGED <<db, version, pending, safety>> /\ process = "down" /\ db.schema = version
    BY <1>9 DEF Start, StartAt, fileVars
  <2>2. CASE pending = None
    BY <1>9, <2>1, <2>2 DEF Start, StartAt, AlreadyDone
  <2>3. CASE pending # None /\ AlreadyDone
    BY <1>9, <2>1, <2>3 DEF Start, StartAt, AlreadyDone
  <2>4. CASE pending # None /\ ~AlreadyDone /\ StillAllowed
    BY <1>9, <2>1, <2>4 DEF Start, StartAt, AlreadyDone, StillAllowed
  <2>5. CASE pending # None /\ ~AlreadyDone /\ ~StillAllowed
    BY <1>9, <2>1, <2>5 DEF Start, StartAt, AlreadyDone
  <2> QED BY <2>2, <2>3, <2>4, <2>5
<1>10. CASE SafetyBackup
  <2>1. process = "backup" /\ process' = "replace" /\ UNCHANGED <<db, version, pending>>
    BY <1>10 DEF SafetyBackup
  <2>2. pending.job.id \in DOMAIN safety'
    BY <1>10 DEF SafetyBackup, Put
  <2> QED BY <2>1, <2>2 DEF StillAllowed, AlreadyDone
<1>11. CASE Replace
  <2>1. /\ process = "replace" /\ process' = "lineage" /\ outcome' = "completed"
        /\ UNCHANGED <<pending, version, safety>>
    BY <1>11 DEF Replace, fileVars
  <2>2. pending # None /\ StillAllowed /\ db.schema = version
    BY <2>1
  <2>3. db'.schema = pending.job.file.schema /\ pending.job.id \in db'.done
    BY <1>11 DEF Replace
  <2>4. db'.schema = version
    BY <2>2, <2>3 DEF StillAllowed, FilesInv, JobFits
  <2> QED BY <1>0, <2>1, <2>2, <2>3, <2>4 DEF AlreadyDone
<1>12. CASE AttemptFails
  <2>1. /\ process \in {"backup", "replace"} /\ process' = "result" /\ outcome' = "failed"
        /\ UNCHANGED <<pending, version, safety, db>>
    BY <1>12 DEF AttemptFails, fileVars
  <2> QED BY <2>1 DEF AlreadyDone
<1>13. CASE WriteLineage
  BY <1>13 DEF WriteLineage, AlreadyDone
<1>14. CASE WriteResult
  BY <1>14 DEF WriteResult, AlreadyDone
<1>15. CASE RemovePending
  BY <1>15 DEF RemovePending
<1>16. CASE Upgrade
  <2>1. process = "down" /\ process' = "down" /\ UNCHANGED <<db, pending>>
        /\ version' = version + 1
    BY <1>16 DEF Upgrade, settingVars
  <2> QED BY <1>0, <2>1 DEF AlreadyDone
<1>17. CASE Migrate
  <2>1. process = "down" /\ process' = "down" /\ UNCHANGED <<version, pending>>
        /\ db.schema < version /\ db'.schema = db.schema + 1
        /\ db'.done = db.done /\ db'.instance = db.instance
    BY <1>0, <1>17 DEF Migrate, fileVars, Database
  <2> QED BY <1>0, <2>1 DEF AlreadyDone
<1>18. CASE SettingStep
  BY <1>18, SettingEffect DEF fileVars, AlreadyDone
<1>19. CASE UNCHANGED recoveryVars
  BY <1>1, <1>19 DEF recoveryVars, settingVars, fileVars
<1> QED
  BY <1>2, <1>3, <1>4, <1>5, <1>6, <1>7, <1>8, <1>9, <1>10, <1>11, <1>12, <1>13, <1>14,
     <1>15, <1>16, <1>17, <1>18, <1>19 DEF AnyRecoveryStep, RecoveryStep

\* A safety backup that an interrupted attempt left is a copy of what its job
\* replaces, or the job will not be applied.
LEMMA SafetyKept ==
    ASSUME RecoveryTypes, RecoveryTypes', FilesInv, FilesInv', StepsInv, StepsInv',
           SafetyInv, AnyRecoveryStep
    PROVE  SafetyInv'
<1>0. Grows(db, db') /\ db \in Database /\ db' \in Database
  BY DatabaseGrows DEF RecoveryTypes
<1>1. ASSUME NEW job \in JobRow, JobFits(job, db, DOMAIN safety), Outdated(job, db)
      PROVE  Outdated(job, db')
  <2>1. PICK d \in Database, e \in Database : d = db /\ e = db'
    BY <1>0
  <2>2. Outdated(job, e)
    BY <1>0, <1>1, <2>1, OutdatedForGood DEF JobFits
  <2> QED BY <2>1, <2>2
<1>2. preview # None /\ Outdated(preview, db) => Outdated(preview, db')
  BY <1>1 DEF FilesInv, RecoveryTypes
<1>3. pending # None /\ Outdated(pending.job, db) => Outdated(pending.job, db')
  <2> SUFFICES ASSUME pending # None, Outdated(pending.job, db)
               PROVE  Outdated(pending.job, db')
    OBVIOUS
  <2>1. pending.job \in JobRow
    BY DEF RecoveryTypes
  <2> QED BY <1>1, <2>1 DEF FilesInv
\* The steps that take no safety backup and leave the jobs alone.
<1>4. ASSUME UNCHANGED <<pending, preview, safety>>, failed \subseteq failed',
             \/ db' = db /\ (process' = process \/ process' = "down")
             \/ process \notin {"down", "backup", "replace"}
      PROVE  SafetyInv'
  BY <1>2, <1>3, <1>4 DEF SafetyInv, Kept
<1>5. ASSUME NEW e \in Entry, Commit(e) PROVE SafetyInv'
  BY <1>4, <1>5 DEF Commit, fileVars
<1>6. CASE AuthorizationChanges
  BY <1>4, <1>6 DEF AuthorizationChanges, fileVars
<1>7. CASE TakeBackup \/ ProcessStops \/ WriteLineage \/ WriteResult
  BY <1>4, <1>7 DEF TakeBackup, ProcessStops, WriteLineage, WriteResult
<1>8. ASSUME NEW file \in backups \cup Range(safety), Upload(file) PROVE SafetyInv'
  BY <1>4, <1>8 DEF Upload
<1>9. CASE Upgrade \/ UNCHANGED recoveryVars
  BY <1>4, <1>9 DEF Upgrade, settingVars, recoveryVars, fileVars
<1>10. CASE SettingStep
  BY <1>4, <1>10, SettingEffect DEF fileVars
<1>11. ASSUME NEW j \in Job, UploadChecked(j) PROVE SafetyInv'
  <2>1. UNCHANGED <<pending, safety, failed, db>> /\ pending = None
    BY <1>11 DEF UploadChecked, FilesInv
  <2>2. CASE preview' = preview
    BY <2>1, <2>2 DEF SafetyInv, Kept
  <2>3. CASE preview' # preview
    <3>1. preview'.id \notin DOMAIN safety
      BY <1>11, <2>3 DEF UploadChecked
    <3> QED BY <2>1, <3>1 DEF SafetyInv, Kept
  <2> QED BY <2>2, <2>3
<1>12. CASE PreviewExpires
  BY <1>12 DEF PreviewExpires, SafetyInv, Kept
<1>13. CASE Confirm
  BY <1>13 DEF Confirm, SafetyInv, Kept
<1>14. CASE Start
  <2>1. UNCHANGED <<db, pending, preview, safety, failed>> /\ process = "down"
    BY <1>14 DEF Start, StartAt, fileVars
  <2>2. CASE pending = None
    BY <2>1, <2>2 DEF SafetyInv, Kept
  <2>3. CASE pending # None /\ AlreadyDone
    BY <2>1, <2>3 DEF SafetyInv, Kept, FilesInv, JobFits, AlreadyDone
  <2>4. CASE pending # None /\ ~AlreadyDone /\ StillAllowed
    BY <1>14, <2>1, <2>4 DEF Start, StartAt, SafetyInv, Kept
  <2>5. CASE pending # None /\ ~StillAllowed
    BY <2>1, <2>5 DEF SafetyInv, Kept, Outdated, StillAllowed
  <2> QED BY <2>2, <2>3, <2>4, <2>5
<1>15. CASE SafetyBackup
  <2>1. /\ process = "backup" /\ process' = "replace"
        /\ UNCHANGED <<db, pending, preview, failed>> /\ pending # None
    BY <1>15 DEF SafetyBackup, StepsInv
  <2>2. CASE pending.job.id \in DOMAIN safety
    BY <1>15, <2>1, <2>2 DEF SafetyBackup, SafetyInv, Kept
  <2>3. CASE pending.job.id \notin DOMAIN safety
    <3>1. safety'[pending.job.id] = db
      BY <1>15, <2>3 DEF SafetyBackup, Put
    <3> QED BY <2>1, <3>1 DEF SafetyInv
  <2> QED BY <2>2, <2>3
<1>16. CASE Replace
  <2>1. UNCHANGED <<pending, preview, safety, failed>> /\ pending # None
        /\ pending.job.id \in db'.done
    BY <1>16 DEF Replace, fileVars, StepsInv
  <2>2. Outdated(pending'.job, db')
    BY <2>1 DEF FilesInv, JobFits
  <2> QED BY <2>1, <2>2 DEF SafetyInv
<1>17. CASE AttemptFails
  <2>1. UNCHANGED <<pending, preview, safety, db>> /\ pending # None
        /\ failed' = failed \cup {pending.job.id}
    BY <1>17 DEF AttemptFails, fileVars, StepsInv
  <2> QED BY <2>1 DEF SafetyInv, Kept
<1>18. CASE RemovePending
  <2>1. /\ process = "remove" /\ pending # None /\ pending' = None
        /\ UNCHANGED <<preview, safety, failed, db>>
    BY <1>18 DEF RemovePending, StepsInv
  <2>2. preview # None => preview = pending.job
    BY <2>1 DEF FilesInv
  <2> QED BY <2>1, <2>2 DEF SafetyInv, Kept
<1>19. CASE Migrate
  <2>1. UNCHANGED <<pending, preview, safety, failed, process>> /\ db'.schema = db.schema + 1
    BY <1>0, <1>19 DEF Migrate, fileVars, Database
  <2>2. pending # None => Outdated(pending.job, db')
    <3> SUFFICES ASSUME pending # None PROVE db'.schema # pending.job.schema
      BY DEF Outdated
    <3>1. pending.job.schema <= db.schema /\ pending.job.schema \in Nat /\ db.schema \in Nat
      BY <1>0 DEF FilesInv, JobFits, RecoveryTypes, JobRow, Database
    <3> QED BY <2>1, <3>1
  <2> QED BY <1>2, <2>1, <2>2 DEF SafetyInv, Kept
<1> QED
  BY <1>5, <1>6, <1>7, <1>8, <1>9, <1>10, <1>11, <1>12, <1>13, <1>14, <1>15, <1>16, <1>17,
     <1>18, <1>19 DEF AnyRecoveryStep, RecoveryStep

\* The last result tells the truth of the database.
ResultFits ==
    lastResult # None => (lastResult.status = "completed" <=> lastResult.id \in db.done)

\* It does so except while a start is about to write another one.
ResultInv ==
    /\ process = "remove" => lastResult = [id |-> pending.job.id, status |-> outcome]
    /\ process \in {"up", "settings"} \/ pending = None => ResultFits

\* The transaction is committed and the lineage is not yet written.
LineageIsDue ==
    \/ process = "lineage"
    \/ process = "down" /\ pending # None /\ AlreadyDone

\* Every database file is of an instance that is accepted, or will be.
BackupsInv ==
    \A b \in backups \cup Range(safety) :
        \/ b.instance \in AcceptedInstances
        \/ LineageIsDue /\ b.instance = pending.job.instance

\* The settings in force are those stored, but for those that wait.
SettingsInv == process = "up" => SettingsAreInForce

\* The result that a start writes is the truth.
LEMMA ResultKept ==
    ASSUME RecoveryTypes, StepsInv, StepsInv', ResultInv, AnyRecoveryStep
    PROVE  ResultInv'
<1>0. db \in Database
  BY DEF RecoveryTypes
<1>1. ASSUME UNCHANGED <<lastResult, outcome, pending>>, db'.done = db.done,
             process' = process \/ process' = "down"
      PROVE  ResultInv'
  BY <1>1 DEF ResultInv, ResultFits
<1>2. ASSUME NEW e \in Entry, Commit(e) PROVE ResultInv'
  BY <1>0, <1>1, <1>2 DEF Commit, fileVars, Database
<1>3. CASE AuthorizationChanges
  BY <1>0, <1>1, <1>3 DEF AuthorizationChanges, fileVars, Database
<1>4. CASE TakeBackup \/ PreviewExpires \/ ProcessStops
  BY <1>1, <1>4 DEF TakeBackup, PreviewExpires, ProcessStops
<1>5. ASSUME NEW file \in backups \cup Range(safety), Upload(file) PROVE ResultInv'
  BY <1>1, <1>5 DEF Upload
<1>6. ASSUME NEW j \in Job, UploadChecked(j) PROVE ResultInv'
  BY <1>1, <1>6 DEF UploadChecked
<1>7. CASE Confirm
  BY <1>7 DEF Confirm, ResultInv, ResultFits
<1>8. CASE Start
  <2>1. UNCHANGED <<db, pending, lastResult>> /\ process = "down" /\ process' # "remove"
    BY <1>8 DEF Start, StartAt, fileVars
  <2>2. process' \in {"up", "settings"} => pending = None
    BY <1>8 DEF Start, StartAt
  <2> QED BY <2>1, <2>2 DEF ResultInv, ResultFits
<1>9. CASE SafetyBackup
  BY <1>9 DEF SafetyBackup, ResultInv, StepsInv
<1>10. CASE Replace
  BY <1>10 DEF Replace, fileVars, ResultInv, StepsInv
<1>11. CASE AttemptFails
  BY <1>11 DEF AttemptFails, fileVars, ResultInv, StepsInv
<1>12. CASE WriteLineage
  BY <1>12 DEF WriteLineage, ResultInv, StepsInv
<1>13. CASE WriteResult
  BY <1>13 DEF WriteResult, ResultInv, StepsInv
<1>14. CASE RemovePending
  <2>1. /\ process = "remove" /\ process' = "settings" /\ UNCHANGED <<db, lastResult>>
        /\ lastResult = [id |-> pending.job.id, status |-> outcome]
        /\ outcome = "completed" <=> pending.job.id \in db.done
    BY <1>14 DEF RemovePending, ResultInv, StepsInv, AlreadyDone
  <2> QED BY <2>1 DEF ResultInv, ResultFits
<1>15. CASE Upgrade
  BY <1>1, <1>15 DEF Upgrade, settingVars
<1>16. CASE Migrate
  BY <1>0, <1>1, <1>16 DEF Migrate, fileVars, Database
<1>17. CASE SettingStep
  BY <1>17, SettingEffect DEF fileVars, ResultInv, ResultFits
<1>18. CASE UNCHANGED recoveryVars
  BY <1>1, <1>18 DEF recoveryVars, settingVars, fileVars
<1> QED
  BY <1>2, <1>3, <1>4, <1>5, <1>6, <1>7, <1>8, <1>9, <1>10, <1>11, <1>12, <1>13, <1>14,
     <1>15, <1>16, <1>17, <1>18 DEF AnyRecoveryStep, RecoveryStep

\* A database file stays acceptable through restores.
LEMMA BackupsKept ==
    ASSUME RecoveryTypes, StepsInv, StepsInv', BackupsInv, AnyRecoveryStep
    PROVE  BackupsInv'
<1>0. db \in Database
  BY DEF RecoveryTypes
<1>1. ASSUME UNCHANGED <<backups, safety, lineage>>, db'.instance = db.instance,
             LineageIsDue => LineageIsDue' /\ pending' = pending
      PROVE  BackupsInv'
  BY <1>1 DEF BackupsInv, AcceptedInstances
<1>2. ASSUME NEW e \in Entry, Commit(e) PROVE BackupsInv'
  BY <1>0, <1>1, <1>2 DEF Commit, fileVars, Database, LineageIsDue
<1>3. CASE AuthorizationChanges
  BY <1>0, <1>1, <1>3 DEF AuthorizationChanges, fileVars, Database, LineageIsDue
<1>4. CASE TakeBackup
  BY <1>4 DEF TakeBackup, BackupsInv, AcceptedInstances, LineageIsDue
<1>5. CASE PreviewExpires
  BY <1>1, <1>5 DEF PreviewExpires, LineageIsDue, AlreadyDone
<1>6. CASE ProcessStops
  BY <1>1, <1>6 DEF ProcessStops, LineageIsDue, AlreadyDone, StepsInv
<1>7. ASSUME NEW file \in backups \cup Range(safety), Upload(file) PROVE BackupsInv'
  BY <1>1, <1>7 DEF Upload, LineageIsDue
<1>8. ASSUME NEW j \in Job, UploadChecked(j) PROVE BackupsInv'
  BY <1>1, <1>8 DEF UploadChecked, LineageIsDue
<1>9. CASE Confirm
  BY <1>1, <1>9 DEF Confirm, LineageIsDue
<1>10. CASE Start
  <2>1. UNCHANGED <<db, pending, backups, safety, lineage>> /\ process = "down"
    BY <1>10 DEF Start, StartAt, fileVars
  <2>2. LineageIsDue => process' = "lineage"
    BY <1>10, <2>1 DEF Start, StartAt, LineageIsDue
  <2> QED BY <1>1, <2>1, <2>2 DEF LineageIsDue
<1>11. CASE SafetyBackup
  <2>1. UNCHANGED <<db, backups, lineage>> /\ ~LineageIsDue
    BY <1>11 DEF SafetyBackup, LineageIsDue
  <2>2. Range(safety') \subseteq Range(safety) \cup {db}
    BY <1>11 DEF SafetyBackup, Range, Put
  <2> QED BY <2>1, <2>2 DEF BackupsInv, AcceptedInstances
<1>12. CASE Replace
  <2>1. /\ process' = "lineage" /\ UNCHANGED <<backups, safety, lineage, pending>>
        /\ process = "replace" /\ db.instance = pending.job.instance
    BY <1>12 DEF Replace, fileVars, StepsInv, StillAllowed
  <2> QED BY <2>1 DEF BackupsInv, AcceptedInstances, LineageIsDue
<1>13. CASE AttemptFails
  BY <1>1, <1>13 DEF AttemptFails, fileVars, LineageIsDue
<1>14. CASE WriteLineage
  <2>1. /\ UNCHANGED <<db, backups, safety>>
        /\ lineage' = lineage \cup {db.instance, pending.job.instance, pending.job.file.instance}
    BY <1>14 DEF WriteLineage, LineageOf
  <2> QED BY <2>1 DEF BackupsInv, AcceptedInstances
<1>15. CASE WriteResult
  BY <1>1, <1>15 DEF WriteResult, LineageIsDue
<1>16. CASE RemovePending
  BY <1>1, <1>16 DEF RemovePending, LineageIsDue
<1>17. CASE Upgrade
  BY <1>1, <1>17 DEF Upgrade, settingVars, LineageIsDue, AlreadyDone
<1>18. CASE Migrate
  BY <1>0, <1>1, <1>18 DEF Migrate, fileVars, Database, LineageIsDue, AlreadyDone
<1>19. CASE SettingStep
  BY <1>1, <1>19, SettingEffect DEF fileVars, LineageIsDue
<1>20. CASE UNCHANGED recoveryVars
  BY <1>1, <1>20 DEF recoveryVars, settingVars, fileVars, LineageIsDue, AlreadyDone
<1> QED
  BY <1>2, <1>3, <1>4, <1>5, <1>6, <1>7, <1>8, <1>9, <1>10, <1>11, <1>12, <1>13, <1>14,
     <1>15, <1>16, <1>17, <1>18, <1>19, <1>20 DEF AnyRecoveryStep, RecoveryStep

\* After a change the settings in force are those stored.
LEMMA ExecuteKeepsSettings ==
    ASSUME RecoveryTypes, SettingsAreInForce, NEW id, NEW change \in Changes,
           Execute(id, change), running' = InForceAfter(change)
    PROVE  SettingsAreInForce'
<1>1. db \in Database /\ running \in [Setting -> Value \cup {None}]
  BY DEF RecoveryTypes
<1>2. change.setting \in Setting /\ change.value \in Value \cup {None}
  BY DEF Changes
<1>3. db'.overrides = Overridden(change)
  BY <1>1 DEF Execute, Database
<1>4. ASSUME NEW k \in Setting, k # change.setting
      PROVE  Desired'[k] = Desired[k] /\ running'[k] = running[k]
  <2>1. k \in DOMAIN db'.overrides <=> k \in DOMAIN db.overrides
    BY <1>3, <1>4 DEF Overridden, Put, Without, Restrict
  <2>2. k \in DOMAIN db.overrides => db'.overrides[k] = db.overrides[k]
    BY <1>3, <1>4 DEF Overridden, Put, Without, Restrict
  <2>3. running'[k] = running[k]
    BY <1>1, <1>2, <1>4 DEF InForceAfter
  <2> QED BY <2>1, <2>2, <2>3 DEF Desired
<1>5. CASE change.setting \notin RestartSetting
  <2>1. running'[change.setting] = change.value
    BY <1>1, <1>2, <1>5 DEF InForceAfter
  <2>2. Desired'[change.setting] = change.value
    BY <1>2, <1>3 DEF Desired, Overridden, Put, Without, Restrict
  <2>3. \A k \in Setting : running'[k] = Desired'[k] \/ k \in RestartSetting
    BY <1>4, <1>5, <2>1, <2>2 DEF SettingsAreInForce, RestartRequired
  <2> QED BY <2>3 DEF SettingsAreInForce, RestartRequired
<1>6. CASE change.setting \in RestartSetting
  <2>1. \A k \in Setting : running'[k] = Desired'[k] \/ k \in RestartSetting
    BY <1>4, <1>6 DEF SettingsAreInForce, RestartRequired
  <2> QED BY <2>1 DEF SettingsAreInForce, RestartRequired
<1> QED BY <1>5, <1>6

\* Stored settings take effect at once or at the next start.
LEMMA SettingsKept ==
    ASSUME RecoveryTypes, StepsInv, SettingsInv, AnyRecoveryStep
    PROVE  SettingsInv'
<1>0. db \in Database
  BY DEF RecoveryTypes
<1>1. ASSUME running' = running, db'.overrides = db.overrides, process = "up" \/ process' # "up"
      PROVE  SettingsInv'
  BY <1>1 DEF SettingsInv, SettingsAreInForce, RestartRequired, Desired
<1>2. ASSUME NEW e \in Entry, Commit(e) PROVE SettingsInv'
  BY <1>0, <1>1, <1>2 DEF Commit, Database
<1>3. CASE AuthorizationChanges
  BY <1>0, <1>1, <1>3 DEF AuthorizationChanges, Database
<1>4. CASE TakeBackup \/ PreviewExpires \/ Confirm
  BY <1>1, <1>4 DEF TakeBackup, PreviewExpires, Confirm, SettingsInv
<1>5. ASSUME NEW file \in backups \cup Range(safety), Upload(file) PROVE SettingsInv'
  BY <1>1, <1>5 DEF Upload
<1>6. ASSUME NEW j \in Job, UploadChecked(j) PROVE SettingsInv'
  BY <1>1, <1>6 DEF UploadChecked
<1>7. CASE ProcessStops \/ Start \/ SafetyBackup \/ Replace \/ AttemptFails \/ WriteLineage
           \/ WriteResult \/ RemovePending
  BY <1>7 DEF ProcessStops, Start, StartAt, SafetyBackup, Replace, AttemptFails, WriteLineage,
              WriteResult, RemovePending, SettingsInv
<1>8. CASE Upgrade \/ Migrate \/ UNCHANGED recoveryVars
  BY <1>8 DEF Upgrade, Migrate, recoveryVars, settingVars, SettingsInv, SettingsAreInForce,
              RestartRequired, Desired
<1>9. ASSUME NEW id \in Patch, NEW change \in Changes, PatchSettings(id, change)
      PROVE  SettingsInv'
  <2>1. process = "up" /\ process' = "up"
    BY <1>9 DEF PatchSettings
  <2>2. CASE Execute(id, change) /\ running' = InForceAfter(change)
    BY <2>1, <2>2, ExecuteKeepsSettings DEF SettingsInv
  <2>3. CASE Replay(id)
    BY <1>1, <2>1, <2>3 DEF Replay
  <2> QED BY <1>9, <2>2, <2>3 DEF PatchSettings
<1>10. ASSUME NEW id \in Patch, NEW change \in Changes, StopWhilePatching(id, change)
       PROVE  SettingsInv'
  BY <1>10 DEF StopWhilePatching, SettingsInv
<1>11. CASE LoadSettings
  BY <1>11 DEF LoadSettings, SettingsInv, SettingsAreInForce, Desired
<1>12. CASE SettingStep
  BY <1>9, <1>10, <1>11, <1>12 DEF SettingStep
<1> QED
  BY <1>2, <1>3, <1>4, <1>5, <1>6, <1>7, <1>8, <1>12 DEF AnyRecoveryStep, RecoveryStep

\* The inductive invariant of the recovery.
RecoveryInv ==
    /\ RecoveryTypes /\ Numbered
    /\ FilesInv /\ StepsInv /\ SafetyInv /\ ResultInv /\ BackupsInv /\ SettingsInv

\* The first start leaves an empty database and no files.
LEMMA RecoveryBegins ==
    ASSUME RecoveryInit
    PROVE  RecoveryInv
<1> USE DEF RecoveryInit
<1>1. EmptyDatabase \in Database
  <2>1. NoRows \in [{} -> Value] /\ NoRows \in [{} -> Changes]
    BY DEF NoRows
  <2>2. NoRows \in Overrides /\ NoRows \in Answers
    BY <2>1 DEF Overrides, Answers
  <2> QED BY <2>2 DEF EmptyDatabase, Database
<1>2. Max(used) = 1 /\ used = 1..1
  <2>1. used = 1..1
    OBVIOUS
  <2>2. Max(1..1) = 1
    BY 1 \in Nat \ {0}, MaxOfInterval, Zenon
  <2> QED BY <2>1, <2>2
<1>3. Numbered
  BY <1>2 DEF Numbered
<1>4. RecoveryTypes
  BY <1>1, NoRowsIsTable DEF RecoveryTypes, EmptyDatabase
<1>5. Range(safety) = {}
  BY DEF Range, NoRows
<1>6. FilesInv
  BY <1>5 DEF FilesInv, EmptyDatabase
<1>7. StepsInv
  BY DEF StepsInv, EmptyDatabase
<1>8. SafetyInv /\ ResultInv
  BY DEF SafetyInv, ResultInv, ResultFits
<1>9. BackupsInv
  BY <1>5 DEF BackupsInv
<1>10. SettingsInv
  BY DEF SettingsInv, SettingsAreInForce, Desired, EmptyDatabase, NoRows
<1> QED BY <1>3, <1>4, <1>6, <1>7, <1>8, <1>9, <1>10 DEF RecoveryInv

\* Every step of the system is one of the recovery or leaves its state alone.
LEMMA StepOfRecovery ==
    ASSUME [Next]_vars
    PROVE  AnyRecoveryStep
<1>1. CASE Next
  BY <1>1 DEF Next, AnyRecoveryStep
<1>2. CASE UNCHANGED vars
  BY <1>2 DEF vars, AnyRecoveryStep
<1> QED BY <1>1, <1>2

\* The inductive invariant of the recovery.
LEMMA RecoveryKept ==
    ASSUME RecoveryInv, [Next]_vars
    PROVE  RecoveryInv'
<1>1. AnyRecoveryStep
  BY StepOfRecovery
<1>2. RecoveryTypes /\ Numbered /\ FilesInv /\ StepsInv /\ SafetyInv /\ ResultInv /\ BackupsInv
      /\ SettingsInv
  BY DEF RecoveryInv
<1>3. RecoveryTypes' /\ Numbered'
  BY <1>1, <1>2, RecoveryTypesKept DEF AnyRecoveryStep, StepsInv
<1>4. FilesInv'
  BY <1>1, <1>2, <1>3, FilesKept
<1>5. StepsInv'
  BY <1>1, <1>2, <1>3, StepsKept
<1>6. SafetyInv'
  BY <1>1, <1>2, <1>3, <1>4, <1>5, SafetyKept
<1>7. ResultInv' /\ BackupsInv'
  BY <1>1, <1>2, <1>5, ResultKept, BackupsKept
<1>8. SettingsInv'
  BY <1>1, <1>2, SettingsKept
<1> QED BY <1>3, <1>4, <1>5, <1>6, <1>7, <1>8 DEF RecoveryInv

\* All of it holds in every reachable state.
LEMMA RecoveryInvariant == Spec => []RecoveryInv
<1>1. Init => RecoveryInv
  BY RecoveryBegins DEF Init
<1>2. RecoveryInv /\ [Next]_vars => RecoveryInv'
  BY RecoveryKept
<1> QED BY <1>1, <1>2, PTL DEF Spec

\* The server that listens agrees with its database: with the result of the last
\* restore, the instances whose backups it accepts, its schema and its settings.
THEOREM ServerIsInLine == Spec => []ServerFitsDatabase
<1>1. RecoveryInv => ServerFitsDatabase
  BY DEF RecoveryInv, StepsInv, ResultInv, ResultFits, BackupsInv, LineageIsDue, SettingsInv,
         ServerFitsDatabase
<1> QED BY <1>1, RecoveryInvariant, PTL

\* What a step that removes data must be.
LosesNothing ==
    ~(db.entries \subseteq db'.entries) =>
        /\ pending # None /\ db.instance # pending.newInstance
        /\ db'.instance = pending.newInstance
        /\ \/ pending.job.id \in failed
           \/ pending.job.id \in DOMAIN safety /\ safety[pending.job.id] = db

\* Only the transaction of a restore removes data.
LEMMA OnlyReplaceRemoves ==
    ASSUME RecoveryInv, [Next]_vars, ~(db.entries \subseteq db'.entries)
    PROVE  Replace
<1>1. AnyRecoveryStep
  BY StepOfRecovery
<1>2. db \in Database /\ RecoveryTypes
  BY DEF RecoveryInv, RecoveryTypes
<1>3. ASSUME NEW e \in Entry, Commit(e) PROVE FALSE
  BY <1>2, <1>3 DEF Commit, Database
<1>4. CASE AuthorizationChanges \/ Migrate
  BY <1>2, <1>4 DEF AuthorizationChanges, Migrate, Database
<1>5. CASE SettingStep
  BY <1>2, <1>5, SettingEffect
<1>6. ASSUME db' = db PROVE FALSE
  BY <1>6
<1>7. ASSUME NEW file \in backups \cup Range(safety), Upload(file) PROVE FALSE
  BY <1>6, <1>7 DEF Upload
<1>8. ASSUME NEW j \in Job, UploadChecked(j) PROVE FALSE
  BY <1>6, <1>8 DEF UploadChecked
<1>9. CASE TakeBackup \/ PreviewExpires \/ Confirm \/ ProcessStops \/ WriteLineage
           \/ WriteResult \/ RemovePending \/ SafetyBackup
  BY <1>6, <1>9 DEF TakeBackup, PreviewExpires, Confirm, ProcessStops, WriteLineage,
                    WriteResult, RemovePending, SafetyBackup
<1>10. CASE AttemptFails \/ Start \/ Upgrade \/ UNCHANGED recoveryVars
  BY <1>6, <1>10 DEF AttemptFails, Start, StartAt, Upgrade, recoveryVars, settingVars
<1> QED BY <1>1, <1>3, <1>4, <1>5, <1>7, <1>8, <1>9, <1>10 DEF AnyRecoveryStep, RecoveryStep

\* Data leaves the database only by the first completion of a confirmed restore,
\* with all of it in the safety backup unless an attempt failed before.
THEOREM RestoresLoseNothing == Spec => RestoreLosesNothing
<1>1. RecoveryInv /\ [Next]_vars => [LosesNothing]_vars
  <2> SUFFICES ASSUME RecoveryInv, [Next]_vars, ~(db.entries \subseteq db'.entries)
               PROVE  LosesNothing
    BY DEF LosesNothing
  <2>1. Replace
    BY OnlyReplaceRemoves
  <2>2. /\ process = "replace" /\ pending # None /\ StillAllowed /\ ~AlreadyDone
        /\ pending.job.id \in DOMAIN safety /\ db.instance # pending.newInstance
    BY <2>1 DEF Replace, RecoveryInv, StepsInv
  <2>3. pending.job.id \in failed \/ safety[pending.job.id] = db
    BY <2>2 DEF RecoveryInv, SafetyInv, Kept, Outdated, StillAllowed
  <2>4. db'.instance = pending.newInstance
    BY <2>1 DEF Replace
  <2> QED BY <2>2, <2>3, <2>4 DEF LosesNothing
<1>2. [][LosesNothing]_vars => RestoreLosesNothing
  BY PTL DEF LosesNothing, RestoreLosesNothing
<1> QED BY <1>1, <1>2, RecoveryInvariant, PTL DEF Spec

-----------------------------------------------------------------------------
(* The page of a viewer *)

\* An event of a Log names it, an event of the Session names none.
EventRow ==
    [type : {"changed", "deleted"}, log : Log]
        \cup [type : {"session", "session.deleted"}, log : {"none"}]

\* Messages to a viewer, sockets, and rows of public_shares.
Message ==
    [type : {"hello", "event", "ready", "resyncRequired", "revoked", "expired", "close"},
     seq : Nat]

Socket == [open : BOOLEAN, cursor : Nat, wire : Seq(Message)]

ShareRow == [expired : BOOLEAN, revoked : BOOLEAN]

\* Tables of the records of a Session.
Logs == UNION {[L -> Nat] : L \in SUBSET Log}

\* The state of a page.
Page ==
    [step : {"info", "access", "data", "ticket", "connect", "socket", "wait",
             "ended", "unavailable", "closed", "tooLarge", "unsupported"},
     stage : {"hello", "backlog", "live"}, ticket : Ticket \cup {"none"},
     capabilityChecked : BOOLEAN, needSnapshot : BOOLEAN,
     cursor : Nat, helloHead : Nat, logs : Logs]

\* No event on a wire is beyond the event n.
EventsUpTo(n, messages) ==
    \A i \in DOMAIN messages : messages[i].type = "event" => messages[i].seq <= n

\* A socket to which nothing beyond the event n was written.
SocketFits(sock, n) == sock \in Socket /\ EventsUpTo(n, sock.wire)

\* The types of the variables, part by part.
ShareTypes == IsTable(shares, Share, ShareRow) /\ over \in BOOLEAN

HistoryTypes == history \in Seq(EventRow) /\ minSeq \in 0..head /\ rows \in Logs

WireTypes ==
    /\ token \in {"none", "valid", "expired"}
    /\ IsTable(tickets, Ticket, 0..head)
    /\ SocketFits(socket, head)
    /\ shutAt \in (0..head) \cup {-1}

PageTypes == page \in Page /\ page.cursor <= head

ViewerTypes == ShareTypes /\ HistoryTypes /\ WireTypes /\ PageTypes

-----------------------------------------------------------------------------
(* What is written to a socket *)

\* Writing a record or deleting one leaves a table of records.
LEMMA LogsKept ==
    ASSUME NEW t \in Logs, NEW l
    PROVE  /\ Without(t, {l}) \in Logs
           /\ l \in Log => \A n \in Nat : Put(t, l, n) \in Logs
<1>1. PICK L \in SUBSET Log : t \in [L -> Nat]
  BY DEF Logs
<1>2. Without(t, {l}) \in [L \ {l} -> Nat] /\ L \ {l} \in SUBSET Log
  BY <1>1 DEF Without, Restrict
<1>3. ASSUME l \in Log, NEW n \in Nat PROVE Put(t, l, n) \in Logs
  <2>1. Put(t, l, n) \in [L \cup {l} -> Nat] /\ L \cup {l} \in SUBSET Log
    BY <1>1, <1>3 DEF Put
  <2> QED BY <2>1 DEF Logs
<1> QED BY <1>2, <1>3 DEF Logs

\* The messages are messages.
LEMMA MessageTypes ==
    ASSUME NEW n \in Nat
    PROVE  /\ Hello(n) \in Message /\ EventMessage(n) \in Message /\ Ready(n) \in Message
           /\ Resync \in Message /\ Close(n) \in Message
           /\ Revoked("revoked") \in Message /\ Revoked("expired") \in Message
BY DEF Hello, EventMessage, Ready, Resync, Close, Revoked, Message

\* One message more.
LEMMA AppendMessage ==
    ASSUME NEW n \in Nat, NEW messages \in Seq(Message), EventsUpTo(n, messages),
           NEW m \in Message, m.type = "event" => m.seq <= n
    PROVE  Append(messages, m) \in Seq(Message) /\ EventsUpTo(n, Append(messages, m))
BY AppendProperties DEF EventsUpTo

\* Some messages after others.
LEMMA ConcatMessages ==
    ASSUME NEW n \in Nat, NEW some \in Seq(Message), NEW more \in Seq(Message),
           EventsUpTo(n, some), EventsUpTo(n, more)
    PROVE  some \o more \in Seq(Message) /\ EventsUpTo(n, some \o more)
<1>1. some \o more \in Seq(Message)
  BY ConcatProperties
<1>2. ASSUME NEW i \in DOMAIN (some \o more), (some \o more)[i].type = "event"
      PROVE  (some \o more)[i].seq <= n
  <2>1. CASE i <= Len(some)
    BY <1>2, <2>1, ConcatProperties DEF EventsUpTo
  <2>2. CASE i > Len(some)
    <3>1. i - Len(some) \in DOMAIN more /\ (some \o more)[i] = more[i - Len(some)]
      BY <2>2, ConcatProperties
    <3> QED BY <1>2, <3>1 DEF EventsUpTo
  <2> QED BY <2>1, <2>2
<1> QED BY <1>1, <1>2 DEF EventsUpTo

\* What write leaves of a socket.
LEMMA WriteFits ==
    ASSUME NEW n \in Nat, NEW sock, SocketFits(sock, n),
           NEW messages \in Seq(Message), EventsUpTo(n, messages)
    PROVE  SocketFits(Write(sock, messages), n)
<1>1. sock.wire \in Seq(Message) /\ sock.open \in BOOLEAN /\ MaxBuffered \in Nat
  BY PublicAssumption DEF SocketFits, Socket
<1> DEFINE room == IF Len(sock.wire) > MaxBuffered THEN 0
                   ELSE MaxBuffered + 1 - Len(sock.wire)
<1>2. room \in Nat
  BY <1>1
<1> HIDE DEF room
<1>3. CASE ~sock.open
  BY <1>3 DEF Write
<1>4. CASE sock.open /\ Len(messages) <= room
  <2>1. Write(sock, messages) = [sock EXCEPT !.wire = @ \o messages]
    BY <1>4 DEF Write, room
  <2>2. sock.wire \o messages \in Seq(Message) /\ EventsUpTo(n, sock.wire \o messages)
    BY <1>1, ConcatMessages DEF SocketFits
  <2> QED BY <2>1, <2>2 DEF SocketFits, Socket
<1>5. CASE sock.open /\ ~(Len(messages) <= room)
  <2>1. SubSeq(messages, 1, room) \in Seq(Message)
        /\ EventsUpTo(n, SubSeq(messages, 1, room))
    BY <1>2, <1>5, SubSeqProperties DEF EventsUpTo
  <2>2. Close(4009) \in Message /\ Close(4009).type # "event"
    BY DEF Close, Message
  <2> DEFINE cut == Append(SubSeq(messages, 1, room), Close(4009))
  <2>3. cut \in Seq(Message) /\ EventsUpTo(n, cut)
    <3>1. PICK part \in Seq(Message) : part = SubSeq(messages, 1, room) /\ EventsUpTo(n, part)
      BY <2>1
    <3>2. PICK last \in Message : last = Close(4009) /\ last.type # "event"
      BY <2>2
    <3>3. Append(part, last) \in Seq(Message) /\ EventsUpTo(n, Append(part, last))
      BY <3>1, <3>2, AppendProperties DEF EventsUpTo
    <3> QED BY <3>1, <3>2, <3>3
  <2> HIDE DEF cut
  <2>4. sock.wire \o cut \in Seq(Message) /\ EventsUpTo(n, sock.wire \o cut)
    BY <1>1, <2>3, ConcatMessages DEF SocketFits
  <2>5. Write(sock, messages) = [sock EXCEPT !.open = FALSE, !.wire = @ \o cut]
    BY <1>5 DEF Write, room, cut
  <2> QED BY <2>4, <2>5 DEF SocketFits, Socket
<1> QED BY <1>3, <1>4, <1>5

\* What close leaves of a socket.
LEMMA ShutFits ==
    ASSUME NEW n \in Nat, NEW sock, SocketFits(sock, n), NEW code \in Nat
    PROVE  SocketFits(Shut(sock, code), n) /\ ~Shut(sock, code).open
<1>1. sock \in Socket /\ sock.wire \in Seq(Message) /\ EventsUpTo(n, sock.wire)
  BY DEF SocketFits, Socket
<1>2. CASE ~sock.open
  BY <1>2 DEF Shut
<1>3. CASE sock.open
  <2>1. Close(code) \in Message /\ Close(code).type # "event"
    BY DEF Close, Message
  <2>2. Append(sock.wire, Close(code)) \in Seq(Message)
        /\ EventsUpTo(n, Append(sock.wire, Close(code)))
    BY <1>1, <2>1, AppendMessage
  <2>3. Shut(sock, code) = [sock EXCEPT !.open = FALSE, !.wire = Append(@, Close(code))]
    BY <1>3 DEF Shut
  <2> QED BY <1>1, <2>2, <2>3 DEF SocketFits, Socket
<1> QED BY <1>2, <1>3

\* What a single message leaves of a socket.
LEMMA WriteOneFits ==
    ASSUME NEW n \in Nat, NEW sock, SocketFits(sock, n),
           NEW m \in Message, m.type = "event" => m.seq <= n
    PROVE  SocketFits(Write(sock, <<m>>), n)
<1>1. <<m>> \in Seq(Message) /\ EventsUpTo(n, <<m>>)
  BY DEF EventsUpTo
<1> QED BY <1>1, WriteFits

\* What a revocation leaves of a socket.
LEMMA RevokeFits ==
    ASSUME NEW n \in Nat, NEW sock, SocketFits(sock, n), NEW reason \in {"revoked", "expired"}
    PROVE  SocketFits(Revoke(sock, reason), n) /\ ~Revoke(sock, reason).open
<1>1. Revoked(reason) \in Message /\ Revoked(reason).type # "event"
  BY DEF Revoked, Message
<1>2. SocketFits(Write(sock, <<Revoked(reason)>>), n)
  BY <1>1, WriteOneFits
<1> QED BY <1>2, ShutFits DEF Revoke

\* What an event that is delivered leaves of a socket.
LEMMA DeliverFits ==
    ASSUME NEW n \in Nat, NEW sock, SocketFits(sock, n)
    PROVE  SocketFits(Deliver(sock, n), n)
<1>1. CASE ~sock.open \/ n <= sock.cursor
  BY <1>1 DEF Deliver
<1>2. CASE ~(~sock.open \/ n <= sock.cursor) /\ n # sock.cursor + 1
  <2>1. Resync \in Message /\ Resync.type # "event"
    BY DEF Resync, Message
  <2>2. SocketFits(Write(sock, <<Resync>>), n)
    BY <2>1, WriteOneFits
  <2>3. SocketFits(Shut(Write(sock, <<Resync>>), 4009), n)
    BY <2>2, ShutFits
  <2> QED BY <1>2, <2>3 DEF Deliver
<1>3. CASE ~(~sock.open \/ n <= sock.cursor) /\ n = sock.cursor + 1
  <2>1. EventMessage(n) \in Message /\ EventMessage(n).seq <= n
    BY DEF EventMessage, Message
  <2>2. SocketFits(Write(sock, <<EventMessage(n)>>), n)
    BY <2>1, WriteOneFits
  <2>3. Deliver(sock, n) = [Write(sock, <<EventMessage(n)>>) EXCEPT !.cursor = n]
    BY <1>3 DEF Deliver
  <2> QED BY <2>2, <2>3 DEF SocketFits, Socket
<1> QED BY <1>1, <1>2, <1>3

\* A bound on the events holds for larger numbers.
LEMMA FitsLater ==
    ASSUME NEW n \in Nat, NEW m \in Nat, n <= m, NEW sock, SocketFits(sock, n)
    PROVE  SocketFits(sock, m)
<1>1. sock.wire \in Seq(Message)
  BY DEF SocketFits, Socket
<1>2. ASSUME NEW i \in DOMAIN sock.wire, sock.wire[i].type = "event"
      PROVE  sock.wire[i].seq <= m
  <2>1. sock.wire[i] \in Message
    BY <1>1
  <2>2. sock.wire[i].seq \in Nat
    BY <2>1 DEF Message
  <2>3. sock.wire[i].seq <= n
    BY <1>2 DEF SocketFits, EventsUpTo
  <2> QED BY <2>2, <2>3
<1> QED BY <1>2 DEF SocketFits, EventsUpTo

\* A closed socket takes nothing.
LEMMA ClosedTakesNothing ==
    ASSUME NEW sock, ~sock.open
    PROVE  /\ \A messages : Write(sock, messages) = sock
           /\ \A code : Shut(sock, code) = sock
           /\ \A reason : Revoke(sock, reason) = sock
           /\ \A n : Deliver(sock, n) = sock
BY DEF Write, Shut, Revoke, Deliver

\* The facts about the types that the steps use.
LEMMA TypeFacts ==
    ASSUME ViewerTypes
    PROVE  /\ head \in Nat /\ minSeq \in Nat /\ minSeq <= head
           /\ history \in Seq(EventRow) /\ rows \in Logs
           /\ IsTable(shares, Share, ShareRow) /\ over \in BOOLEAN
           /\ IsTable(tickets, Ticket, 0..head) /\ SocketFits(socket, head)
           /\ socket \in Socket /\ socket.wire \in Seq(Message)
           /\ page \in Page /\ page.cursor \in Nat /\ page.cursor <= head
<1>1. head \in Nat
  BY DEF ViewerTypes, HistoryTypes, head
<1> QED
  BY <1>1 DEF ViewerTypes, HistoryTypes, ShareTypes, WireTypes, PageTypes, SocketFits, Socket,
              Page

\* Appending an event: what follows for the history and the socket.
LEMMA AppendEffect ==
    ASSUME ViewerTypes, NEW entry \in EventRow, history' = Append(history, entry)
    PROVE  /\ history' \in Seq(EventRow) /\ head' = head + 1
           /\ \A i \in 1..head : history'[i] = history[i]
           /\ history'[head + 1] = entry
           /\ SocketFits(Deliver(socket, head + 1), head + 1)
<1>1. head \in Nat /\ history \in Seq(EventRow) /\ SocketFits(socket, head)
  BY TypeFacts
<1>2. /\ history' \in Seq(EventRow) /\ head' = head + 1
      /\ \A i \in 1..head : history'[i] = history[i]
      /\ history'[head + 1] = entry
  BY <1>1, AppendProperties DEF head
<1>3. PICK n \in Nat : n = head
  BY <1>1
<1>4. SocketFits(socket, n + 1)
  BY <1>1, <1>3, FitsLater
<1>5. SocketFits(Deliver(socket, n + 1), n + 1)
  BY <1>3, <1>4, DeliverFits
<1> QED BY <1>2, <1>3, <1>5

\* The projections are events.
LEMMA ProjectedTypes ==
    /\ \A l \in Log : Projected("changed", l) \in EventRow /\ Projected("deleted", l) \in EventRow
    /\ Projected("session", "none") \in EventRow
    /\ Projected("session.deleted", "none") \in EventRow
BY DEF Projected, EventRow

\* A longer history leaves room for the tickets, the cursor and the ghost.
LEMMA LongerHistory ==
    ASSUME ViewerTypes, head' = head + 1, history' \in Seq(EventRow), rows' \in Logs,
           UNCHANGED <<minSeq, page, token>>,
           tickets' = tickets \/ tickets' = NoRows,
           SocketFits(socket', head + 1),
           shutAt' = shutAt \/ shutAt' = head + 1
    PROVE  HistoryTypes' /\ WireTypes' /\ PageTypes'
<1>1. head \in Nat /\ minSeq \in Nat /\ minSeq <= head /\ page \in Page
      /\ page.cursor \in Nat /\ page.cursor <= head
  BY TypeFacts
<1>2. HistoryTypes'
  BY <1>1 DEF HistoryTypes
<1>3. PageTypes'
  BY <1>1 DEF PageTypes
<1>4. IsTable(tickets', Ticket, 0..(head + 1))
  <2>1. IsTable(tickets, Ticket, 0..(head + 1))
    BY <1>1 DEF ViewerTypes, WireTypes, IsTable
  <2> QED BY <2>1, NoRowsIsTable
<1>5. shutAt' \in (0..(head + 1)) \cup {-1}
  BY <1>1 DEF ViewerTypes, WireTypes
<1>6. WireTypes'
  BY <1>4, <1>5 DEF ViewerTypes, WireTypes
<1> QED BY <1>2, <1>3, <1>6

\* What members do keeps the types.
LEMMA SessionTypes ==
    ASSUME ViewerTypes, SessionStep
    PROVE  ViewerTypes'
<1>0. page' = page /\ ShareTypes /\ rows \in Logs /\ head \in Nat
  BY TypeFacts DEF SessionStep, viewerVars, ViewerTypes
<1>1. ASSUME NEW l \in Log, ChangeLog(l) PROVE ViewerTypes'
  <2>1. rows' \in Logs
    <3>1. PICK n \in Nat : n = head + 1
      BY <1>0
    <3> QED BY <1>0, <1>1, <3>1, LogsKept DEF ChangeLog
  <2>2. PICK entry \in EventRow : entry = Projected("changed", l)
    BY ProjectedTypes
  <2>3. history' = Append(history, entry) /\ socket' = Deliver(socket, head + 1)
    BY <1>1, <2>2 DEF ChangeLog, AppendAndPublish
  <2>4. HistoryTypes' /\ WireTypes' /\ PageTypes'
    BY <1>0, <1>1, <2>1, <2>3, AppendEffect, LongerHistory DEF ChangeLog
  <2> QED BY <1>0, <1>1, <2>4 DEF ChangeLog, ViewerTypes, ShareTypes
<1>2. ASSUME NEW l \in Log, DeleteLog(l) PROVE ViewerTypes'
  <2>1. rows' \in Logs
    BY <1>0, <1>2, LogsKept DEF DeleteLog
  <2>2. PICK entry \in EventRow : entry = Projected("deleted", l)
    BY ProjectedTypes
  <2>3. history' = Append(history, entry) /\ socket' = Deliver(socket, head + 1)
    BY <1>2, <2>2 DEF DeleteLog, AppendAndPublish
  <2>4. HistoryTypes' /\ WireTypes' /\ PageTypes'
    BY <1>0, <1>2, <2>1, <2>3, AppendEffect, LongerHistory DEF DeleteLog
  <2> QED BY <1>0, <1>2, <2>4 DEF DeleteLog, ViewerTypes, ShareTypes
<1>3. CASE ChangeSession
  <2>2. PICK entry \in EventRow : entry = Projected("session", "none")
    BY ProjectedTypes
  <2>3. history' = Append(history, entry) /\ socket' = Deliver(socket, head + 1)
    BY <1>3, <2>2 DEF ChangeSession, AppendAndPublish
  <2>4. HistoryTypes' /\ WireTypes' /\ PageTypes'
    BY <1>0, <1>3, <2>3, AppendEffect, LongerHistory DEF ChangeSession
  <2> QED BY <1>0, <1>3, <2>4 DEF ChangeSession, ViewerTypes, ShareTypes
<1>4. CASE PruneEvent
  <2>1. HistoryTypes'
    BY <1>4, TypeFacts DEF PruneEvent, HistoryTypes, head
  <2> QED BY <1>0, <1>4, <2>1 DEF PruneEvent, ViewerTypes, ShareTypes, WireTypes, wireVars,
                                  PageTypes, head
<1> QED BY <1>1, <1>2, <1>3, <1>4 DEF SessionStep

\* A row that is marked is a row.
LEMMA MarkedShares ==
    ASSUME IsTable(shares, Share, ShareRow), NEW s \in DOMAIN shares
    PROVE  /\ IsTable([shares EXCEPT ![s].revoked = TRUE], Share, ShareRow)
           /\ IsTable([shares EXCEPT ![s].expired = TRUE], Share, ShareRow)
BY DEF IsTable, ShareRow

\* What owners and clocks do to shares keeps the types.
LEMMA ShareStepTypes ==
    ASSUME ViewerTypes, ShareStep
    PROVE  ViewerTypes'
<1>0. /\ page' = page /\ rows \in Logs /\ head \in Nat /\ SocketFits(socket, head)
      /\ IsTable(shares, Share, ShareRow)
  BY TypeFacts DEF ShareStep, viewerVars
<1>1. ASSUME NEW s \in Share, CreateShare(s) PROVE ViewerTypes'
  <2>1. [expired |-> FALSE, revoked |-> FALSE] \in ShareRow
    BY DEF ShareRow
  <2>2. IsTable(shares', Share, ShareRow)
    BY <1>0, <1>1, <2>1, PutIsTable DEF CreateShare
  <2> QED BY <1>0, <1>1, <2>2 DEF CreateShare, ViewerTypes, ShareTypes, HistoryTypes, head,
                                  WireTypes, wireVars, PageTypes
<1>2. ASSUME NEW s \in Share, RevokeShare(s) PROVE ViewerTypes'
  <2>1. IsTable(shares', Share, ShareRow)
    BY <1>0, <1>2, MarkedShares DEF RevokeShare, RevokeRow
  <2>2. UNCHANGED <<history, minSeq, rows, over, token>>
    BY <1>2 DEF RevokeShare
  <2>3. IsTable(tickets', Ticket, 0..head)
    BY <1>2, NoRowsIsTable DEF RevokeShare, RevokeRow, ViewerTypes, WireTypes
  <2>4. SocketFits(socket', head)
    <3>1. PICK n \in Nat : n = head
      BY <1>0
    <3>2. SocketFits(Revoke(socket, "revoked"), n)
      BY <1>0, <3>1, RevokeFits
    <3> QED BY <1>0, <1>2, <3>1, <3>2 DEF RevokeShare, RevokeRow
  <2>5. shutAt' \in (0..head) \cup {-1}
    BY <1>0, <1>2 DEF RevokeShare, RevokeRow, ViewerTypes, WireTypes
  <2> QED BY <1>0, <2>1, <2>2, <2>3, <2>4, <2>5
          DEF ViewerTypes, ShareTypes, HistoryTypes, head, WireTypes, PageTypes
<1>3. ASSUME NEW s \in Share, ShareExpires(s) PROVE ViewerTypes'
  <2>1. IsTable(shares', Share, ShareRow)
    BY <1>0, <1>3, MarkedShares DEF ShareExpires
  <2> QED BY <1>0, <1>3, <2>1 DEF ShareExpires, ViewerTypes, ShareTypes, HistoryTypes, head,
                                  WireTypes, PageTypes
<1>4. CASE DeleteSession
  <2>1. IsTable(shares', Share, ShareRow)
    BY <1>0, <1>4 DEF DeleteSession, IsTable, ShareRow
  <2>2. PICK entry \in EventRow : entry = Projected("session.deleted", "none")
    BY ProjectedTypes
  <2>3. history' = Append(history, entry) /\ socket' = Shut(Deliver(socket, head + 1), 1000)
    BY <1>4, <2>2 DEF DeleteSession
  <2>4. SocketFits(socket', head + 1)
    <3>1. PICK n \in Nat : n = head + 1
      BY <1>0
    <3>2. SocketFits(Deliver(socket, n), n)
      BY <2>3, <3>1, AppendEffect
    <3> QED BY <2>3, <3>1, <3>2, ShutFits
  <2>5. HistoryTypes' /\ WireTypes' /\ PageTypes'
    BY <1>0, <1>4, <2>3, <2>4, AppendEffect, LongerHistory DEF DeleteSession
  <2> QED BY <1>4, <2>1, <2>5 DEF DeleteSession, ViewerTypes, ShareTypes
<1> QED BY <1>1, <1>2, <1>3, <1>4 DEF ShareStep

\* A page without a socket.
LEMMA NoSocketFits ==
    ASSUME NEW n \in Nat
    PROVE  SocketFits(NoSocket, n)
BY EmptySeq DEF NoSocket, SocketFits, Socket, EventsUpTo

\* A socket that dies unannounced.
LEMMA LostSocketFits ==
    ASSUME NEW n \in Nat, NEW sock, SocketFits(sock, n)
    PROVE  SocketFits([sock EXCEPT !.open = FALSE, !.wire = <<Close(1006)>>], n)
<1>1. <<Close(1006)>> \in Seq(Message) /\ EventsUpTo(n, <<Close(1006)>>)
  BY DEF Close, Message, EventsUpTo
<1>2. PICK wire \in Seq(Message) : wire = <<Close(1006)>> /\ EventsUpTo(n, wire)
  BY <1>1
<1>3. [sock EXCEPT !.open = FALSE, !.wire = wire] \in Socket
      /\ [sock EXCEPT !.open = FALSE, !.wire = wire].wire = wire
  BY DEF SocketFits, Socket
<1> QED BY <1>2, <1>3 DEF SocketFits

\* The first message is read.
LEMMA ReadFits ==
    ASSUME NEW n \in Nat, NEW sock, SocketFits(sock, n), sock.wire # << >>
    PROVE  /\ SocketFits([sock EXCEPT !.wire = Tail(@)], n)
           /\ sock.wire[1] \in Message
           /\ sock.wire[1].type = "event" => sock.wire[1].seq <= n
<1>1. sock.wire \in Seq(Message) /\ sock \in Socket /\ EventsUpTo(n, sock.wire)
  BY DEF SocketFits, Socket
<1>2. /\ Tail(sock.wire) \in Seq(Message) /\ Len(sock.wire) >= 1
      /\ Len(Tail(sock.wire)) = Len(sock.wire) - 1
      /\ \A i \in 1..Len(Tail(sock.wire)) : Tail(sock.wire)[i] = sock.wire[i + 1]
  BY <1>1
<1>3. ASSUME NEW i \in DOMAIN Tail(sock.wire), Tail(sock.wire)[i].type = "event"
      PROVE  Tail(sock.wire)[i].seq <= n
  <2>1. i \in 1..Len(Tail(sock.wire)) /\ i + 1 \in DOMAIN sock.wire
    BY <1>1, <1>2
  <2> QED BY <1>1, <1>2, <1>3, <2>1 DEF EventsUpTo
<1>4. EventsUpTo(n, Tail(sock.wire))
  BY <1>3 DEF EventsUpTo
<1>5. 1 \in DOMAIN sock.wire
  BY <1>1, <1>2
<1>6. sock.wire[1] \in Message
  BY <1>1, <1>5
<1>7. sock.wire[1].type = "event" => sock.wire[1].seq <= n
  BY <1>1, <1>5 DEF EventsUpTo
<1>8. SocketFits([sock EXCEPT !.wire = Tail(@)], n)
  BY <1>1, <1>2, <1>4 DEF SocketFits, Socket
<1> QED BY <1>6, <1>7, <1>8

\* The backlog ends with the head.
LEMMA BacklogFits ==
    ASSUME ViewerTypes, NEW after \in 0..head
    PROVE  /\ BacklogAfter(after) \in Seq(Message)
           /\ EventsUpTo(head, BacklogAfter(after))
<1>1. PICK n \in Nat : n = head
  BY TypeFacts
<1>2. n - after \in Nat /\ after \in Nat
  BY <1>1
<1>3. \A i \in 1..(n - after) : EventMessage(after + i) \in Message
                                  /\ EventMessage(after + i).seq <= n
  BY <1>2 DEF EventMessage, Message
<1>4. [i \in 1..(n - after) |-> EventMessage(after + i)] \in Seq(Message)
  BY <1>2, <1>3, IsASeq
<1> QED BY <1>1, <1>3, <1>4 DEF BacklogAfter, EventsUpTo

\* The socket that the server accepts.
LEMMA AcceptFits ==
    ASSUME ViewerTypes, NEW t, Accept(t)
    PROVE  SocketFits(socket', head) /\ IsTable(tickets', Ticket, 0..head)
<1>1. t \in DOMAIN tickets /\ IsTable(tickets, Ticket, 0..head) /\ head \in Nat
  BY TypeFacts DEF Accept, Admissible
<1>2. PICK after \in 0..head : after = tickets[t]
  BY <1>1 DEF IsTable
<1>3. IsTable(tickets', Ticket, 0..head)
  BY <1>1, WithoutIsTable DEF Accept
<1>4. PICK n \in Nat : n = head
  BY <1>1
<1> DEFINE fresh == [open |-> TRUE, cursor |-> head, wire |-> <<Hello(head)>>]
<1>5. SocketFits(fresh, n)
  BY <1>4 DEF SocketFits, Socket, Message, Hello, EventsUpTo
<1> HIDE DEF fresh
<1>6. CASE after < minSeq
  <2>1. SocketFits(Write(fresh, <<Resync>>), n)
    <3>1. Resync \in Message /\ Resync.type # "event"
      BY DEF Resync, Message
    <3> QED BY <1>5, <3>1, WriteOneFits
  <2>2. SocketFits(Shut(Write(fresh, <<Resync>>), 4009), n)
    BY <2>1, ShutFits
  <2> QED BY <1>2, <1>3, <1>4, <1>6, <2>2 DEF Accept, fresh
<1>7. CASE ~(after < minSeq)
  <2>1. PICK backlog \in Seq(Message) : backlog = BacklogAfter(after) /\ EventsUpTo(n, backlog)
    BY <1>4, BacklogFits
  <2>0. Ready(n) \in Message /\ Ready(n).type # "event"
    BY DEF Ready, Message
  <2>2. PICK last \in Message : last = Ready(head) /\ last.type # "event"
    BY <1>4, <2>0
  <2>3. Append(backlog, last) \in Seq(Message) /\ EventsUpTo(n, Append(backlog, last))
    BY <2>1, <2>2, AppendProperties DEF EventsUpTo
  <2>4. SocketFits(Write(fresh, Append(backlog, last)), n)
    BY <1>5, <2>3, WriteFits
  <2> QED BY <1>2, <1>3, <1>4, <1>7, <2>1, <2>2, <2>4 DEF Accept, fresh
<1> QED BY <1>6, <1>7

\* Where the server's state is left alone, wire and page remain to be looked at.
LEMMA ServerStays ==
    ASSUME ViewerTypes, UNCHANGED serverVars, WireTypes', PageTypes'
    PROVE  ViewerTypes'
BY DEF serverVars, ViewerTypes, ShareTypes, HistoryTypes, head

\* Another round.
LEMMA RoundIsPage ==
    ASSUME NEW p \in Page
    PROVE  Round(p) \in Page /\ Round(p).cursor = p.cursor /\ Round(p).logs = p.logs
BY DEF Round, Page

\* What a socket's end leaves of the page.
LEMMA ResyncedIsPage ==
    ASSUME ViewerTypes
    PROVE  /\ Resynced \in Page /\ Resynced.cursor = page.cursor /\ Resynced.logs = page.logs
           /\ Resynced.step = page.step
           /\ Retried \in Page /\ Retried.cursor = page.cursor /\ Retried.logs = page.logs
           /\ Retried.step = page.step
<1>1. page \in Page
  BY TypeFacts
<1> QED BY <1>1 DEF Resynced, Retried, Page

\* The rows are those of the history, and what a page that is not over shows are
\* the rows of its cursor.
MomentInv ==
    /\ rows = RowsAt(head)
    /\ IF Over THEN page.logs = NoRows ELSE page.logs = RowsAt(page.cursor)

\* Once the viewers of the link are cut off, its page has no socket, nothing that
\* is still on the way is newer, and nothing can follow.
SilenceInv ==
    /\ socket.open => Link \in DOMAIN shares
    /\ shutAt # -1 =>
        /\ ~socket.open /\ ~Active(Link) /\ (over \/ Link \in DOMAIN shares)
        /\ page.cursor <= shutAt /\ SocketFits(socket, shutAt)

\* The inductive invariant of the page.
ViewerInv == ViewerTypes /\ MomentInv /\ SilenceInv

\* What a step of the page or of its wire must leave, where the server's rows,
\* events and shares stay as they are.
LEMMA PageKeeps ==
    ASSUME ViewerInv, UNCHANGED serverVars, shutAt' = shutAt,
           token' \in {"none", "valid", "expired"}, IsTable(tickets', Ticket, 0..head),
           page' \in Page, page'.cursor <= head,
           IF Over' THEN page'.logs = NoRows ELSE page'.logs = RowsAt(page'.cursor),
           SocketFits(socket', head), socket'.open => socket.open \/ Active(Link),
           shutAt # -1 => page'.cursor <= shutAt /\ SocketFits(socket', shutAt)
    PROVE  ViewerInv'
<1>1. head' = head /\ \A n : RowsAt(n)' = RowsAt(n)
  BY DEF serverVars, head, RowsAt
<1>2. Active(Link)' <=> Active(Link)
  BY DEF serverVars, Active
<1>3. ViewerTypes'
  BY <1>1, ServerStays DEF ViewerInv, ViewerTypes, WireTypes, PageTypes
<1>4. MomentInv'
  BY <1>1 DEF ViewerInv, MomentInv, serverVars, RowsAt, head
<1>5. SilenceInv'
  BY <1>2 DEF ViewerInv, SilenceInv, serverVars, Active
<1> QED BY <1>3, <1>4, <1>5 DEF ViewerInv

\* The page goes on as it was, with the socket it had or without one.
LEMMA PageStays ==
    ASSUME ViewerInv, UNCHANGED serverVars, shutAt' = shutAt,
           token' \in {"none", "valid", "expired"}, IsTable(tickets', Ticket, 0..head),
           page' \in Page, page'.cursor = page.cursor,
           \/ ~Over /\ ~Over' /\ page'.logs = page.logs
           \/ Over' /\ page'.logs = NoRows
           \/ page' = page,
           socket' = socket \/ socket' = NoSocket
    PROVE  ViewerInv'
<1>1. PICK n \in Nat : n = head
  BY TypeFacts DEF ViewerInv
<1>2. SocketFits(socket', head)
  BY <1>1, NoSocketFits, TypeFacts DEF ViewerInv
<1>3. page'.cursor <= head
  BY TypeFacts DEF ViewerInv
<1>4. IF Over' THEN page'.logs = NoRows ELSE page'.logs = RowsAt(page'.cursor)
  BY DEF ViewerInv, MomentInv, Over
<1>5. socket'.open => socket.open
  BY DEF NoSocket
<1>6. ASSUME shutAt # -1
      PROVE  page'.cursor <= shutAt /\ SocketFits(socket', shutAt)
  <2>1. shutAt \in Nat
    BY <1>6, <1>1 DEF ViewerInv, ViewerTypes, WireTypes
  <2>2. PICK m \in Nat : m = shutAt
    BY <2>1
  <2>3. SocketFits(NoSocket, m)
    BY NoSocketFits
  <2> QED BY <1>6, <2>2, <2>3 DEF ViewerInv, SilenceInv
<1> QED BY <1>2, <1>3, <1>4, <1>5, <1>6, PageKeeps

\* The page goes on with another record and the rest of its messages.
LEMMA PageReads ==
    ASSUME ViewerInv, socket.wire # << >>, NEW p \in Page, GoOn(p),
           p.step \notin {"ended", "unavailable"},
           p.logs = RowsAt(p.cursor), p.cursor <= head,
           shutAt # -1 => p.cursor <= shutAt
    PROVE  ViewerInv'
<1>1. PICK n \in Nat : n = head
  BY TypeFacts DEF ViewerInv
<1>2. SocketFits(socket', n) /\ socket'.open = socket.open
  <2>1. SocketFits(socket, n)
    BY <1>1, TypeFacts DEF ViewerInv
  <2>2. SocketFits([socket EXCEPT !.wire = Tail(@)], n)
    BY <2>1, ReadFits
  <2>3. socket \in Socket
    BY <2>1 DEF SocketFits
  <2> QED BY <2>2, <2>3 DEF GoOn, Socket
<1>3. ASSUME shutAt # -1 PROVE SocketFits(socket', shutAt)
  <2>1. shutAt \in Nat /\ SocketFits(socket, shutAt)
    BY <1>3, <1>1 DEF ViewerInv, ViewerTypes, WireTypes, SilenceInv
  <2>2. PICK m \in Nat : m = shutAt
    BY <2>1
  <2>3. SocketFits([socket EXCEPT !.wire = Tail(@)], m)
    BY <2>1, <2>2, ReadFits
  <2> QED BY <2>2, <2>3 DEF GoOn
<1>4. page' = p /\ UNCHANGED <<serverVars, token, tickets, shutAt>>
  BY DEF GoOn
<1>5. ~Over'
  BY <1>4 DEF Over
<1>6. token \in {"none", "valid", "expired"} /\ IsTable(tickets, Ticket, 0..head)
  BY DEF ViewerInv, ViewerTypes, WireTypes
<1> QED BY <1>1, <1>2, <1>3, <1>4, <1>5, <1>6, PageKeeps

\* finish
LEMMA FinishKeeps ==
    ASSUME ViewerInv, NEW p \in Page, p.cursor = page.cursor, p.logs = page.logs, ~Over,
           Finish(p)
    PROVE  ViewerInv'
<1>1. page' \in Page /\ page'.cursor = page.cursor /\ page'.logs = page.logs /\ ~Over'
  BY RoundIsPage DEF Finish, Round, Over, Page
<1>2. token \in {"none", "valid", "expired"} /\ IsTable(tickets, Ticket, 0..head)
  BY DEF ViewerInv, ViewerTypes, WireTypes
<1> QED BY <1>1, <1>2, PageStays DEF Finish

\* A set of numbers up to n that is not empty has a largest one.
LEMMA LargestExists ==
    ASSUME NEW n \in Nat, NEW S \in SUBSET (1..n), S # {}
    PROVE  \E x \in S : \A y \in S : x >= y
<1> DEFINE R == OpToRel(<, Nat)
           T == {n - x : x \in S}
<1>1. T \subseteq Nat /\ T # {}
  <2>1. \A x \in S : n - x \in Nat
    OBVIOUS
  <2> QED BY <2>1
<1>2. PICK m \in T : \A y \in T : ~(<<y, m>> \in R)
  BY <1>1, NatLessThanWellFounded, WFMin
<1>3. PICK x \in S : m = n - x
  OBVIOUS
<1>4. ASSUME NEW y \in S PROVE x >= y
  <2>1. n - y \in T
    OBVIOUS
  <2>2. ~(n - y < m)
    BY <1>1, <1>2, <2>1 DEF OpToRel
  <2> QED BY <1>3, <2>2
<1> QED BY <1>4

\* RowsAt, of any history.
RowsIn(h, n) ==
    LET last(l) == {i \in 1..n : h[i].log = l}
        present == {l \in Log : last(l) # {} /\ h[Max(last(l))].type = "changed"}
    IN  [l \in present |-> Max(last(l))]

\* RowsAt is that of the history of the state.
LEMMA RowsAtIsRowsIn ==
    ASSUME NEW n
    PROVE  RowsAt(n) = RowsIn(history, n) /\ RowsAt(n)' = RowsIn(history', n)
BY DEF RowsAt, RowsIn

\* Rows depend on the events up to theirs.
LEMMA RowsOfPrefix ==
    ASSUME NEW h, NEW g, NEW n \in Nat, \A i \in 1..n : h[i] = g[i]
    PROVE  RowsIn(h, n) = RowsIn(g, n)
<1> DEFINE last(f, l) == {i \in 1..n : f[i].log = l}
           present(f) == {l \in Log : last(f, l) # {} /\ f[Max(last(f, l))].type = "changed"}
<1>1. \A l : last(h, l) = last(g, l)
  OBVIOUS
<1>2. ASSUME NEW l, last(h, l) # {}
      PROVE  h[Max(last(h, l))].type = g[Max(last(g, l))].type
  <2>1. \E x \in last(h, l) : \A y \in last(h, l) : x >= y
    <3>1. last(h, l) \subseteq 1..n
      OBVIOUS
    <3> QED BY <1>2, <3>1, LargestExists
  <2>2. Max(last(h, l)) \in last(h, l)
    BY <2>1 DEF Max
  <2>3. Max(last(h, l)) \in 1..n
    BY <2>2
  <2> QED BY <1>1, <2>3
<1>3. present(h) = present(g)
  BY <1>1, <1>2
<1>4. RowsIn(h, n) = [l \in present(h) |-> Max(last(h, l))]
      /\ RowsIn(g, n) = [l \in present(g) |-> Max(last(g, l))]
  BY DEF RowsIn
<1> HIDE DEF last, present
<1> QED BY <1>1, <1>3, <1>4

\* What an event makes of the rows of the event before it.
LEMMA RowsAtNext ==
    ASSUME NEW h \in Seq(EventRow), NEW n \in Nat, n + 1 <= Len(h)
    PROVE  RowsIn(h, n + 1) =
              CASE h[n + 1].type = "changed" -> Put(RowsIn(h, n), h[n + 1].log, n + 1)
                [] h[n + 1].type = "deleted" -> Without(RowsIn(h, n), {h[n + 1].log})
                [] OTHER -> RowsIn(h, n)
<1> DEFINE last(l) == {i \in 1..n : h[i].log = l}
           next(l) == {i \in 1..(n + 1) : h[i].log = l}
           before == {l \in Log : last(l) # {} /\ h[Max(last(l))].type = "changed"}
           after == {l \in Log : next(l) # {} /\ h[Max(next(l))].type = "changed"}
           entry == h[n + 1]
<1>1. RowsIn(h, n) = [l \in before |-> Max(last(l))]
      /\ RowsIn(h, n + 1) = [l \in after |-> Max(next(l))]
  BY DEF RowsIn
<1>2. entry \in EventRow
  OBVIOUS
<1>3. ASSUME NEW l \in Log, l # entry.log
      PROVE  next(l) = last(l)
  <2>1. ASSUME NEW i \in 1..(n + 1), h[i].log = l PROVE i \in 1..n
    BY <1>3, <2>1
  <2> QED BY <2>1
<1>4. ASSUME entry.log \in Log
      PROVE  next(entry.log) # {} /\ Max(next(entry.log)) = n + 1
  <2>1. n + 1 \in next(entry.log) /\ \A i \in next(entry.log) : n + 1 >= i
    OBVIOUS
  <2>2. \A x \in next(entry.log) : (\A y \in next(entry.log) : x >= y) => x = n + 1
    BY <2>1
  <2> QED BY <2>1, <2>2 DEF Max
<1>5. \A l \in Log : l # entry.log => (l \in after <=> l \in before)
  BY <1>3
<1>6. CASE entry.type = "changed"
  <2>1. entry.log \in Log
    BY <1>2, <1>6 DEF EventRow
  <2>2. entry.log \in after
    BY <1>4, <1>6, <2>1
  <2>3. after = before \cup {entry.log}
    BY <1>5, <2>1, <2>2
  <2>4. ASSUME NEW l \in after
        PROVE  Max(next(l)) = IF l = entry.log THEN n + 1 ELSE Max(last(l))
    BY <1>3, <1>4, <2>1
  <2> HIDE DEF last, next, before, after
  <2>5. DOMAIN RowsIn(h, n) = before
    BY <1>1
  <2>6. \A l \in after \ {entry.log} : RowsIn(h, n)[l] = Max(last(l))
    BY <1>1, <2>3
  <2>7. \A l \in after : Max(next(l)) = IF l = entry.log THEN n + 1 ELSE RowsIn(h, n)[l]
    BY <2>4, <2>6
  <2>8. RowsIn(h, n + 1) = [l \in after |-> IF l = entry.log THEN n + 1 ELSE RowsIn(h, n)[l]]
    BY <1>1, <2>7
  <2>9. RowsIn(h, n + 1) = Put(RowsIn(h, n), entry.log, n + 1)
    BY <2>3, <2>5, <2>8 DEF Put
  <2> QED BY <1>6, <2>9
<1>7. CASE entry.type = "deleted"
  <2>1. entry.log \in Log
    BY <1>2, <1>7 DEF EventRow
  <2>2. entry.log \notin after
    BY <1>4, <1>7, <2>1
  <2>3. after = before \ {entry.log}
    BY <1>5, <2>1, <2>2
  <2>4. ASSUME NEW l \in after PROVE Max(next(l)) = Max(last(l))
    BY <1>3, <2>3
  <2> HIDE DEF last, next, before, after
  <2>5. DOMAIN RowsIn(h, n) = before
    BY <1>1
  <2>6. \A l \in after : RowsIn(h, n)[l] = Max(last(l))
    BY <1>1, <2>3
  <2>7. RowsIn(h, n + 1) = [l \in before \ {entry.log} |-> RowsIn(h, n)[l]]
    BY <1>1, <2>3, <2>4, <2>6
  <2> QED BY <1>7, <2>5, <2>7 DEF Without, Restrict
<1>8. CASE entry.type \notin {"changed", "deleted"}
  <2>1. entry.log = "none"
    BY <1>2, <1>8 DEF EventRow
  <2>2. \A l \in Log : next(l) = last(l)
    BY <1>3, <2>1, PublicAssumption
  <2>3. after = before
    BY <2>2
  <2>4. ASSUME NEW l \in after PROVE Max(next(l)) = Max(last(l))
    BY <2>2, <2>3
  <2> HIDE DEF last, next, before, after
  <2>5. RowsIn(h, n + 1) = RowsIn(h, n)
    BY <1>1, <2>3, <2>4
  <2> QED BY <1>8, <2>5
<1> QED BY <1>6, <1>7, <1>8

\* The rows that follow from the last event are those of the longer history, and
\* pages show what they showed.
LEMMA MomentAfterAppend ==
    ASSUME ViewerInv, NEW entry \in EventRow, history' = Append(history, entry), page' = page,
           rows' = CASE entry.type = "changed" -> Put(rows, entry.log, head + 1)
                     [] entry.type = "deleted" -> Without(rows, {entry.log})
                     [] OTHER -> rows
    PROVE  MomentInv'
<1>1. PICK n \in Nat : n = head
  BY TypeFacts DEF ViewerInv
<1>2. /\ history' \in Seq(EventRow) /\ head' = n + 1
      /\ \A i \in 1..n : history'[i] = history[i]
      /\ history'[n + 1] = entry
  BY <1>1, AppendEffect DEF ViewerInv
<1>3. rows = RowsIn(history, n)
  BY <1>1, RowsAtIsRowsIn DEF ViewerInv, MomentInv
<1>4. \A m \in 0..n : RowsIn(history', m) = RowsIn(history, m)
  <2>1. ASSUME NEW m \in 0..n PROVE RowsIn(history', m) = RowsIn(history, m)
    <3>1. m \in Nat /\ \A i \in 1..m : i \in 1..n
      OBVIOUS
    <3>2. \A i \in 1..m : history'[i] = history[i]
      BY <1>2, <3>1
    <3> QED BY <3>1, <3>2, RowsOfPrefix
  <2> QED BY <2>1
<1>5. PICK h \in Seq(EventRow) : h = history'
  BY <1>2
<1>6. n + 1 <= Len(h)
  BY <1>2, <1>5 DEF head
<1>7. rows' = RowsIn(h, n + 1)
  <2>1. RowsIn(h, n) = rows
    BY <1>3, <1>4, <1>5
  <2>2. h[n + 1] = entry
    BY <1>2, <1>5
  <2>3. RowsIn(h, n + 1) =
            CASE h[n + 1].type = "changed" -> Put(RowsIn(h, n), h[n + 1].log, n + 1)
              [] h[n + 1].type = "deleted" -> Without(RowsIn(h, n), {h[n + 1].log})
              [] OTHER -> RowsIn(h, n)
    BY <1>6, RowsAtNext
  <2> QED BY <1>1, <2>1, <2>2, <2>3
<1>8. rows' = RowsAt(head)'
  <2>1. RowsAt(head)' = RowsIn(history', head')
    BY DEF RowsAt, RowsIn
  <2> QED BY <1>2, <1>5, <1>7, <2>1
<1>9. ASSUME ~Over PROVE page.logs = RowsAt(page.cursor)'
  <2>1. page.cursor \in 0..n
    BY <1>1, TypeFacts DEF ViewerInv
  <2>2. page.logs = RowsIn(history, page.cursor)
    BY <1>9, RowsAtIsRowsIn DEF ViewerInv, MomentInv
  <2>3. RowsAt(page.cursor)' = RowsIn(history', page'.cursor)
    BY DEF RowsAt, RowsIn
  <2> QED BY <1>4, <2>1, <2>2, <2>3
<1>10. Over' <=> Over
  BY DEF Over
<1> QED BY <1>8, <1>9, <1>10 DEF MomentInv, ViewerInv

\* An event is no news to a page that is cut off.
LEMMA SilenceAfterAppend ==
    ASSUME ViewerInv, socket' = Deliver(socket, head + 1),
           UNCHANGED <<shares, over, page, shutAt>>
    PROVE  SilenceInv'
<1>1. socket'.open => socket.open
  <2>1. Write(socket, <<Resync>>).open => socket.open
    BY DEF Write
  <2>2. Shut(Write(socket, <<Resync>>), 4009).open => socket.open
    BY <2>1 DEF Shut
  <2>3. socket.open \/ socket' = socket
    BY DEF Deliver
  <2> QED BY <2>3
<1>2. ~socket.open => socket' = socket
  BY ClosedTakesNothing
<1> QED BY <1>1, <1>2 DEF ViewerInv, SilenceInv, Active

\* What members do keeps pages at one moment and dead shares silent.
LEMMA SessionKeeps ==
    ASSUME ViewerInv, SessionStep
    PROVE  ViewerInv'
<1>0. page' = page /\ ViewerTypes'
  BY SessionTypes DEF SessionStep, viewerVars, ViewerInv
<1>1. ASSUME NEW l \in Log, ChangeLog(l) PROVE MomentInv' /\ SilenceInv'
  <2>1. PICK entry \in EventRow : entry = Projected("changed", l)
    BY ProjectedTypes
  <2>2. entry.type = "changed" /\ entry.log = l
    BY <2>1 DEF Projected
  <2>3. /\ history' = Append(history, entry) /\ socket' = Deliver(socket, head + 1)
        /\ rows' = Put(rows, entry.log, head + 1) /\ UNCHANGED <<shares, over, shutAt>>
    BY <1>1, <2>1, <2>2 DEF ChangeLog, AppendAndPublish
  <2>4. rows' = CASE entry.type = "changed" -> Put(rows, entry.log, head + 1)
                 [] entry.type = "deleted" -> Without(rows, {entry.log})
                 [] OTHER -> rows
    BY <2>2, <2>3
  <2>5. MomentInv'
    BY <1>0, <2>3, <2>4, MomentAfterAppend
  <2>6. SilenceInv'
    BY <1>0, <2>3, SilenceAfterAppend
  <2> QED BY <2>5, <2>6
<1>2. ASSUME NEW l \in Log, DeleteLog(l) PROVE MomentInv' /\ SilenceInv'
  <2>1. PICK entry \in EventRow : entry = Projected("deleted", l)
    BY ProjectedTypes
  <2>2. entry.type = "deleted" /\ entry.log = l
    BY <2>1 DEF Projected
  <2>3. /\ history' = Append(history, entry) /\ socket' = Deliver(socket, head + 1)
        /\ rows' = Without(rows, {entry.log}) /\ UNCHANGED <<shares, over, shutAt>>
    BY <1>2, <2>1, <2>2 DEF DeleteLog, AppendAndPublish
  <2>4. rows' = CASE entry.type = "changed" -> Put(rows, entry.log, head + 1)
                 [] entry.type = "deleted" -> Without(rows, {entry.log})
                 [] OTHER -> rows
    BY <2>2, <2>3
  <2>5. MomentInv'
    BY <1>0, <2>3, <2>4, MomentAfterAppend
  <2>6. SilenceInv'
    BY <1>0, <2>3, SilenceAfterAppend
  <2> QED BY <2>5, <2>6
<1>3. CASE ChangeSession
  <2>1. PICK entry \in EventRow : entry = Projected("session", "none")
    BY ProjectedTypes
  <2>2. entry.type = "session"
    BY <2>1 DEF Projected
  <2>3. /\ history' = Append(history, entry) /\ socket' = Deliver(socket, head + 1)
        /\ rows' = rows /\ UNCHANGED <<shares, over, shutAt>>
    BY <1>3, <2>1 DEF ChangeSession, AppendAndPublish
  <2>4. rows' = CASE entry.type = "changed" -> Put(rows, entry.log, head + 1)
                 [] entry.type = "deleted" -> Without(rows, {entry.log})
                 [] OTHER -> rows
    BY <2>2, <2>3
  <2>5. MomentInv'
    BY <1>0, <2>3, <2>4, MomentAfterAppend
  <2>6. SilenceInv'
    BY <1>0, <2>3, SilenceAfterAppend
  <2> QED BY <1>0, <2>5, <2>6 DEF ViewerInv
<1>4. CASE PruneEvent
  <2>1. UNCHANGED <<rows, history, shares, over, socket, shutAt>>
    BY <1>4 DEF PruneEvent, wireVars
  <2>2. MomentInv'
    BY <1>0, <2>1 DEF ViewerInv, MomentInv, Over, RowsAt, head
  <2>3. SilenceInv'
    BY <1>0, <2>1 DEF ViewerInv, SilenceInv, Active
  <2> QED BY <1>0, <2>2, <2>3 DEF ViewerInv
<1> QED BY <1>0, <1>1, <1>2, <1>3, <1>4 DEF SessionStep, ViewerInv

\* What owners and clocks do to shares does so, too.
LEMMA SharesKeep ==
    ASSUME ViewerInv, ShareStep
    PROVE  ViewerInv'
<1>0. page' = page /\ ViewerTypes' /\ head \in Nat
  BY ShareStepTypes, TypeFacts DEF ShareStep, viewerVars, ViewerInv
<1>m. ASSUME UNCHANGED <<rows, history>> PROVE MomentInv'
  BY <1>0, <1>m DEF ViewerInv, MomentInv, Over, RowsAt, head
<1>1. ASSUME NEW s \in Share, CreateShare(s) PROVE MomentInv' /\ SilenceInv'
  <2>1. UNCHANGED <<rows, history, over, socket, shutAt>> /\ s \notin DOMAIN shares /\ ~over
    BY <1>1 DEF CreateShare, wireVars
  <2>2. DOMAIN shares' = DOMAIN shares \cup {s} /\ \A x \in DOMAIN shares : shares'[x] = shares[x]
    BY <1>1 DEF CreateShare, Put
  <2>3. SilenceInv'
    BY <1>0, <2>1, <2>2 DEF ViewerInv, SilenceInv, Active
  <2> QED BY <1>m, <2>1, <2>3
<1>2. ASSUME NEW s \in Share, RevokeShare(s) PROVE MomentInv' /\ SilenceInv'
  <2>1. /\ UNCHANGED <<rows, history, over>> /\ s \in DOMAIN shares
        /\ shares' = [shares EXCEPT ![s].revoked = TRUE] /\ DOMAIN shares' = DOMAIN shares
    BY <1>2 DEF RevokeShare, RevokeRow
  <2>2. ~Active(Link) => ~Active(Link)'
    BY <2>1, TypeFacts DEF ViewerInv, IsTable, ShareRow, Active
  <2>3. CASE s # Link
    <3>1. UNCHANGED <<socket, shutAt>>
      BY <1>2, <2>3 DEF RevokeShare, RevokeRow
    <3> QED BY <1>0, <1>m, <2>1, <2>2, <3>1 DEF ViewerInv, SilenceInv
  <2>4. CASE s = Link
    <3>1. socket' = Revoke(socket, "revoked")
      BY <1>2, <2>4 DEF RevokeShare, RevokeRow
    <3>2. PICK n \in Nat : n = head
      BY <1>0
    <3>3. SocketFits(socket', n) /\ ~socket'.open
      BY <3>1, <3>2, TypeFacts, RevokeFits DEF ViewerInv
    <3>4. ~Active(Link)'
      BY <2>1, <2>4, TypeFacts DEF ViewerInv, IsTable, ShareRow, Active
    <3>5. CASE shutAt = -1
      <4>1. shutAt' = head
        BY <1>2, <2>4, <3>5 DEF RevokeShare, RevokeRow, Shown
      <4>2. page.cursor <= head
        BY TypeFacts DEF ViewerInv
      <4> QED BY <1>0, <1>m, <2>1, <2>4, <3>2, <3>3, <3>4, <4>1, <4>2 DEF SilenceInv
    <3>6. CASE shutAt # -1
      <4>1. shutAt' = shutAt /\ socket' = socket
        BY <1>2, <2>4, <3>1, <3>6, ClosedTakesNothing
        DEF RevokeShare, RevokeRow, Shown, ViewerInv, SilenceInv
      <4> QED BY <1>0, <1>m, <2>1, <3>4, <4>1 DEF ViewerInv, SilenceInv
    <3> QED BY <3>5, <3>6
  <2> QED BY <2>3, <2>4
<1>3. ASSUME NEW s \in Share, ShareExpires(s) PROVE MomentInv' /\ SilenceInv'
  <2>1. /\ UNCHANGED <<rows, history, over, socket, shutAt>> /\ s \in DOMAIN shares
        /\ shares' = [shares EXCEPT ![s].expired = TRUE] /\ DOMAIN shares' = DOMAIN shares
    BY <1>3 DEF ShareExpires
  <2>2. ~Active(Link) => ~Active(Link)'
    BY <2>1, TypeFacts DEF ViewerInv, IsTable, ShareRow, Active
  <2> QED BY <1>0, <1>m, <2>1, <2>2 DEF ViewerInv, SilenceInv
<1>4. CASE DeleteSession
  <2>1. PICK entry \in EventRow : entry = Projected("session.deleted", "none")
    BY ProjectedTypes
  <2>2. entry.type = "session.deleted"
    BY <2>1 DEF Projected
  <2>3. /\ history' = Append(history, entry) /\ rows' = rows /\ over' = TRUE
        /\ socket' = Shut(Deliver(socket, head + 1), 1000)
        /\ shutAt' = IF shutAt = -1 THEN head + 1 ELSE shutAt
    BY <1>4, <2>1 DEF DeleteSession, Shown
  <2>4. MomentInv'
    <3>1. rows' = CASE entry.type = "changed" -> Put(rows, entry.log, head + 1)
                   [] entry.type = "deleted" -> Without(rows, {entry.log})
                   [] OTHER -> rows
      BY <2>2, <2>3
    <3> QED BY <1>0, <2>3, <3>1, MomentAfterAppend
  <2>5. ~Active(Link)'
    BY <2>3 DEF Active
  <2>6. PICK n \in Nat : n = head + 1
    BY <1>0
  <2>7. SocketFits(Deliver(socket, n), n)
    BY <2>3, <2>6, AppendEffect DEF ViewerInv
  <2>8. SocketFits(socket', n) /\ ~socket'.open
    <3>1. PICK sock : sock = Deliver(socket, n)
      OBVIOUS
    <3>2. SocketFits(Shut(sock, 1000), n) /\ ~Shut(sock, 1000).open
      BY <2>7, <3>1, ShutFits
    <3> QED BY <2>3, <2>6, <3>1, <3>2
  <2>9. CASE shutAt = -1
    <3>1. page.cursor <= head + 1
      BY <1>0, TypeFacts DEF ViewerInv
    <3> QED BY <1>0, <2>3, <2>4, <2>5, <2>6, <2>8, <2>9, <3>1 DEF SilenceInv, ViewerInv
  <2>10. CASE shutAt # -1
    <3>1. socket' = socket
      BY <2>3, <2>10, ClosedTakesNothing DEF ViewerInv, SilenceInv
    <3> QED BY <1>0, <2>3, <2>4, <2>5, <2>10, <3>1 DEF ViewerInv, SilenceInv
  <2> QED BY <2>9, <2>10
<1> QED BY <1>0, <1>1, <1>2, <1>3, <1>4 DEF ShareStep, ViewerInv

\* What the page's steps start from.
LEMMA ViewerFacts ==
    ASSUME ViewerInv
    PROVE  /\ head \in Nat /\ page \in Page /\ page.cursor \in Nat /\ page.cursor <= head
           /\ token \in {"none", "valid", "expired"} /\ IsTable(tickets, Ticket, 0..head)
           /\ SocketFits(socket, head) /\ rows \in Logs
           /\ rows = RowsAt(head) /\ history \in Seq(EventRow)
           /\ ~Over => page.logs = RowsAt(page.cursor)
           /\ Active(Link) => shutAt = -1
           /\ shutAt # -1 => page.cursor <= shutAt
BY TypeFacts DEF ViewerInv, ViewerTypes, WireTypes, MomentInv, SilenceInv

\* The page is told that there is nothing to see.
LEMMA UnavailableIsPage ==
    ASSUME ViewerInv
    PROVE  /\ Unavailable \in Page /\ Unavailable.cursor = page.cursor
           /\ Unavailable.logs = NoRows /\ Unavailable.step = "unavailable"
<1>1. NoRows \in [{} -> Nat]
  BY DEF NoRows
<1>2. NoRows \in Logs
  BY <1>1 DEF Logs
<1> QED BY <1>2, ViewerFacts DEF Unavailable, Page

\* The rounds of run keep the page at one moment and silent when it must be.
LEMMA RoundsKeep ==
    ASSUME ViewerInv,
           CheckServer \/ ExchangeLink \/ KeepToken \/ LoadSnapshot \/ GetTicket \/ Retry
              \/ ServerUnsupported \/ ExchangeIsLost \/ RequestIsLost
    PROVE  ViewerInv'
<1>0. head \in Nat /\ page \in Page /\ token \in {"none", "valid", "expired"}
      /\ IsTable(tickets, Ticket, 0..head) /\ page.cursor \in 0..head
  BY ViewerFacts
<1>1. CASE CheckServer
  <2>1. page' \in Page /\ page'.cursor = page.cursor /\ page'.logs = page.logs /\ ~Over /\ ~Over'
    BY <1>0, <1>1 DEF CheckServer, Page, Over
  <2> QED BY <1>0, <1>1, <2>1, PageStays DEF CheckServer, wireVars
<1>2. CASE ExchangeLink
  <2>1. UNCHANGED <<serverVars, tickets, socket, shutAt>> /\ ~Over
    BY <1>2 DEF ExchangeLink, Over
  <2>2. CASE Active(Link)
    <3>1. page' \in Page /\ page'.cursor = page.cursor /\ page'.logs = page.logs /\ ~Over'
          /\ token' = "valid"
      BY <1>0, <1>2, <2>2 DEF ExchangeLink, Page, Over
    <3> QED BY <1>0, <2>1, <3>1, PageStays
  <2>3. CASE ~Active(Link)
    <3>1. page' = Unavailable /\ token' = token
      BY <1>2, <2>3 DEF ExchangeLink
    <3>2. page' \in Page /\ page'.cursor = page.cursor /\ page'.logs = NoRows /\ Over'
      BY <3>1, UnavailableIsPage DEF Over
    <3> QED BY <1>0, <2>1, <3>1, <3>2, PageStays
  <2> QED BY <2>2, <2>3
<1>3. CASE KeepToken
  <2>1. page' \in Page /\ page'.cursor = page.cursor /\ page'.logs = page.logs /\ ~Over /\ ~Over'
    BY <1>0, <1>3 DEF KeepToken, Page, Over
  <2> QED BY <1>0, <1>3, <2>1, PageStays DEF KeepToken, wireVars
<1>4. CASE LoadSnapshot
  <2>1. UNCHANGED serverVars /\ ~Over
    BY <1>4 DEF LoadSnapshot, Over
  <2>2. CASE ~page.needSnapshot
    <3>1. page' \in Page /\ page'.cursor = page.cursor /\ page'.logs = page.logs /\ ~Over'
          /\ UNCHANGED wireVars
      BY <1>0, <1>4, <2>2 DEF LoadSnapshot, Page, Over
    <3> QED BY <1>0, <2>1, <3>1, PageStays DEF wireVars
  <2>3. CASE page.needSnapshot /\ Authorized /\ ~SnapshotTooLarge
    <3>1. page' = Snapshot /\ UNCHANGED wireVars
      BY <1>4, <2>3 DEF LoadSnapshot
    <3>2. page' \in Page /\ page'.cursor = head /\ page'.logs = rows /\ ~Over'
      BY <1>0, <3>1, ViewerFacts DEF Snapshot, Page, Over
    <3>3. shutAt = -1
      BY <2>3, ViewerFacts DEF Authorized
    <3>4. page'.logs = RowsAt(page'.cursor)
      BY <3>2, ViewerFacts
    <3> QED BY <1>0, <2>1, <3>1, <3>2, <3>3, <3>4, PageKeeps, ViewerFacts DEF wireVars
  <2>4. CASE page.needSnapshot /\ ~Authorized
    <3>1. page' \in Page /\ page'.cursor = page.cursor /\ page'.logs = page.logs /\ ~Over'
          /\ UNCHANGED <<tickets, socket, shutAt>> /\ token' = "none"
      BY <1>0, <1>4, <2>4 DEF LoadSnapshot, DropToken, Page, Over
    <3> QED BY <1>0, <2>1, <3>1, PageStays
  <2>5. CASE page.needSnapshot /\ Authorized /\ SnapshotTooLarge
    <3>1. page' = Stopped("tooLarge") /\ UNCHANGED wireVars
      BY <1>4, <2>5 DEF LoadSnapshot
    <3>2. page' \in Page /\ page'.cursor = page.cursor /\ page'.logs = page.logs /\ ~Over'
      BY <1>0, <3>1 DEF Stopped, Page, Over
    <3> QED BY <1>0, <2>1, <3>1, <3>2, PageStays DEF wireVars
  <2> QED BY <2>2, <2>3, <2>4, <2>5
<1>5. CASE GetTicket
  <2>1. UNCHANGED serverVars /\ ~Over
    BY <1>5 DEF GetTicket, Over
  <2>2. CASE ~Authorized
    <3>1. page' \in Page /\ page'.cursor = page.cursor /\ page'.logs = page.logs /\ ~Over'
          /\ UNCHANGED <<tickets, socket, shutAt>> /\ token' = "none"
      BY <1>0, <1>5, <2>2 DEF GetTicket, DropToken, Page, Over
    <3> QED BY <1>0, <2>1, <3>1, PageStays
  <2>3. CASE Authorized
    <3>1. UNCHANGED <<token, socket, shutAt>>
      BY <1>5, <2>3 DEF GetTicket
    <3>2. CASE tickets' = tickets
      <4>1. page' \in Page /\ page'.cursor = page.cursor /\ page'.logs = page.logs /\ ~Over'
        BY <1>0, <1>5, <2>3, <3>2 DEF GetTicket, Page, Over
      <4> QED BY <1>0, <2>1, <3>1, <3>2, <4>1, PageStays
    <3>3. CASE \E t \in Ticket :
                 /\ IssueTicket(t, page.cursor)
                 /\ page' = [page EXCEPT !.step = "connect", !.ticket = t]
      <4>1. PICK t \in Ticket :
                 /\ IssueTicket(t, page.cursor)
                 /\ page' = [page EXCEPT !.step = "connect", !.ticket = t]
        BY <3>3
      <4>2. page' \in Page /\ page'.cursor = page.cursor /\ page'.logs = page.logs /\ ~Over'
        BY <1>0, <4>1 DEF Page, Over
      <4>3. IsTable(tickets', Ticket, 0..head)
        BY <1>0, <4>1, PutIsTable DEF IssueTicket
      <4> QED BY <1>0, <2>1, <3>1, <4>2, <4>3, PageStays
    <3> QED BY <1>5, <2>3, <3>2, <3>3 DEF GetTicket
  <2> QED BY <2>2, <2>3
<1>6. CASE Retry
  <2>1. page' \in Page /\ page'.cursor = page.cursor /\ page'.logs = page.logs /\ ~Over /\ ~Over'
    BY <1>0, <1>6 DEF Retry, Page, Over
  <2> QED BY <1>0, <1>6, <2>1, PageStays DEF Retry, wireVars
<1>7. CASE ExchangeIsLost
  <2>1. page' \in Page /\ page'.cursor = page.cursor /\ page'.logs = page.logs /\ ~Over /\ ~Over'
    BY <1>0, <1>7 DEF ExchangeIsLost, Page, Over
  <2> QED BY <1>0, <1>7, <2>1, PageStays DEF ExchangeIsLost, wireVars
<1>8. CASE RequestIsLost
  <2>1. page' \in Page /\ page'.cursor = page.cursor /\ page'.logs = page.logs /\ ~Over /\ ~Over'
    BY <1>0, <1>8 DEF RequestIsLost, Page, Over
  <2>2. UNCHANGED <<serverVars, token, socket, shutAt>>
    BY <1>8 DEF RequestIsLost
  <2>3. ASSUME NEW t \in Ticket, IssueTicket(t, page.cursor)
        PROVE  IsTable(tickets', Ticket, 0..head)
    BY <1>0, <2>3, PutIsTable DEF IssueTicket
  <2>4. IsTable(tickets', Ticket, 0..head)
    BY <1>0, <1>8, <2>3 DEF RequestIsLost
  <2> QED BY <1>0, <2>1, <2>2, <2>4, PageStays
<1>9. CASE ServerUnsupported
  <2>1. page' \in Page /\ page'.cursor = page.cursor /\ page'.logs = page.logs /\ ~Over /\ ~Over'
    BY <1>0, <1>9 DEF ServerUnsupported, Stopped, Page, Over
  <2> QED BY <1>0, <1>9, <2>1, PageStays DEF ServerUnsupported, wireVars
<1> QED BY <1>1, <1>2, <1>3, <1>4, <1>5, <1>6, <1>7, <1>8, <1>9

\* What becomes of the page when its event is applied.
LEMMA AppliedIsPage ==
    ASSUME ViewerInv, ~Over, NEW n \in Nat, n = page.cursor + 1, n <= head
    PROVE  /\ Applied(n) \in Page /\ Applied(n).cursor = n
           /\ Applied(n).step = page.step /\ Applied(n).logs = RowsAt(n)
<1>0. page \in Page /\ head \in Nat /\ page.logs \in Logs /\ page.cursor \in Nat
      /\ history \in Seq(EventRow)
  BY ViewerFacts DEF Page
<1>1. PICK c \in Nat : c = page.cursor /\ n = c + 1
  BY <1>0
<1>2. PICK h \in Seq(EventRow) : h = history
  BY <1>0
<1>3. c + 1 <= Len(h) /\ n <= Len(h)
  BY <1>1, <1>2 DEF head
<1>4. PICK entry \in EventRow : entry = history[n]
  BY <1>1, <1>2, <1>3
<1> DEFINE after == CASE entry.type = "changed" -> Put(page.logs, entry.log, n)
                      [] entry.type = "deleted" -> Without(page.logs, {entry.log})
                      [] OTHER -> page.logs
<1>5. page.logs = RowsIn(h, c)
  BY <1>1, <1>2, ViewerFacts, RowsAtIsRowsIn
<1>6. RowsIn(h, c + 1) =
          CASE h[c + 1].type = "changed" -> Put(RowsIn(h, c), h[c + 1].log, c + 1)
            [] h[c + 1].type = "deleted" -> Without(RowsIn(h, c), {h[c + 1].log})
            [] OTHER -> RowsIn(h, c)
  BY <1>3, RowsAtNext
<1>7. after = RowsAt(n)
  BY <1>1, <1>2, <1>4, <1>5, <1>6, RowsAtIsRowsIn
<1>8. after \in Logs
  <2>1. entry.type = "changed" => entry.log \in Log
    BY DEF EventRow
  <2>2. entry.type = "changed" => Put(page.logs, entry.log, n) \in Logs
    BY <1>0, <2>1, LogsKept
  <2>3. Without(page.logs, {entry.log}) \in Logs
    BY <1>0, LogsKept
  <2> QED BY <1>0, <2>2, <2>3
<1>9. Applied(n) = [page EXCEPT !.cursor = n, !.logs = after]
  BY <1>0, <1>4 DEF Applied, Parsed, Page
<1> HIDE DEF after
<1> QED BY <1>0, <1>7, <1>8, <1>9 DEF Page

\* What the messages of the socket say keeps the page at one moment.
LEMMA MessagesKeep ==
    ASSUME ViewerInv,
           OpenSocket \/ ReceiveHello \/ ReceiveEvent \/ ReceiveReady \/ ReceiveResync
              \/ ReceiveExpired \/ ReceiveRevoked \/ ReceiveClose
    PROVE  ViewerInv'
<1>0. head \in Nat /\ page \in Page /\ token \in {"none", "valid", "expired"}
      /\ IsTable(tickets, Ticket, 0..head) /\ page.cursor \in Nat /\ page.cursor <= head
      /\ SocketFits(socket, head)
  BY ViewerFacts
<1>1. ASSUME NEW type, Arrives(type)
      PROVE  /\ ~Over /\ socket.wire # << >> /\ socket.wire[1] \in Message
             /\ socket.wire[1].type = type
             /\ page.logs = RowsAt(page.cursor)
  <2>1. ~Over /\ socket.wire # << >> /\ socket.wire[1].type = type
    BY <1>1 DEF Arrives, Over
  <2>2. PICK n \in Nat : n = head
    BY <1>0
  <2>3. socket.wire[1] \in Message
    BY <1>0, <2>1, <2>2, ReadFits
  <2> QED BY <2>1, <2>3, ViewerFacts
<1>2. ASSUME Finish(Resynced), ~Over PROVE ViewerInv'
  BY <1>2, ResyncedIsPage, FinishKeeps DEF ViewerInv
<1>3. CASE OpenSocket
  <2>1. ~Over /\ UNCHANGED <<serverVars, token, shutAt>>
    BY <1>3 DEF OpenSocket, Over
  <2>2. CASE Admissible(page.ticket)
    <3>1. Accept(page.ticket)
          /\ page' = [page EXCEPT !.step = "socket", !.stage = "hello", !.ticket = "none"]
      BY <1>3, <2>2 DEF OpenSocket
    <3>2. SocketFits(socket', head) /\ IsTable(tickets', Ticket, 0..head)
      BY <3>1, AcceptFits DEF ViewerInv
    <3>3. page' \in Page /\ page'.cursor = page.cursor /\ page'.logs = page.logs /\ ~Over'
      BY <1>0, <3>1 DEF Page, Over
    <3>4. Active(Link) /\ shutAt = -1
      BY <2>2, ViewerFacts DEF Admissible, Authorized
    <3>5. page'.logs = RowsAt(page'.cursor)
      BY <2>1, <3>3, ViewerFacts
    <3> QED BY <1>0, <2>1, <3>2, <3>3, <3>4, <3>5, PageKeeps
  <2>3. CASE ~Admissible(page.ticket)
    <3>1. page' = Round(Resynced) /\ UNCHANGED <<tickets, socket>>
      BY <1>3, <2>3 DEF OpenSocket
    <3>2. page' \in Page /\ page'.cursor = page.cursor /\ page'.logs = page.logs
      BY <3>1, ResyncedIsPage, RoundIsPage DEF ViewerInv
    <3>3. ~Over'
      BY <3>1, ResyncedIsPage DEF Round, Over, Page, ViewerInv
    <3> QED BY <1>0, <2>1, <3>1, <3>2, <3>3, PageStays
  <2> QED BY <2>2, <2>3
<1>4. CASE ReceiveHello
  <2>1. Arrives("hello")
    BY <1>4 DEF ReceiveHello
  <2>2. PICK n \in Nat : n = socket.wire[1].seq
    BY <1>1, <2>1 DEF Message
  <2>3. CASE page.stage # "hello" \/ n < page.cursor
    <3>1. Finish(Resynced)
      BY <1>4, <2>2, <2>3 DEF ReceiveHello
    <3> QED BY <1>1, <1>2, <2>1, <3>1
  <2>4. CASE ~(page.stage # "hello" \/ n < page.cursor)
    <3>1. PICK p : p = [page EXCEPT !.stage = "backlog", !.helloHead = n]
      OBVIOUS
    <3>2. GoOn(p)
      BY <1>4, <2>2, <2>4, <3>1 DEF ReceiveHello
    <3>3. p \in Page /\ p.cursor = page.cursor /\ p.logs = page.logs /\ p.step = page.step
      BY <1>0, <3>1 DEF Page
    <3>4. p.step \notin {"ended", "unavailable"} /\ p.logs = RowsAt(p.cursor) /\ p.cursor <= head
          /\ (shutAt # -1 => p.cursor <= shutAt) /\ socket.wire # << >>
      BY <1>0, <1>1, <2>1, <3>3, ViewerFacts DEF Over
    <3> QED BY <3>2, <3>3, <3>4, PageReads
  <2> QED BY <2>3, <2>4
<1>5. CASE ReceiveEvent
  <2>1. Arrives("event")
    BY <1>5 DEF ReceiveEvent
  <2>2. PICK n \in Nat : n = socket.wire[1].seq
    BY <1>1, <2>1 DEF Message
  <2>3. n <= head
    <3>1. PICK m \in Nat : m = head
      BY <1>0
    <3>2. socket.wire[1].type = "event" => socket.wire[1].seq <= m
      BY <1>0, <1>1, <2>1, <3>1, ReadFits
    <3> QED BY <1>1, <2>1, <2>2, <3>1, <3>2
  <2>4. shutAt # -1 => n <= shutAt
    <3> SUFFICES ASSUME shutAt # -1 PROVE n <= shutAt
      OBVIOUS
    <3>1. PICK m \in Nat : m = shutAt
      BY DEF ViewerInv, ViewerTypes, WireTypes
    <3>2. SocketFits(socket, m)
      BY <3>1 DEF ViewerInv, SilenceInv
    <3>3. socket.wire[1].type = "event" => socket.wire[1].seq <= m
      BY <1>1, <2>1, <3>2, ReadFits
    <3> QED BY <1>1, <2>1, <2>2, <3>1, <3>3
  <2>5. CASE page.stage = "hello" \/ (~(n <= page.cursor) /\ n # page.cursor + 1)
    <3>1. Finish(Resynced)
      BY <1>5, <2>2, <2>5 DEF ReceiveEvent
    <3> QED BY <1>1, <1>2, <2>1, <3>1
  <2>6. CASE page.stage # "hello" /\ n <= page.cursor
    <3>1. GoOn(page)
      BY <1>5, <2>2, <2>6 DEF ReceiveEvent
    <3>2. PICK p \in Page : p = page
      BY <1>0
    <3>3. p.step \notin {"ended", "unavailable"} /\ p.logs = RowsAt(p.cursor) /\ p.cursor <= head
          /\ (shutAt # -1 => p.cursor <= shutAt) /\ socket.wire # << >>
      BY <1>0, <1>1, <2>1, <3>2, ViewerFacts DEF Over
    <3> QED BY <3>1, <3>2, <3>3, PageReads
  <2>7. CASE page.stage # "hello" /\ ~(n <= page.cursor) /\ n = page.cursor + 1
    <3>1. Applied(n) \in Page /\ Applied(n).cursor = n /\ Applied(n).step = page.step
          /\ Applied(n).logs = RowsAt(n)
      BY <1>1, <2>1, <2>3, <2>7, AppliedIsPage
    <3>2. CASE Parsed(n).type = "session.deleted"
      <4>1. /\ page' = [Applied(n) EXCEPT !.step = "ended", !.logs = NoRows]
            /\ socket' = NoSocket
            /\ UNCHANGED <<serverVars, token, tickets, shutAt>>
        BY <1>5, <2>2, <2>7, <3>2 DEF ReceiveEvent
      <4>2. NoRows \in Logs
        BY UnavailableIsPage DEF Page
      <4>3. page' \in Page /\ page'.cursor = n /\ page'.logs = NoRows /\ Over'
        BY <3>1, <4>1, <4>2 DEF Page, Over
      <4>4. PICK m \in Nat : m = head
        BY <1>0
      <4>5. SocketFits(socket', head) /\ ~socket'.open
        BY <4>1, <4>4, NoSocketFits DEF NoSocket
      <4>6. ASSUME shutAt # -1 PROVE SocketFits(socket', shutAt)
        <5>1. PICK k \in Nat : k = shutAt
          BY <4>6 DEF ViewerInv, ViewerTypes, WireTypes
        <5> QED BY <4>1, <5>1, NoSocketFits
      <4> QED BY <1>0, <2>3, <2>4, <4>1, <4>3, <4>5, <4>6, PageKeeps
    <3>3. CASE Parsed(n).type # "session.deleted"
      <4>1. GoOn(Applied(n))
        BY <1>5, <2>2, <2>7, <3>3 DEF ReceiveEvent
      <4>2. PICK p \in Page : p = Applied(n)
        BY <3>1
      <4>3. p.step \notin {"ended", "unavailable"} /\ p.logs = RowsAt(p.cursor) /\ p.cursor <= head
            /\ (shutAt # -1 => p.cursor <= shutAt) /\ socket.wire # << >>
        BY <1>1, <2>1, <2>3, <2>4, <3>1, <4>2 DEF Over
      <4> QED BY <4>1, <4>2, <4>3, PageReads
    <3> QED BY <3>2, <3>3
  <2> QED BY <2>5, <2>6, <2>7
<1>6. CASE ReceiveReady
  <2>1. Arrives("ready")
    BY <1>6 DEF ReceiveReady
  <2>2. CASE GoOn([page EXCEPT !.stage = "live"])
    <3>1. PICK p : p = [page EXCEPT !.stage = "live"]
      OBVIOUS
    <3>2. p \in Page /\ p.cursor = page.cursor /\ p.logs = page.logs /\ p.step = page.step
      BY <1>0, <3>1 DEF Page
    <3>3. p.step \notin {"ended", "unavailable"} /\ p.logs = RowsAt(p.cursor) /\ p.cursor <= head
          /\ (shutAt # -1 => p.cursor <= shutAt) /\ socket.wire # << >>
      BY <1>0, <1>1, <2>1, <3>2, ViewerFacts DEF Over
    <3> QED BY <2>2, <3>1, <3>2, <3>3, PageReads
  <2>3. CASE Finish(Resynced)
    BY <1>1, <1>2, <2>1, <2>3
  <2> QED BY <1>6, <2>2, <2>3 DEF ReceiveReady
<1>7. CASE ReceiveResync
  BY <1>1, <1>2, <1>7 DEF ReceiveResync
<1>8. CASE ReceiveExpired
  <2>1. Arrives("expired") /\ page' = Round(page) /\ token' = "none" /\ socket' = NoSocket
        /\ UNCHANGED <<serverVars, tickets, shutAt>>
    BY <1>8 DEF ReceiveExpired
  <2>2. page' \in Page /\ page'.cursor = page.cursor /\ page'.logs = page.logs
    BY <1>0, <2>1, RoundIsPage
  <2>3. ~Over /\ ~Over'
    BY <1>0, <1>1, <2>1 DEF Round, Over, Page
  <2> QED BY <1>0, <2>1, <2>2, <2>3, PageStays
<1>9. CASE ReceiveRevoked
  <2>1. Arrives("revoked") /\ page' = Unavailable /\ socket' = NoSocket
        /\ UNCHANGED <<serverVars, token, tickets, shutAt>>
    BY <1>9 DEF ReceiveRevoked
  <2>2. page' \in Page /\ page'.cursor = page.cursor /\ page'.logs = NoRows /\ Over'
    BY <2>1, UnavailableIsPage DEF Over
  <2> QED BY <1>0, <2>1, <2>2, PageStays
<1>10. CASE ReceiveClose
  <2>1. Arrives("close") /\ (Finish(Resynced) \/ Finish(Retried))
    BY <1>10 DEF ReceiveClose
  <2>2. ~Over
    BY <1>1, <2>1
  <2>3. CASE Finish(Retried)
    BY <2>2, <2>3, ResyncedIsPage, FinishKeeps DEF ViewerInv
  <2> QED BY <1>2, <2>1, <2>2, <2>3
<1> QED BY <1>3, <1>4, <1>5, <1>6, <1>7, <1>8, <1>9, <1>10

\* Faults, and what the server does on its own, keep it, too.
LEMMA FaultsKeep ==
    ASSUME ViewerInv,
           \/ SocketFails \/ TicketWearsOut \/ TokenWearsOut \/ ServerStops
           \/ \E t \in Ticket : OrphanExpires(t)
    PROVE  ViewerInv'
<1>0. head \in Nat /\ page \in Page /\ token \in {"none", "valid", "expired"}
      /\ IsTable(tickets, Ticket, 0..head) /\ SocketFits(socket, head)
  BY ViewerFacts
<1>1. ASSUME NEW keys PROVE IsTable(Without(tickets, keys), Ticket, 0..head)
  BY <1>0, WithoutIsTable
<1>2. CASE SocketFails
  <2>1. ~Over /\ page' = Round(Retried) /\ socket' = NoSocket
        /\ UNCHANGED <<serverVars, token, shutAt>>
    BY <1>2 DEF SocketFails, Over
  <2>2. page' \in Page /\ page'.cursor = page.cursor /\ page'.logs = page.logs /\ ~Over'
    BY <2>1, ResyncedIsPage, RoundIsPage DEF ViewerInv, Round, Over, Page
  <2>3. IsTable(tickets', Ticket, 0..head)
    BY <1>0, <1>1, <1>2 DEF SocketFails
  <2> QED BY <1>0, <2>1, <2>2, <2>3, PageStays
<1>3. ASSUME NEW t, TicketExpires(t), page' = page PROVE ViewerInv'
  <2>1. UNCHANGED <<serverVars, token, socket, shutAt>> /\ tickets' = Without(tickets, {t})
    BY <1>3 DEF TicketExpires
  <2>2. IsTable(tickets', Ticket, 0..head)
    BY <1>1, <2>1
  <2> QED BY <1>0, <1>3, <2>1, <2>2, PageStays
<1>4. CASE TicketWearsOut
  BY <1>3, <1>4 DEF TicketWearsOut
<1>5. CASE \E t \in Ticket : OrphanExpires(t)
  BY <1>3, <1>5 DEF OrphanExpires, viewerVars
<1>6. CASE TokenWearsOut
  <2>1. UNCHANGED <<serverVars, tickets, socket, shutAt, page>> /\ token' = "expired"
    BY <1>6 DEF TokenWearsOut, TokenExpires
  <2> QED BY <1>0, <2>1, PageStays
<1>7. CASE ServerStops
  <2>1. /\ UNCHANGED <<serverVars, token, tickets, shutAt, page>> /\ socket.open
        /\ socket' = [socket EXCEPT !.open = FALSE, !.wire = <<Close(1006)>>]
    BY <1>7 DEF ServerStops, Stop
  <2>2. PICK n \in Nat : n = head
    BY <1>0
  <2>3. SocketFits(socket', head)
    BY <1>0, <2>1, <2>2, LostSocketFits
  <2>4. shutAt = -1
    BY <2>1 DEF ViewerInv, SilenceInv
  <2>5. page'.cursor <= head
        /\ IF Over' THEN page'.logs = NoRows ELSE page'.logs = RowsAt(page'.cursor)
    BY <2>1, ViewerFacts DEF ViewerInv, MomentInv, Over
  <2> QED BY <1>0, <2>1, <2>3, <2>4, <2>5, PageKeeps
<1> QED BY <1>2, <1>4, <1>5, <1>6, <1>7

\* The heartbeat or the socket's timer cuts the viewer off.
LEMMA CutOffKeeps ==
    ASSUME ViewerInv, CutOff, page' = page
    PROVE  ViewerInv'
<1>1. /\ socket.open /\ ~Authorized /\ socket' = Revoke(socket, "expired")
      /\ shutAt' = IF Shown(Link) /\ ~Active(Link) THEN head ELSE shutAt
      /\ UNCHANGED <<serverVars, token, tickets>>
  BY DEF CutOff, Lapsed
<1>2. PICK n \in Nat : n = head
  BY ViewerFacts
<1>3. SocketFits(socket', n) /\ ~socket'.open
  BY <1>1, <1>2, ViewerFacts, RevokeFits
<1>4. shutAt = -1 /\ Link \in DOMAIN shares
  BY <1>1 DEF ViewerInv, SilenceInv
<1>5. UNCHANGED <<rows, history, minSeq, shares, over>> /\ head' = head
  BY <1>1 DEF serverVars, head
<1>6. WireTypes'
  BY <1>1, <1>2, <1>3, <1>5 DEF ViewerInv, ViewerTypes, WireTypes
<1>7. PageTypes'
  BY <1>5 DEF ViewerInv, ViewerTypes, PageTypes
<1>8. ViewerTypes'
  BY <1>1, <1>6, <1>7, ServerStays DEF ViewerInv
<1>9. MomentInv'
  BY <1>5 DEF ViewerInv, MomentInv, Over, RowsAt, head
<1>10. SilenceInv'
  <2>1. page.cursor <= n
    BY <1>2, ViewerFacts
  <2>2. Active(Link)' <=> Active(Link)
    BY <1>5 DEF Active
  <2>3. shutAt' # -1 => shutAt' = n /\ ~Active(Link)
    BY <1>1, <1>2, <1>4
  <2> QED BY <1>3, <1>4, <1>5, <2>1, <2>2, <2>3 DEF SilenceInv
<1> QED BY <1>8, <1>9, <1>10 DEF ViewerInv

\* The process stops when a revocation is committed: its sockets die with it.
LEMMA StopAfterRevokingKeeps ==
    ASSUME ViewerInv, NEW s \in Share, StopAfterRevoking(s), page' = page
    PROVE  ViewerInv'
<1>1. /\ UNCHANGED <<rows, history, minSeq, over, token>> /\ head' = head
      /\ s \in DOMAIN shares /\ shares' = [shares EXCEPT ![s].revoked = TRUE]
      /\ DOMAIN shares' = DOMAIN shares
      /\ tickets' = IF s = Link THEN NoRows ELSE tickets
      /\ shutAt' = IF s = Link /\ shutAt = -1 THEN head ELSE shutAt
      /\ socket' = IF socket.open
                   THEN [socket EXCEPT !.open = FALSE, !.wire = <<Close(1006)>>]
                   ELSE socket
  BY DEF StopAfterRevoking, head, Shown
<1>2. PICK n \in Nat : n = head
  BY ViewerFacts
<1>3. SocketFits(socket, n) /\ IsTable(shares, Share, ShareRow) /\ socket \in Socket
      /\ IsTable(tickets, Ticket, 0..head)
  BY <1>2, TypeFacts DEF ViewerInv
<1>4. SocketFits(socket', n) /\ ~socket'.open
  BY <1>1, <1>3, LostSocketFits DEF Socket
<1>5. ShareTypes'
  BY <1>1, <1>3, MarkedShares DEF ViewerInv, ViewerTypes, ShareTypes
<1>6. HistoryTypes' /\ PageTypes'
  BY <1>1 DEF ViewerInv, ViewerTypes, HistoryTypes, PageTypes
<1>7. WireTypes'
  <2>1. IsTable(tickets', Ticket, 0..head)
    BY <1>1, <1>3, NoRowsIsTable
  <2> QED BY <1>1, <1>2, <1>4, <2>1 DEF ViewerInv, ViewerTypes, WireTypes
<1>8. MomentInv'
  BY <1>1 DEF ViewerInv, MomentInv, Over, RowsAt, head
<1>9. SilenceInv'
  <2>1. ~Active(Link) => ~Active(Link)'
    BY <1>1, <1>3 DEF IsTable, ShareRow, Active
  <2>2. s = Link => ~Active(Link)'
    BY <1>1, <1>3 DEF IsTable, ShareRow, Active
  <2>3. page.cursor <= n
    BY <1>2, ViewerFacts
  <2>4. CASE shutAt = -1
    BY <1>1, <1>2, <1>4, <2>2, <2>3, <2>4 DEF SilenceInv, ViewerInv
  <2>5. CASE shutAt # -1
    <3>1. socket' = socket
      BY <1>1, <2>5 DEF ViewerInv, SilenceInv
    <3> QED BY <1>1, <2>1, <2>5, <3>1 DEF ViewerInv, SilenceInv
  <2> QED BY <2>4, <2>5
<1> QED BY <1>5, <1>6, <1>7, <1>8, <1>9 DEF ViewerInv, ViewerTypes

\* Where the shares, the Session, the wire and the page stay, all of it stays.
LEMMA OthersKeep ==
    ASSUME ViewerInv, UNCHANGED <<serverVars, wireVars, page>>
    PROVE  ViewerInv'
<1>1. UNCHANGED <<rows, history, minSeq, shares, over, token, tickets, socket, shutAt, page>>
      /\ head' = head
  BY DEF serverVars, wireVars, head
<1>2. ViewerTypes'
  BY <1>1 DEF ViewerInv, ViewerTypes, ShareTypes, HistoryTypes, WireTypes, PageTypes
<1>3. MomentInv'
  BY <1>1 DEF ViewerInv, MomentInv, Over, RowsAt, head
<1>4. SilenceInv'
  BY <1>1 DEF ViewerInv, SilenceInv, Active
<1> QED BY <1>2, <1>3, <1>4 DEF ViewerInv

\* The inductive invariant of the shares and their viewer.
LEMMA ViewerKept ==
    ASSUME ViewerInv, [Next]_vars
    PROVE  ViewerInv'
<1>1. CASE SessionStep
  BY <1>1, SessionKeeps
<1>2. CASE ShareStep
  BY <1>2, SharesKeep
<1>3. CASE ViewerStep
  <2>1. CASE PageStep
    BY <2>1, RoundsKeep, MessagesKeep DEF PageStep
  <2>2. CASE FaultStep
    BY <2>2, RoundsKeep, FaultsKeep DEF FaultStep
  <2>3. CASE CutOff /\ UNCHANGED <<analyticsVars, viewerVars>>
    BY <2>3, CutOffKeeps DEF viewerVars
  <2>4. CASE \E t \in Ticket : OrphanExpires(t)
    BY <2>4, FaultsKeep
  <2>5. CASE \E s \in Share : StopAfterRevoking(s) /\ UNCHANGED <<analyticsVars, viewerVars>>
    BY <2>5, StopAfterRevokingKeeps DEF viewerVars
  <2> QED BY <1>3, <2>1, <2>2, <2>3, <2>4, <2>5 DEF ViewerStep
<1>4. CASE OpenStep
  BY <1>4, OthersKeep DEF OpenStep, viewerVars
<1>5. CASE UNCHANGED sharingVars
  BY <1>5, OthersKeep DEF sharingVars, viewerVars
<1>6. UNCHANGED vars => UNCHANGED sharingVars
  BY DEF vars
<1> QED BY <1>1, <1>2, <1>3, <1>4, <1>5, <1>6 DEF Next

\* A page that is about to load, or none, of a Session without events.
LEMMA ViewerBegins ==
    ASSUME Init
    PROVE  ViewerInv
<1> USE DEF Init, PublicInit, PageInit, AnalyticsInit
<1>1. NoRows \in Logs
  <2>1. NoRows \in [{} -> Nat]
    BY DEF NoRows
  <2> QED BY <2>1 DEF Logs
<1>2. history = << >> /\ head = 0 /\ minSeq = 0
  BY DEF head
<1>3. ShareTypes
  BY NoRowsIsTable DEF ShareTypes
<1>4. HistoryTypes
  BY <1>1, <1>2, EmptySeq DEF HistoryTypes
<1>5. SocketFits(socket, 0)
  BY NoSocketFits
<1>6. WireTypes
  BY <1>2, <1>5, NoRowsIsTable DEF WireTypes
<1>7. page \in Page /\ page.cursor = 0 /\ page.logs = NoRows /\ ~Over
  BY <1>1 DEF Page, Over
<1>8. RowsAt(0) = NoRows
  <2>1. \A l : {i \in 1..0 : history[i].log = l} = {}
    OBVIOUS
  <2>2. {l \in Log : {i \in 1..0 : history[i].log = l} # {}
                       /\ history[Max({i \in 1..0 : history[i].log = l})].type = "changed"} = {}
    BY <2>1
  <2> QED BY <2>2 DEF RowsAt, NoRows
<1>9. MomentInv
  BY <1>2, <1>7, <1>8 DEF MomentInv
<1>10. SilenceInv
  BY DEF SilenceInv, NoSocket
<1> QED BY <1>2, <1>3, <1>4, <1>6, <1>7, <1>9, <1>10 DEF ViewerInv, ViewerTypes, PageTypes

\* All of it holds in every reachable state.
LEMMA ViewerInvariant == Spec => []ViewerInv
<1>1. Init => ViewerInv
  BY ViewerBegins
<1>2. ViewerInv /\ [Next]_vars => ViewerInv'
  BY ViewerKept
<1> QED BY <1>1, <1>2, PTL DEF Spec

\* The server, the wire and the page of a viewer have the types that the code
\* gives them; no event on the wire and no cursor is ahead of the Session.
THEOREM ViewerIsTyped == Spec => []ViewerTypes
<1>1. ViewerInv => ViewerTypes
  BY DEF ViewerInv
<1> QED BY <1>1, ViewerInvariant, PTL

\* A page shows the records of the Session as its cursor's event left them,
\* whichever snapshots, backlogs and live events it put together.
THEOREM PagesShowOneMoment == Spec => []ViewersShowOneMoment
<1>1. ViewerInv => ViewersShowOneMoment
  BY DEF ViewerInv, MomentInv, ViewersShowOneMoment
<1> QED BY <1>1, ViewerInvariant, PTL

\* No event that was written after a share was revoked, or after its sockets were
\* cut off at its expiry, reaches a viewer of it.
THEOREM DeadSharesStaySilent == Spec => []DeadSharesAreSilent
<1>1. ViewerInv => DeadSharesAreSilent
  BY DEF ViewerInv, SilenceInv, SocketFits, EventsUpTo, DeadSharesAreSilent
<1> QED BY <1>1, ViewerInvariant, PTL

-----------------------------------------------------------------------------
(* The page and the history it follows *)

\* Messages of which none says that the share was revoked.
NoneRevokes(messages) == \A i \in DOMAIN messages : messages[i].type # "revoked"

\* A socket on whose way to the page there is no such message.
SaysNothing(sock) == sock \in Socket /\ NoneRevokes(sock.wire)

\* The link had a share, and it can be used no more.
LinkIsPast == Link \in DOMAIN shares /\ ~Active(Link)

\* Who asks has a share; who is told, by a page, a message or an event, that there
\* is nothing to see any more is told the truth.
PastInv ==
    /\ page.step \notin {"info", "closed"} => Link \in DOMAIN shares
    /\ Over => LinkIsPast
    /\ ~NoneRevokes(socket.wire) => Link \in DOMAIN shares /\ shares[Link].revoked
    /\ \A i \in DOMAIN history : history[i].type = "session.deleted" => over

\* Other messages after others.
LEMMA ConcatSaysNothing ==
    ASSUME NEW some \in Seq(Message), NEW more \in Seq(Message),
           NoneRevokes(some), NoneRevokes(more)
    PROVE  some \o more \in Seq(Message) /\ NoneRevokes(some \o more)
<1>1. some \o more \in Seq(Message)
  BY ConcatProperties
<1>2. ASSUME NEW i \in DOMAIN (some \o more)
      PROVE  (some \o more)[i].type # "revoked"
  <2>1. CASE i <= Len(some)
    BY <2>1, ConcatProperties DEF NoneRevokes
  <2>2. CASE i > Len(some)
    <3>1. i - Len(some) \in DOMAIN more /\ (some \o more)[i] = more[i - Len(some)]
      BY <2>2, ConcatProperties
    <3> QED BY <3>1 DEF NoneRevokes
  <2> QED BY <2>1, <2>2
<1> QED BY <1>1, <1>2 DEF NoneRevokes

\* One message more that does not say it.
LEMMA AppendSaysNothing ==
    ASSUME NEW messages \in Seq(Message), NoneRevokes(messages),
           NEW m \in Message, m.type # "revoked"
    PROVE  Append(messages, m) \in Seq(Message) /\ NoneRevokes(Append(messages, m))
BY AppendProperties DEF NoneRevokes

\* Writing other messages does not say it.
LEMMA WriteSaysNothing ==
    ASSUME NEW sock, SaysNothing(sock), NEW messages \in Seq(Message), NoneRevokes(messages)
    PROVE  SaysNothing(Write(sock, messages))
<1>1. sock.wire \in Seq(Message) /\ sock.open \in BOOLEAN /\ MaxBuffered \in Nat
  BY PublicAssumption DEF SaysNothing, Socket
<1> DEFINE room == IF Len(sock.wire) > MaxBuffered THEN 0
                   ELSE MaxBuffered + 1 - Len(sock.wire)
<1>2. room \in Nat
  BY <1>1
<1> HIDE DEF room
<1>3. CASE ~sock.open
  BY <1>3 DEF Write
<1>4. CASE sock.open /\ Len(messages) <= room
  <2>1. Write(sock, messages) = [sock EXCEPT !.wire = @ \o messages]
    BY <1>4 DEF Write, room
  <2>2. sock.wire \o messages \in Seq(Message) /\ NoneRevokes(sock.wire \o messages)
    BY <1>1, ConcatSaysNothing DEF SaysNothing
  <2> QED BY <2>1, <2>2 DEF SaysNothing, Socket
<1>5. CASE sock.open /\ ~(Len(messages) <= room)
  <2>1. PICK part \in Seq(Message) : part = SubSeq(messages, 1, room) /\ NoneRevokes(part)
    <3>1. SubSeq(messages, 1, room) \in Seq(Message)
          /\ NoneRevokes(SubSeq(messages, 1, room))
      BY <1>2, <1>5, SubSeqProperties DEF NoneRevokes
    <3> QED BY <3>1
  <2>2. PICK last \in Message : last = Close(4009) /\ last.type # "revoked"
    <3>1. Close(4009) \in Message /\ Close(4009).type # "revoked"
      BY DEF Close, Message
    <3> QED BY <3>1
  <2>3. PICK cut \in Seq(Message) : cut = Append(part, last) /\ NoneRevokes(cut)
    <3>1. Append(part, last) \in Seq(Message) /\ NoneRevokes(Append(part, last))
      BY <2>1, <2>2, AppendProperties DEF NoneRevokes
    <3> QED BY <3>1
  <2>4. sock.wire \o cut \in Seq(Message) /\ NoneRevokes(sock.wire \o cut)
    BY <1>1, <2>3, ConcatSaysNothing DEF SaysNothing
  <2>5. Write(sock, messages) = [sock EXCEPT !.open = FALSE, !.wire = @ \o cut]
    BY <1>5, <2>1, <2>2, <2>3 DEF Write, room
  <2> QED BY <2>4, <2>5 DEF SaysNothing, Socket
<1> QED BY <1>3, <1>4, <1>5

\* Closing a socket does not say it.
LEMMA ShutSaysNothing ==
    ASSUME NEW sock, SaysNothing(sock), NEW code \in Nat
    PROVE  SaysNothing(Shut(sock, code))
<1>1. CASE ~sock.open
  BY <1>1 DEF Shut
<1>2. CASE sock.open
  <2>1. Close(code) \in Message /\ Close(code).type # "revoked"
    BY DEF Close, Message
  <2>2. Append(sock.wire, Close(code)) \in Seq(Message)
        /\ NoneRevokes(Append(sock.wire, Close(code)))
    BY <2>1, AppendSaysNothing DEF SaysNothing, Socket
  <2>3. Shut(sock, code) = [sock EXCEPT !.open = FALSE, !.wire = Append(@, Close(code))]
    BY <1>2 DEF Shut
  <2> QED BY <2>2, <2>3 DEF SaysNothing, Socket
<1> QED BY <1>1, <1>2

\* A single other message does not say it.
LEMMA WriteOneSaysNothing ==
    ASSUME NEW sock, SaysNothing(sock), NEW m \in Message, m.type # "revoked"
    PROVE  SaysNothing(Write(sock, <<m>>))
<1>1. <<m>> \in Seq(Message) /\ NoneRevokes(<<m>>)
  BY DEF NoneRevokes
<1> QED BY <1>1, WriteSaysNothing

\* Delivering an event does not say it.
LEMMA DeliverSaysNothing ==
    ASSUME NEW sock, SaysNothing(sock), NEW n \in Nat
    PROVE  SaysNothing(Deliver(sock, n))
<1>1. CASE ~sock.open \/ n <= sock.cursor
  BY <1>1 DEF Deliver
<1>2. CASE ~(~sock.open \/ n <= sock.cursor) /\ n # sock.cursor + 1
  <2>1. Resync \in Message /\ Resync.type # "revoked"
    BY DEF Resync, Message
  <2>2. SaysNothing(Shut(Write(sock, <<Resync>>), 4009))
    BY <2>1, WriteOneSaysNothing, ShutSaysNothing
  <2> QED BY <1>2, <2>2 DEF Deliver
<1>3. CASE ~(~sock.open \/ n <= sock.cursor) /\ n = sock.cursor + 1
  <2>1. EventMessage(n) \in Message /\ EventMessage(n).type # "revoked"
    BY DEF EventMessage, Message
  <2>2. SaysNothing(Write(sock, <<EventMessage(n)>>))
    BY <2>1, WriteOneSaysNothing
  <2>3. Deliver(sock, n) = [Write(sock, <<EventMessage(n)>>) EXCEPT !.cursor = n]
    BY <1>3 DEF Deliver
  <2> QED BY <2>2, <2>3 DEF SaysNothing, Socket
<1> QED BY <1>1, <1>2, <1>3

\* Cutting a viewer off because its access ended does not say it.
LEMMA ExpiredSaysNothing ==
    ASSUME NEW sock, SaysNothing(sock)
    PROVE  SaysNothing(Revoke(sock, "expired"))
<1>1. Revoked("expired") \in Message /\ Revoked("expired").type # "revoked"
  BY DEF Revoked, Message
<1> QED BY <1>1, WriteOneSaysNothing, ShutSaysNothing DEF Revoke

\* A page without a socket, one whose socket died, and one that read a message
\* hear nothing new.
LEMMA NothingNewIsSaid ==
    ASSUME NEW sock \in Socket
    PROVE  /\ SaysNothing(NoSocket)
           /\ SaysNothing([sock EXCEPT !.open = FALSE, !.wire = <<Close(1006)>>])
           /\ SaysNothing(sock) /\ sock.wire # << >>
                 => SaysNothing([sock EXCEPT !.wire = Tail(@)])
<1>1. SaysNothing(NoSocket)
  BY EmptySeq DEF NoSocket, SaysNothing, Socket, NoneRevokes
<1>2. PICK wire \in Seq(Message) : wire = <<Close(1006)>> /\ NoneRevokes(wire)
  <2>1. <<Close(1006)>> \in Seq(Message) /\ NoneRevokes(<<Close(1006)>>)
    BY DEF Close, Message, NoneRevokes
  <2> QED BY <2>1
<1>3. SaysNothing([sock EXCEPT !.open = FALSE, !.wire = wire])
  <2>1. [sock EXCEPT !.open = FALSE, !.wire = wire] \in Socket
        /\ [sock EXCEPT !.open = FALSE, !.wire = wire].wire = wire
    BY DEF Socket
  <2> QED BY <1>2, <2>1 DEF SaysNothing
<1>4. ASSUME SaysNothing(sock), sock.wire # << >>
      PROVE  SaysNothing([sock EXCEPT !.wire = Tail(@)])
  <2>1. /\ Tail(sock.wire) \in Seq(Message)
        /\ Len(Tail(sock.wire)) = Len(sock.wire) - 1
        /\ \A i \in 1..Len(Tail(sock.wire)) : Tail(sock.wire)[i] = sock.wire[i + 1]
    BY <1>4 DEF Socket
  <2>2. ASSUME NEW i \in DOMAIN Tail(sock.wire)
        PROVE  Tail(sock.wire)[i].type # "revoked"
    <3>1. sock.wire \in Seq(Message)
      BY DEF Socket
    <3>2. i \in 1..Len(Tail(sock.wire)) /\ i + 1 \in DOMAIN sock.wire
      BY <2>1, <3>1
    <3> QED BY <1>4, <2>1, <3>2 DEF SaysNothing, NoneRevokes
  <2> QED BY <1>4, <2>1, <2>2 DEF SaysNothing, Socket, NoneRevokes
<1> QED BY <1>1, <1>2, <1>3, <1>4

\* Nor does what a socket hears when it is accepted.
LEMMA AcceptSaysNothing ==
    ASSUME ViewerTypes, NEW t, Accept(t)
    PROVE  SaysNothing(socket')
<1>1. t \in DOMAIN tickets /\ IsTable(tickets, Ticket, 0..head)
  BY TypeFacts DEF Accept, Admissible
<1>2. PICK after \in 0..head : after = tickets[t]
  BY <1>1 DEF IsTable
<1>3. PICK n \in Nat : n = head
  BY TypeFacts
<1> DEFINE fresh == [open |-> TRUE, cursor |-> n, wire |-> <<Hello(n)>>]
<1>4. SaysNothing(fresh)
  BY DEF SaysNothing, Socket, Message, Hello, NoneRevokes
<1> HIDE DEF fresh
<1>5. CASE after < minSeq
  <2>1. Resync \in Message /\ Resync.type # "revoked"
    BY DEF Resync, Message
  <2>2. SaysNothing(Shut(Write(fresh, <<Resync>>), 4009))
    BY <1>4, <2>1, WriteOneSaysNothing, ShutSaysNothing
  <2> QED BY <1>2, <1>3, <1>5, <2>2 DEF Accept, fresh
<1>6. CASE ~(after < minSeq)
  <2>1. PICK backlog \in Seq(Message) : backlog = BacklogAfter(after)
    BY BacklogFits
  <2>2. NoneRevokes(backlog)
    BY <2>1 DEF BacklogAfter, EventMessage, NoneRevokes
  <2>3. PICK last \in Message : last = Ready(n) /\ last.type # "revoked"
    <3>1. Ready(n) \in Message /\ Ready(n).type # "revoked"
      BY DEF Ready, Message
    <3> QED BY <3>1
  <2>4. Append(backlog, last) \in Seq(Message) /\ NoneRevokes(Append(backlog, last))
    BY <2>2, <2>3, AppendSaysNothing
  <2>5. SaysNothing(Write(fresh, Append(backlog, last)))
    BY <1>4, <2>4, WriteSaysNothing
  <2> QED BY <1>2, <1>3, <1>6, <2>1, <2>3, <2>5 DEF Accept, fresh
<1> QED BY <1>5, <1>6

\* What a step of the page does: it goes ahead, and believes that the share is
\* past only when it is.
PageMoves ==
    /\ UNCHANGED serverVars /\ shutAt' = shutAt
    /\ ~Over /\ Link \in DOMAIN shares
    /\ page'.cursor >= page.cursor
    /\ Over' => LinkIsPast
    /\ NoneRevokes(socket.wire) => NoneRevokes(socket'.wire)

\* A step that leaves the page at its cursor and takes its socket away, or leaves
\* both alone.
LEMMA StaysAtCursor ==
    ASSUME ViewerInv, PastInv, UNCHANGED serverVars, shutAt' = shutAt,
           page.step \notin {"ended", "unavailable", "closed"},
           page.step = "info" => Link \in DOMAIN shares,
           page'.cursor = page.cursor, page'.step \notin {"ended", "unavailable"},
           socket' = socket \/ socket' = NoSocket
    PROVE  PageMoves
<1>1. page.cursor \in Nat
  BY ViewerFacts
<1>2. NoneRevokes(NoSocket.wire)
  BY DEF NoneRevokes, NoSocket
<1> QED BY <1>1, <1>2 DEF PageMoves, PastInv, Over

\* The rounds of run.
LEMMA RoundsMove ==
    ASSUME ViewerInv, PastInv,
           CheckServer \/ ExchangeLink \/ KeepToken \/ LoadSnapshot \/ GetTicket \/ Retry
              \/ ServerUnsupported \/ ExchangeIsLost \/ RequestIsLost
    PROVE  PageMoves
<1>0. page \in Page /\ page.cursor \in Nat /\ head \in Nat /\ page.cursor <= head
  BY ViewerFacts
<1>1. CASE CheckServer
  <2>1. page'.cursor = page.cursor /\ page'.step = "access" /\ page.step = "info"
    BY <1>0, <1>1 DEF CheckServer, Page
  <2> QED BY <1>1, <2>1, StaysAtCursor DEF CheckServer, wireVars
<1>2. CASE ExchangeLink
  <2>1. UNCHANGED <<serverVars, socket, shutAt>> /\ ~Over /\ Link \in DOMAIN shares
    BY <1>2 DEF ExchangeLink, Over, PastInv
  <2>2. CASE Active(Link)
    <3>1. page'.cursor = page.cursor /\ ~Over'
      BY <1>0, <1>2, <2>2 DEF ExchangeLink, Page, Over
    <3> QED BY <1>0, <2>1, <3>1 DEF PageMoves
  <2>3. CASE ~Active(Link)
    <3>1. page'.cursor = page.cursor
      BY <1>0, <1>2, <2>3 DEF ExchangeLink, Unavailable, Page
    <3> QED BY <1>0, <2>1, <2>3, <3>1 DEF PageMoves, LinkIsPast
  <2> QED BY <2>2, <2>3
<1>3. CASE KeepToken
  <2>1. page'.cursor = page.cursor /\ page'.step = "data" /\ page.step = "access"
    BY <1>0, <1>3 DEF KeepToken, Page
  <2> QED BY <1>3, <2>1, StaysAtCursor DEF KeepToken, wireVars
<1>4. CASE LoadSnapshot
  <2>1. UNCHANGED serverVars /\ page.step = "data"
        /\ UNCHANGED <<socket, shutAt>>
    BY <1>4 DEF LoadSnapshot, DropToken, wireVars
  <2>2. page'.step \in {"ticket", "access", "tooLarge"}
        /\ page'.cursor \in {page.cursor, head}
    BY <1>0, <1>4 DEF LoadSnapshot, Snapshot, Stopped, DropToken, Page
  <2> QED BY <1>0, <2>1, <2>2 DEF PageMoves, PastInv, Over
<1>5. CASE GetTicket
  <2>1. UNCHANGED serverVars /\ page.step = "ticket" /\ UNCHANGED <<socket, shutAt>>
    BY <1>5 DEF GetTicket, DropToken
  <2>2. page'.step \in {"access", "wait", "connect"} /\ page'.cursor = page.cursor
    BY <1>0, <1>5 DEF GetTicket, DropToken, Page
  <2> QED BY <2>1, <2>2, StaysAtCursor
<1>6. CASE Retry
  <2>1. page'.cursor = page.cursor /\ page'.step \in {"info", "access"} /\ page.step = "wait"
    BY <1>0, <1>6 DEF Retry, Page
  <2> QED BY <1>6, <2>1, StaysAtCursor DEF Retry, wireVars
<1>7. CASE ExchangeIsLost
  <2>1. page'.cursor = page.cursor /\ page'.step = "wait" /\ page.step = "access"
    BY <1>0, <1>7 DEF ExchangeIsLost, Page
  <2> QED BY <1>7, <2>1, StaysAtCursor DEF ExchangeIsLost, wireVars
<1>8. CASE RequestIsLost
  <2>1. /\ page'.cursor = page.cursor /\ page'.step = "wait"
        /\ page.step \in {"info", "access", "data", "ticket"} /\ Link \in DOMAIN shares
    BY <1>0, <1>8 DEF RequestIsLost, Page
  <2> QED BY <1>8, <2>1, StaysAtCursor DEF RequestIsLost
<1>9. CASE ServerUnsupported
  <2>1. /\ page'.cursor = page.cursor /\ page'.step = "unsupported"
        /\ page.step = "info" /\ Link \in DOMAIN shares
    BY <1>0, <1>9 DEF ServerUnsupported, Stopped, Page
  <2> QED BY <1>9, <2>1, StaysAtCursor DEF ServerUnsupported, wireVars
<1> QED BY <1>1, <1>2, <1>3, <1>4, <1>5, <1>6, <1>7, <1>8, <1>9

\* The page goes on at the cursor it has or at a later one.
LEMMA ReadingMoves ==
    ASSUME ViewerInv, PastInv, page.step = "socket", socket.wire # << >>,
           NEW p, GoOn(p), p.cursor >= page.cursor, p.step \notin {"ended", "unavailable"}
    PROVE  PageMoves
<1>1. socket \in Socket
  BY TypeFacts DEF ViewerInv
<1>2. NoneRevokes(socket.wire) => NoneRevokes(socket'.wire)
  <2>1. SaysNothing(socket) => SaysNothing([socket EXCEPT !.wire = Tail(@)])
    BY <1>1, NothingNewIsSaid
  <2> QED BY <1>1, <2>1 DEF GoOn, SaysNothing
<1> QED BY <1>2 DEF GoOn, PageMoves, PastInv, Over

\* What the messages of the socket say.
LEMMA MessagesMove ==
    ASSUME ViewerInv, PastInv,
           OpenSocket \/ ReceiveHello \/ ReceiveEvent \/ ReceiveReady \/ ReceiveResync
              \/ ReceiveExpired \/ ReceiveRevoked \/ ReceiveClose
    PROVE  PageMoves
<1>0. page \in Page /\ page.cursor \in Nat /\ socket.wire \in Seq(Message)
      /\ head \in Nat /\ SocketFits(socket, head)
  BY ViewerFacts, TypeFacts DEF ViewerInv
<1>1. ASSUME NEW type, Arrives(type)
      PROVE  /\ page.step = "socket" /\ socket.wire # << >> /\ 1 \in DOMAIN socket.wire
             /\ socket.wire[1] \in Message /\ socket.wire[1].type = type
  <2>1. page.step = "socket" /\ socket.wire # << >> /\ socket.wire[1].type = type
    BY <1>1 DEF Arrives
  <2>2. 1 \in DOMAIN socket.wire
    BY <1>0, <2>1
  <2> QED BY <1>0, <2>1, <2>2
<1>2. ASSUME NEW p \in Page, p.cursor = page.cursor, page.step = "socket", Finish(p)
      PROVE  PageMoves
  <2>1. page'.cursor = page.cursor /\ page'.step = "wait"
    BY <1>2 DEF Finish, Round, Page
  <2> QED BY <1>2, <2>1, StaysAtCursor DEF Finish
<1>3. ASSUME Finish(Resynced) \/ Finish(Retried), page.step = "socket" PROVE PageMoves
  BY <1>2, <1>3, ResyncedIsPage DEF ViewerInv
<1>4. CASE OpenSocket
  <2>1. page.step = "connect" /\ UNCHANGED <<serverVars, shutAt>>
    BY <1>4 DEF OpenSocket
  <2>2. page'.cursor = page.cursor /\ page'.step \in {"socket", "wait"}
    BY <1>0, <1>4, ResyncedIsPage DEF OpenSocket, Round, Page, ViewerInv
  <2>3. CASE Accept(page.ticket)
    <3>1. NoneRevokes(socket'.wire)
      BY <2>3, AcceptSaysNothing DEF ViewerInv, SaysNothing
    <3> QED BY <1>0, <2>1, <2>2, <3>1 DEF PageMoves, PastInv, Over
  <2>4. CASE socket' = socket
    BY <2>1, <2>2, <2>4, StaysAtCursor
  <2> QED BY <1>4, <2>3, <2>4 DEF OpenSocket
<1>5. CASE ReceiveHello
  <2>1. Arrives("hello")
    BY <1>5 DEF ReceiveHello
  <2>2. CASE GoOn([page EXCEPT !.stage = "backlog", !.helloHead = socket.wire[1].seq])
    <3>1. PICK p : p = [page EXCEPT !.stage = "backlog", !.helloHead = socket.wire[1].seq]
      OBVIOUS
    <3>2. p.cursor >= page.cursor /\ p.step = page.step
      BY <1>0, <3>1 DEF Page
    <3> QED BY <1>1, <2>1, <2>2, <3>1, <3>2, ReadingMoves
  <2> QED BY <1>1, <1>3, <1>5, <2>1, <2>2 DEF ReceiveHello
<1>6. CASE ReceiveEvent
  <2>1. Arrives("event")
    BY <1>6 DEF ReceiveEvent
  <2>2. PICK n \in Nat : n = socket.wire[1].seq
    BY <1>1, <2>1 DEF Message
  <2>3. n <= head
    <3>1. PICK m \in Nat : m = head
      BY <1>0
    <3>2. socket.wire[1].type = "event" => socket.wire[1].seq <= m
      BY <1>0, <1>1, <2>1, <3>1, ReadFits
    <3> QED BY <1>1, <2>1, <2>2, <3>1, <3>2
  <2>4. CASE page.stage = "hello" \/ (~(n <= page.cursor) /\ n # page.cursor + 1)
    <3>1. Finish(Resynced)
      BY <1>6, <2>2, <2>4 DEF ReceiveEvent
    <3> QED BY <1>1, <1>3, <2>1, <3>1
  <2>5. CASE page.stage # "hello" /\ n <= page.cursor
    <3>1. GoOn(page)
      BY <1>6, <2>2, <2>5 DEF ReceiveEvent
    <3> QED BY <1>0, <1>1, <2>1, <3>1, ReadingMoves
  <2>6. CASE page.stage # "hello" /\ ~(n <= page.cursor) /\ n = page.cursor + 1
    <3>1. ~Over
      BY <1>1, <2>1 DEF Over
    <3>2. Applied(n) \in Page /\ Applied(n).cursor = n /\ Applied(n).step = page.step
      BY <2>3, <2>6, <3>1, AppliedIsPage
    <3>3. CASE Parsed(n).type = "session.deleted"
      <4>1. /\ page' = [Applied(n) EXCEPT !.step = "ended", !.logs = NoRows]
            /\ socket' = NoSocket /\ UNCHANGED <<serverVars, shutAt>>
        BY <1>6, <2>2, <2>6, <3>3 DEF ReceiveEvent
      <4>2. page'.cursor = n
        BY <3>2, <4>1 DEF Page
      <4>3. over
        <5>1. n \in DOMAIN history
          BY <1>0, <2>3, <2>6, ViewerFacts DEF head
        <5> QED BY <3>3, <5>1 DEF Parsed, PastInv
      <4>4. LinkIsPast
        BY <1>1, <2>1, <4>3 DEF LinkIsPast, Active, PastInv
      <4>5. NoneRevokes(socket'.wire)
        BY <4>1 DEF NoneRevokes, NoSocket
      <4> QED BY <1>0, <2>6, <3>1, <4>1, <4>2, <4>4, <4>5 DEF PageMoves, LinkIsPast
    <3>4. CASE Parsed(n).type # "session.deleted"
      <4>1. GoOn(Applied(n))
        BY <1>6, <2>2, <2>6, <3>4 DEF ReceiveEvent
      <4>2. PICK p \in Page : p = Applied(n)
        BY <3>2
      <4>3. p.cursor >= page.cursor /\ p.step \notin {"ended", "unavailable"}
        BY <1>0, <1>1, <2>1, <2>6, <3>2, <4>2
      <4> QED BY <1>1, <2>1, <4>1, <4>2, <4>3, ReadingMoves
    <3> QED BY <3>3, <3>4
  <2> QED BY <2>4, <2>5, <2>6
<1>7. CASE ReceiveReady
  <2>1. Arrives("ready")
    BY <1>7 DEF ReceiveReady
  <2>2. CASE GoOn([page EXCEPT !.stage = "live"])
    <3>1. PICK p : p = [page EXCEPT !.stage = "live"]
      OBVIOUS
    <3>2. p.cursor >= page.cursor /\ p.step = page.step
      BY <1>0, <3>1 DEF Page
    <3> QED BY <1>1, <2>1, <2>2, <3>1, <3>2, ReadingMoves
  <2> QED BY <1>1, <1>3, <1>7, <2>1, <2>2 DEF ReceiveReady
<1>8. CASE ReceiveResync
  BY <1>1, <1>3, <1>8 DEF ReceiveResync
<1>9. CASE ReceiveExpired
  <2>1. Arrives("expired") /\ page' = Round(page) /\ socket' = NoSocket
        /\ UNCHANGED <<serverVars, shutAt>>
    BY <1>9 DEF ReceiveExpired
  <2>2. page'.cursor = page.cursor /\ page'.step = "wait" /\ page.step = "socket"
    BY <1>0, <1>1, <2>1 DEF Round, Page
  <2> QED BY <2>1, <2>2, StaysAtCursor
<1>10. CASE ReceiveRevoked
  <2>1. Arrives("revoked") /\ page' = Unavailable /\ socket' = NoSocket
        /\ UNCHANGED <<serverVars, shutAt>>
    BY <1>10 DEF ReceiveRevoked
  <2>2. LinkIsPast
    BY <1>1, <2>1 DEF PastInv, NoneRevokes, LinkIsPast, Active
  <2>3. page'.cursor = page.cursor /\ NoneRevokes(socket'.wire)
    BY <1>0, <2>1 DEF Unavailable, Page, NoneRevokes, NoSocket
  <2> QED BY <1>0, <1>1, <2>1, <2>2, <2>3 DEF PageMoves, LinkIsPast, Over
<1>11. CASE ReceiveClose
  <2>1. Arrives("close") /\ (Finish(Resynced) \/ Finish(Retried))
    BY <1>11 DEF ReceiveClose
  <2> QED BY <1>1, <1>3, <2>1
<1> QED BY <1>4, <1>5, <1>6, <1>7, <1>8, <1>9, <1>10, <1>11

\* A step that leaves the page and the server's state alone.
PageRests ==
    /\ UNCHANGED <<serverVars, page>>
    /\ NoneRevokes(socket.wire) => NoneRevokes(socket'.wire)

\* Faults, and what the server does on its own.
LEMMA FaultsMove ==
    ASSUME ViewerInv, PastInv,
           \/ SocketFails \/ TicketWearsOut \/ TokenWearsOut \/ ServerStops
           \/ \E t \in Ticket : OrphanExpires(t)
    PROVE  PageMoves \/ (PageRests /\ shutAt' = shutAt)
<1>0. page \in Page /\ page.cursor \in Nat /\ socket \in Socket
  BY ViewerFacts, TypeFacts DEF ViewerInv
<1>1. CASE SocketFails
  <2>1. page'.cursor = page.cursor /\ page'.step = "wait" /\ page.step \in {"connect", "socket"}
    BY <1>0, <1>1, ResyncedIsPage DEF SocketFails, Round, Page, ViewerInv
  <2> QED BY <1>1, <2>1, StaysAtCursor DEF SocketFails
<1>2. CASE TicketWearsOut \/ TokenWearsOut \/ \E t \in Ticket : OrphanExpires(t)
  BY <1>2 DEF TicketWearsOut, TokenWearsOut, OrphanExpires, TicketExpires, TokenExpires,
              PageRests, viewerVars
<1>3. CASE ServerStops
  <2>1. /\ UNCHANGED <<serverVars, shutAt, page>>
        /\ socket' = [socket EXCEPT !.open = FALSE, !.wire = <<Close(1006)>>]
    BY <1>3 DEF ServerStops, Stop
  <2>2. SaysNothing(socket')
    BY <1>0, <2>1, NothingNewIsSaid
  <2> QED BY <2>1, <2>2 DEF PageRests, SaysNothing
<1> QED BY <1>1, <1>2, <1>3

\* A step of the page or of its wire that is told the truth tells the truth.
LEMMA MovesKeepPast ==
    ASSUME PastInv, PageMoves \/ PageRests
    PROVE  PastInv'
BY DEF PastInv, PageMoves, PageRests, LinkIsPast, Active, Over, serverVars

\* What the page and its wire know stays true while the shares only end.
LEMMA PastStays ==
    ASSUME PastInv, page' = page,
           Link \in DOMAIN shares => Link \in DOMAIN shares',
           Link \in DOMAIN shares /\ shares[Link].revoked => shares'[Link].revoked,
           LinkIsPast => LinkIsPast',
           NoneRevokes(socket.wire) =>
              NoneRevokes(socket'.wire) \/ (Link \in DOMAIN shares' /\ shares'[Link].revoked),
           over => over',
           \A i \in DOMAIN history' :
              history'[i].type = "session.deleted" =>
                 over' \/ (i \in DOMAIN history /\ history[i].type = "session.deleted")
    PROVE  PastInv'
BY DEF PastInv, Over

\* Only the event that ends a Session is one.
LEMMA EndsAfterAppend ==
    ASSUME ViewerInv, NEW entry \in EventRow, history' = Append(history, entry),
           entry.type = "session.deleted" => over'
    PROVE  \A i \in DOMAIN history' :
              history'[i].type = "session.deleted" =>
                 over' \/ (i \in DOMAIN history /\ history[i].type = "session.deleted")
<1>1. history \in Seq(EventRow)
  BY TypeFacts DEF ViewerInv
<1> QED BY <1>1, AppendProperties

\* The Session's changes tell nobody that its share is past.
LEMMA SessionKeepsPast ==
    ASSUME ViewerInv, PastInv, SessionStep
    PROVE  PastInv'
<1>1. head \in Nat /\ socket \in Socket
  BY TypeFacts DEF ViewerInv
<1>2. page' = page /\ UNCHANGED <<shares, over>>
  BY DEF SessionStep, ChangeLog, DeleteLog, ChangeSession, PruneEvent, viewerVars
<1>3. LinkIsPast' <=> LinkIsPast
  BY <1>2 DEF LinkIsPast, Active
<1>4. NoneRevokes(socket.wire) => NoneRevokes(Deliver(socket, head + 1).wire)
  <2>1. PICK n \in Nat : n = head + 1
    BY <1>1
  <2> QED BY <1>1, <2>1, DeliverSaysNothing DEF SaysNothing
<1>5. ASSUME NEW entry \in EventRow, entry.type # "session.deleted", AppendAndPublish(entry)
      PROVE  PastInv'
  <2>1. \A i \in DOMAIN history' :
              history'[i].type = "session.deleted" =>
                 over' \/ (i \in DOMAIN history /\ history[i].type = "session.deleted")
    BY <1>5, EndsAfterAppend DEF AppendAndPublish
  <2> QED BY <1>2, <1>3, <1>4, <1>5, <2>1, PastStays DEF AppendAndPublish
<1>6. ASSUME NEW l \in Log, ChangeLog(l) \/ DeleteLog(l) PROVE PastInv'
  <2>1. PICK entry \in EventRow :
              entry \in {Projected("changed", l), Projected("deleted", l)}
                 /\ AppendAndPublish(entry)
    BY <1>6, ProjectedTypes DEF ChangeLog, DeleteLog
  <2> QED BY <1>5, <2>1 DEF Projected
<1>7. CASE ChangeSession
  <2>1. PICK entry \in EventRow :
              entry = Projected("session", "none") /\ AppendAndPublish(entry)
    BY <1>7, ProjectedTypes DEF ChangeSession
  <2> QED BY <1>5, <2>1 DEF Projected
<1>8. CASE PruneEvent
  BY <1>2, <1>3, <1>8, PastStays DEF PruneEvent, wireVars
<1> QED BY <1>6, <1>7, <1>8 DEF SessionStep

\* Where the link's share stands after its row was revoked.
LEMMA RowRevoked ==
    ASSUME ViewerInv, NEW s \in DOMAIN shares,
           shares' = [shares EXCEPT ![s].revoked = TRUE], over' = over
    PROVE  /\ DOMAIN shares' = DOMAIN shares
           /\ Link \in DOMAIN shares /\ shares[Link].revoked => shares'[Link].revoked
           /\ s = Link => shares'[Link].revoked /\ LinkIsPast'
           /\ s # Link => (Active(Link)' <=> Active(Link))
           /\ LinkIsPast => LinkIsPast'
<1>1. IsTable(shares, Share, ShareRow)
  BY TypeFacts DEF ViewerInv
<1> QED BY <1>1 DEF IsTable, ShareRow, LinkIsPast, Active

\* What becomes of the shares tells the truth.
LEMMA SharesKeepPast ==
    ASSUME ViewerInv, PastInv, ShareStep
    PROVE  PastInv'
<1>0. /\ head \in Nat /\ socket \in Socket /\ IsTable(shares, Share, ShareRow)
      /\ page' = page
  BY TypeFacts DEF ViewerInv, ShareStep, viewerVars
<1>1. ASSUME NEW s \in Share, CreateShare(s) PROVE PastInv'
  <2>1. /\ DOMAIN shares' = DOMAIN shares \cup {s} /\ s \notin DOMAIN shares
        /\ \A x \in DOMAIN shares : shares'[x] = shares[x]
        /\ UNCHANGED <<history, over, socket>>
    BY <1>1 DEF CreateShare, Put, wireVars
  <2>2. LinkIsPast => LinkIsPast'
    BY <2>1 DEF LinkIsPast, Active
  <2> QED BY <1>0, <2>1, <2>2, PastStays
<1>2. ASSUME NEW s \in Share, RevokeShare(s) PROVE PastInv'
  <2>1. /\ s \in DOMAIN shares /\ shares' = [shares EXCEPT ![s].revoked = TRUE]
        /\ UNCHANGED <<history, over>>
        /\ s # Link => socket' = socket
    BY <1>2 DEF RevokeShare, RevokeRow
  <2>2. DOMAIN shares' = DOMAIN shares
        /\ (Link \in DOMAIN shares /\ shares[Link].revoked => shares'[Link].revoked)
        /\ (s = Link => shares'[Link].revoked) /\ (LinkIsPast => LinkIsPast')
    BY <2>1, RowRevoked
  <2> QED BY <1>0, <2>1, <2>2, PastStays
<1>3. ASSUME NEW s \in Share, ShareExpires(s) PROVE PastInv'
  <2>1. /\ s \in DOMAIN shares /\ shares' = [shares EXCEPT ![s].expired = TRUE]
        /\ UNCHANGED <<history, over, socket>>
    BY <1>3 DEF ShareExpires
  <2>2. DOMAIN shares' = DOMAIN shares
        /\ (Link \in DOMAIN shares /\ shares[Link].revoked => shares'[Link].revoked)
        /\ (LinkIsPast => LinkIsPast')
    BY <1>0, <2>1 DEF LinkIsPast, Active, IsTable, ShareRow
  <2> QED BY <1>0, <2>1, <2>2, PastStays
<1>4. CASE DeleteSession
  <2>1. PICK entry \in EventRow : entry = Projected("session.deleted", "none")
    BY ProjectedTypes
  <2>2. /\ history' = Append(history, entry) /\ over' = TRUE
        /\ shares' = [s \in DOMAIN shares |-> [shares[s] EXCEPT !.revoked = TRUE]]
        /\ socket' = Shut(Deliver(socket, head + 1), 1000)
    BY <1>4, <2>1 DEF DeleteSession
  <2>3. NoneRevokes(socket.wire) => NoneRevokes(socket'.wire)
    <3>1. PICK n \in Nat : n = head + 1
      BY <1>0
    <3>2. SaysNothing(socket) => SaysNothing(Shut(Deliver(socket, n), 1000))
      BY <3>1, DeliverSaysNothing, ShutSaysNothing
    <3> QED BY <1>0, <2>2, <3>1, <3>2 DEF SaysNothing
  <2>4. DOMAIN shares' = DOMAIN shares
        /\ (Link \in DOMAIN shares => shares'[Link].revoked)
        /\ (LinkIsPast => LinkIsPast')
    BY <1>0, <2>2 DEF LinkIsPast, Active, IsTable, ShareRow
  <2>5. \A i \in DOMAIN history' :
              history'[i].type = "session.deleted" =>
                 over' \/ (i \in DOMAIN history /\ history[i].type = "session.deleted")
    BY <2>2
  <2> QED BY <1>0, <2>2, <2>3, <2>4, <2>5, PastStays
<1> QED BY <1>1, <1>2, <1>3, <1>4 DEF ShareStep

\* Cutting a viewer off, or stopping, does not say that the share was revoked.
LEMMA EndsKeepPast ==
    ASSUME ViewerInv, PastInv, page' = page,
           CutOff \/ \E s \in Share : StopAfterRevoking(s)
    PROVE  PastInv'
<1>0. socket \in Socket
  BY TypeFacts DEF ViewerInv
<1>1. CASE CutOff
  <2>1. socket' = Revoke(socket, "expired") /\ UNCHANGED serverVars
    BY <1>1 DEF CutOff
  <2>2. NoneRevokes(socket.wire) => NoneRevokes(socket'.wire)
    BY <1>0, <2>1, ExpiredSaysNothing DEF SaysNothing
  <2> QED BY <2>1, <2>2, MovesKeepPast DEF PageRests
<1>2. ASSUME NEW s \in Share, StopAfterRevoking(s) PROVE PastInv'
  <2>1. /\ s \in DOMAIN shares /\ shares' = [shares EXCEPT ![s].revoked = TRUE]
        /\ UNCHANGED <<history, over>>
        /\ \/ socket' = [socket EXCEPT !.open = FALSE, !.wire = <<Close(1006)>>]
           \/ socket' = socket
    BY <1>2 DEF StopAfterRevoking
  <2>2. DOMAIN shares' = DOMAIN shares
        /\ (Link \in DOMAIN shares /\ shares[Link].revoked => shares'[Link].revoked)
        /\ (LinkIsPast => LinkIsPast')
    BY <2>1, RowRevoked
  <2>3. NoneRevokes(socket.wire) => NoneRevokes(socket'.wire)
    <3>1. SaysNothing([socket EXCEPT !.open = FALSE, !.wire = <<Close(1006)>>])
      BY <1>0, NothingNewIsSaid
    <3> QED BY <2>1, <3>1 DEF SaysNothing
  <2> QED BY <2>1, <2>2, <2>3, PastStays
<1> QED BY <1>1, <1>2

\* A step of the viewer is one of its page, or it leaves the page alone.
LEMMA ViewerMoves ==
    ASSUME ViewerInv, PastInv, ViewerStep
    PROVE  \/ PageMoves
           \/ PageRests /\ shutAt' = shutAt
           \/ CutOff /\ page' = page
           \/ \E s \in Share : StopAfterRevoking(s) /\ page' = page
<1>1. CASE PageStep
  BY <1>1, RoundsMove, MessagesMove DEF PageStep
<1>2. CASE FaultStep
  BY <1>2, RoundsMove, FaultsMove DEF FaultStep
<1>3. CASE \E t \in Ticket : OrphanExpires(t)
  BY <1>3, FaultsMove
<1> QED BY <1>1, <1>2, <1>3 DEF ViewerStep, viewerVars

\* The page, the wire and the history tell the truth about the end of the share.
LEMMA PastKept ==
    ASSUME ViewerInv, PastInv, [Next]_vars
    PROVE  PastInv'
<1>1. CASE ViewerStep
  BY <1>1, ViewerMoves, MovesKeepPast, EndsKeepPast
<1>2. CASE OpenStep \/ UNCHANGED sharingVars
  <2>1. UNCHANGED <<serverVars, page>> /\ socket' = socket
    BY <1>2 DEF OpenStep, sharingVars, viewerVars, wireVars
  <2> QED BY <2>1, MovesKeepPast DEF PageRests
<1>3. UNCHANGED vars => UNCHANGED sharingVars
  BY DEF vars
<1> QED BY <1>1, <1>2, <1>3, SessionKeepsPast, SharesKeepPast DEF Next

\* Both hold in every reachable state.
LEMMA PastInvariant == Spec => []PastInv
<1>1. Init => PastInv
  <2> SUFFICES ASSUME Init PROVE PastInv
    OBVIOUS
  <2>1. page.step \in {"info", "closed"} /\ socket = NoSocket /\ history = << >>
    BY DEF Init, PublicInit, PageInit
  <2> QED BY <2>1 DEF PastInv, Over, NoneRevokes, NoSocket
<1>2. ViewerInv /\ PastInv /\ [Next]_vars => PastInv'
  BY PastKept
<1> QED BY <1>1, <1>2, ViewerInvariant, PTL DEF Spec

\* The moments of the Session that ViewedHistory has.
Moments == [n \in 0..head |-> RowsAt(n)]

\* Moments stay where the events stay.
LEMMA MomentsStay ==
    ASSUME history' = history
    PROVE  head' = head /\ Moments' = Moments
BY DEF Moments, RowsAt, head

\* An event adds a moment and changes none.
LEMMA MomentsPass ==
    ASSUME ViewerInv, NEW entry \in EventRow, history' = Append(history, entry)
    PROVE  /\ head' = head + 1
           /\ DOMAIN Moments' = 0..head'
           /\ \A n \in 0..head : Moments'[n] = Moments[n]
<1>1. PICK h \in Nat : h = head
  BY TypeFacts DEF ViewerInv
<1>2. head' = h + 1 /\ \A i \in 1..h : history'[i] = history[i]
  BY <1>1, AppendEffect DEF ViewerInv
<1>3. ASSUME NEW n \in 0..h PROVE Moments'[n] = Moments[n]
  <2>1. n \in Nat /\ \A i \in 1..n : i \in 1..h
    OBVIOUS
  <2>2. RowsIn(history', n) = RowsIn(history, n)
    BY <1>2, <2>1, RowsOfPrefix
  <2>3. Moments[n] = RowsIn(history, n)
    BY <1>1, RowsAtIsRowsIn DEF Moments
  <2>4. Moments'[n] = RowsIn(history', n)
    <3>1. n \in 0..head'
      BY <1>2
    <3> QED BY <3>1 DEF Moments, RowsAt, RowsIn
  <2> QED BY <2>2, <2>3, <2>4
<1> QED BY <1>1, <1>2, <1>3 DEF Moments

\* A step of the page shows a moment ahead, turns its user away, or changes nothing
\* that is seen.
LEMMA MovesFollow ==
    ASSUME ViewerInv, PastInv, ViewerInv', PageMoves
    PROVE  Viewing!Show \/ Viewing!TurnAway
<1>1. /\ history' = history /\ shares' = shares /\ over' = over /\ shutAt' = shutAt
      /\ head' = head /\ Moments' = Moments
  BY MomentsStay DEF PageMoves, serverVars
<1>2. LinkState' = LinkState /\ LinkState # "none" /\ (LinkIsPast => LinkState = "past")
  BY <1>1 DEF PageMoves, LinkState, LinkIsPast, Active
<1>3. /\ page.cursor \in Nat /\ head \in Nat /\ page'.cursor \in Nat
      /\ page'.cursor <= head /\ page.cursor <= page'.cursor
      /\ shutAt # -1 => page'.cursor <= shutAt
  <2>1. page'.cursor \in Nat /\ page'.cursor <= head'
    BY DEF ViewerInv, ViewerTypes, PageTypes, Page
  <2>2. shutAt' # -1 => page'.cursor <= shutAt'
    BY DEF ViewerInv, SilenceInv
  <2> QED BY <1>1, <2>1, <2>2, ViewerFacts DEF PageMoves
<1>4. page'.cursor \in Viewing!Ahead
  BY <1>3 DEF Viewing!Ahead
<1>5. CASE Over'
  <2>1. page'.logs = NoRows
    BY <1>5 DEF ViewerInv, MomentInv
  <2> QED BY <1>1, <1>2, <1>4, <1>5, <2>1
          DEF Viewing!TurnAway, Viewing!historyVars, Viewing!shareVars, Viewing!NoRows, NoRows,
              PageMoves, Moments
<1>6. CASE ~Over'
  <2>1. PICK n \in 0..head : n = page'.cursor
    BY <1>3
  <2>2. page'.logs = RowsIn(history, n)
    BY <1>1, <1>6, <2>1 DEF ViewerInv, MomentInv, RowsAt, RowsIn
  <2>3. page'.logs = Moments[page'.cursor]
    BY <2>1, <2>2, RowsAtIsRowsIn DEF Moments
  <2>4. Over' = Over /\ ~Over
    BY <1>6 DEF PageMoves, Over
  <2> QED BY <1>1, <1>2, <1>4, <2>3, <2>4
          DEF Viewing!Show, Viewing!historyVars, Viewing!shareVars, Moments
<1> QED BY <1>5, <1>6

\* A page that stays as it is looks as it did.
LEMMA PageLooksTheSame ==
    ASSUME page' = page
    PROVE  UNCHANGED Viewing!pageVars
BY DEF Viewing!pageVars, Over

\* Nothing that a page may see or learn has changed.
LEMMA NothingFollows ==
    ASSUME page' = page, UNCHANGED <<history, shutAt>>, LinkState' = LinkState
    PROVE  UNCHANGED Viewing!vars
<1>1. UNCHANGED Viewing!pageVars
  BY PageLooksTheSame
<1>2. head' = head /\ Moments' = Moments
  BY MomentsStay
<1> QED BY <1>1, <1>2 DEF Viewing!vars, Viewing!historyVars, Viewing!shareVars, Moments

\* How the link stands depends on its row and on the Session.
LEMMA LinkStandsAsItStood ==
    ASSUME UNCHANGED <<shares, over>>
    PROVE  LinkState' = LinkState
BY DEF LinkState, Active

\* An event is a moment that follows.
LEMMA EventPasses ==
    ASSUME ViewerInv, page' = page, NEW entry \in EventRow, history' = Append(history, entry),
           \/ LinkState' = LinkState /\ shutAt' = shutAt
           \/ /\ LinkState' = IF LinkState = "none" THEN "none" ELSE "past"
              /\ shutAt' = IF shutAt = -1 THEN head' ELSE shutAt
    PROVE  Viewing!Pass
<1>1. UNCHANGED Viewing!pageVars
  BY PageLooksTheSame
<1>2. /\ head' = head + 1
      /\ DOMAIN Moments' = 0..head'
      /\ \A n \in 0..head : Moments'[n] = Moments[n]
  BY MomentsPass
<1> QED BY <1>1, <1>2 DEF Viewing!Pass, Viewing!shareVars, Viewing!EndAt, Moments

\* The share ends, with its viewers or before them.
LEMMA ShareEnds ==
    ASSUME page' = page, history' = history, LinkState # "none", LinkState' = "past",
           shutAt' = shutAt \/ shutAt' = IF shutAt = -1 THEN head ELSE shutAt
    PROVE  Viewing!Expire
<1>1. UNCHANGED Viewing!pageVars
  BY PageLooksTheSame
<1>2. head' = head /\ Moments' = Moments
  BY MomentsStay
<1> QED BY <1>1, <1>2 DEF Viewing!Expire, Viewing!EndAt, Viewing!historyVars, Moments

\* The row of a share is revoked, and its viewers are cut off.
LEMMA RevocationFollows ==
    ASSUME ViewerInv, page' = page, history' = history, NEW s \in DOMAIN shares,
           shares' = [shares EXCEPT ![s].revoked = TRUE], over' = over,
           shutAt' = IF s = Link /\ shutAt = -1 THEN head ELSE shutAt
    PROVE  [Viewing!Next]_(Viewing!vars)
<1>1. /\ DOMAIN shares' = DOMAIN shares
      /\ s = Link => LinkIsPast'
      /\ s # Link => (Active(Link)' <=> Active(Link))
  BY RowRevoked
<1>2. CASE s = Link
  <2>1. LinkState # "none" /\ LinkState' = "past"
    BY <1>1, <1>2 DEF LinkState, LinkIsPast
  <2>2. shutAt' = shutAt \/ shutAt' = IF shutAt = -1 THEN head ELSE shutAt
    BY <1>2
  <2> QED BY <2>1, <2>2, ShareEnds DEF Viewing!Next
<1>3. CASE s # Link
  <2>1. LinkState' = LinkState /\ shutAt' = shutAt
    BY <1>1, <1>3 DEF LinkState
  <2> QED BY <2>1, NothingFollows
<1> QED BY <1>2, <1>3

\* The Session's changes follow, and what is pruned from it is not missed.
LEMMA SessionFollows ==
    ASSUME ViewerInv, SessionStep
    PROVE  [Viewing!Next]_(Viewing!vars)
<1>1. page' = page /\ shutAt' = shutAt /\ LinkState' = LinkState
  <2>1. page' = page /\ UNCHANGED <<shares, over, shutAt>>
    BY DEF SessionStep, ChangeLog, DeleteLog, ChangeSession, PruneEvent, viewerVars, wireVars
  <2> QED BY <2>1, LinkStandsAsItStood
<1>2. ASSUME NEW entry \in EventRow, AppendAndPublish(entry) PROVE Viewing!Next
  BY <1>1, <1>2, EventPasses DEF AppendAndPublish, Viewing!Next
<1>3. ASSUME NEW l \in Log, ChangeLog(l) \/ DeleteLog(l) PROVE Viewing!Next
  BY <1>2, <1>3, ProjectedTypes DEF ChangeLog, DeleteLog
<1>4. CASE ChangeSession
  BY <1>2, <1>4, ProjectedTypes DEF ChangeSession
<1>5. CASE PruneEvent
  BY <1>1, <1>5, NothingFollows DEF PruneEvent
<1> QED BY <1>3, <1>4, <1>5 DEF SessionStep

\* A share is issued once and then ends.
LEMMA SharesFollow ==
    ASSUME ViewerInv, ShareStep
    PROVE  [Viewing!Next]_(Viewing!vars)
<1>0. page' = page /\ IsTable(shares, Share, ShareRow)
  BY TypeFacts DEF ViewerInv, ShareStep, viewerVars
<1>1. ASSUME NEW s \in Share, CreateShare(s) PROVE [Viewing!Next]_(Viewing!vars)
  <2>1. /\ ~over /\ s \notin DOMAIN shares /\ DOMAIN shares' = DOMAIN shares \cup {s}
        /\ shares'[s] = [expired |-> FALSE, revoked |-> FALSE]
        /\ \A x \in DOMAIN shares : shares'[x] = shares[x]
        /\ UNCHANGED <<history, over, shutAt>>
    BY <1>1 DEF CreateShare, Put, wireVars
  <2>2. CASE s = Link
    <3>1. LinkState = "none" /\ LinkState' = "open"
      BY <2>1, <2>2 DEF LinkState, Active
    <3>2. head' = head /\ Moments' = Moments
      BY <2>1, MomentsStay
    <3>3. Viewing!Issue
      BY <1>0, <2>1, <3>1, <3>2, PageLooksTheSame DEF Viewing!Issue, Viewing!historyVars, Moments
    <3> QED BY <3>3 DEF Viewing!Next
  <2>3. CASE s # Link
    <3>1. LinkState' = LinkState
      BY <2>1, <2>3 DEF LinkState, Active
    <3> QED BY <1>0, <2>1, <3>1, NothingFollows
  <2> QED BY <2>2, <2>3
<1>2. ASSUME NEW s \in Share, RevokeShare(s) PROVE [Viewing!Next]_(Viewing!vars)
  BY <1>0, <1>2, RevocationFollows DEF RevokeShare, RevokeRow, Shown
<1>3. ASSUME NEW s \in Share, ShareExpires(s) PROVE [Viewing!Next]_(Viewing!vars)
  <2>1. /\ s \in DOMAIN shares /\ shares' = [shares EXCEPT ![s].expired = TRUE]
        /\ UNCHANGED <<history, over, shutAt>>
    BY <1>3 DEF ShareExpires
  <2>2. CASE s = Link
    <3>1. LinkState # "none" /\ LinkState' = "past"
      BY <1>0, <2>1, <2>2 DEF LinkState, Active, IsTable, ShareRow
    <3> QED BY <1>0, <2>1, <3>1, ShareEnds DEF Viewing!Next
  <2>3. CASE s # Link
    <3>1. LinkState' = LinkState
      BY <1>0, <2>1, <2>3 DEF LinkState, Active, IsTable, ShareRow
    <3> QED BY <1>0, <2>1, <3>1, NothingFollows
  <2> QED BY <2>2, <2>3
<1>4. CASE DeleteSession
  <2>1. PICK entry \in EventRow : entry = Projected("session.deleted", "none")
    BY ProjectedTypes
  <2>2. /\ history' = Append(history, entry) /\ over' = TRUE
        /\ DOMAIN shares' = DOMAIN shares
        /\ shutAt' = IF shutAt = -1 THEN head + 1 ELSE shutAt
    BY <1>4, <2>1 DEF DeleteSession, Shown
  <2>3. LinkState' = IF LinkState = "none" THEN "none" ELSE "past"
    BY <2>2 DEF LinkState, Active
  <2>4. head' = head + 1
    BY <2>2, AppendEffect DEF ViewerInv
  <2> QED BY <1>0, <2>2, <2>3, <2>4, EventPasses DEF Viewing!Next
<1> QED BY <1>1, <1>2, <1>3, <1>4 DEF ShareStep

\* Being cut off and being stopped follow, too.
LEMMA EndsFollow ==
    ASSUME ViewerInv, page' = page, CutOff \/ \E s \in Share : StopAfterRevoking(s)
    PROVE  [Viewing!Next]_(Viewing!vars)
<1>1. CASE CutOff
  <2>1. /\ UNCHANGED <<history, shares, over>> /\ Link \in DOMAIN shares
        /\ shutAt' = IF shutAt = -1 /\ ~Active(Link) THEN head ELSE shutAt
    BY <1>1 DEF CutOff, Lapsed, Shown, serverVars, ViewerInv, SilenceInv
  <2>2. LinkState' = LinkState /\ LinkState # "none"
    BY <2>1, LinkStandsAsItStood DEF LinkState
  <2>3. CASE Active(Link)
    BY <2>1, <2>2, <2>3, NothingFollows
  <2>4. CASE ~Active(Link)
    <3>1. LinkState' = "past"
      BY <2>1, <2>2, <2>4 DEF LinkState
    <3> QED BY <2>1, <2>2, <2>4, <3>1, ShareEnds DEF Viewing!Next
  <2> QED BY <2>3, <2>4
<1>2. ASSUME NEW s \in Share, StopAfterRevoking(s) PROVE [Viewing!Next]_(Viewing!vars)
  BY <1>2, RevocationFollows DEF StopAfterRevoking, Shown
<1> QED BY <1>1, <1>2

\* Every step follows.
LEMMA StepsFollow ==
    ASSUME ViewerInv, PastInv, ViewerInv', [Next]_vars
    PROVE  [Viewing!Next]_(Viewing!vars)
<1>1. ASSUME UNCHANGED <<serverVars, page>>, shutAt' = shutAt
      PROVE  UNCHANGED Viewing!vars
  BY <1>1, LinkStandsAsItStood, NothingFollows DEF serverVars
<1>2. CASE ViewerStep
  <2>1. CASE PageMoves
    BY <2>1, MovesFollow DEF Viewing!Next
  <2>2. CASE PageRests /\ shutAt' = shutAt
    BY <1>1, <2>2 DEF PageRests
  <2> QED BY <1>2, <2>1, <2>2, ViewerMoves, EndsFollow
<1>3. CASE OpenStep \/ UNCHANGED sharingVars
  <2>1. UNCHANGED <<serverVars, page>> /\ shutAt' = shutAt
    BY <1>3 DEF OpenStep, sharingVars, viewerVars, wireVars
  <2> QED BY <1>1, <2>1
<1>4. UNCHANGED vars => UNCHANGED sharingVars
  BY DEF vars
<1> QED BY <1>2, <1>3, <1>4, SessionFollows, SharesFollow DEF Next

\* Whatever is lost, repeated, pruned or cut off on the way, a page never goes back
\* to an earlier moment of the Session, shows none after its share's end, and says
\* that there is nothing to see only when the share is past and then for good: the
\* server and the page implement ViewedHistory.
THEOREM PagesFollowHistory == Spec => FollowsHistory
<1>1. Init => Viewing!Init
  <2> SUFFICES ASSUME Init PROVE Viewing!Init
    OBVIOUS
  <2>1. /\ history = << >> /\ shares = NoRows /\ shutAt = -1 /\ page.step \in {"info", "closed"}
        /\ page.cursor = 0 /\ page.logs = NoRows
    BY DEF Init, PublicInit, PageInit, AnalyticsInit
  <2>2. head = 0 /\ LinkState = "none" /\ ~Over
    BY <2>1 DEF head, LinkState, NoRows, Over
  <2>3. RowsAt(0) = NoRows
    BY <2>1, <2>2, ViewerBegins DEF ViewerInv, MomentInv
  <2>4. 0..head = {0}
    BY <2>2
  <2>5. [n \in 0..head |-> RowsAt(n)] = [n \in {0} |-> NoRows]
    BY <2>3, <2>4
  <2> QED BY <2>1, <2>2, <2>5 DEF Viewing!Init, Viewing!NoRows, NoRows, Over
<1>2. ViewerInv /\ PastInv /\ ViewerInv' /\ [Next]_vars => [Viewing!Next]_(Viewing!vars)
  BY StepsFollow
<1> QED
  BY <1>1, <1>2, ViewerInvariant, PastInvariant, PTL DEF Spec, FollowsHistory, Viewing!Spec

-----------------------------------------------------------------------------
(* The count of opens *)

\* The types of the count, and that every share that was ever opened has a total.
CountTypes ==
    /\ IsFiniteSet(everOpened)
    /\ views \subseteq everOpened
    /\ everOpened \subseteq [share : DOMAIN totals, id : View]
    /\ DOMAIN totals \subseteq DOMAIN shares
    /\ IsTable(totals, Share, [opens : Nat, saturated : BOOLEAN])

\* While a share lives and nothing was dropped, the rows are all of its views: that
\* is what makes a known view known.
RowsAreComplete ==
    \A s \in DOMAIN totals : Active(s) /\ ~totals[s].saturated => OpenedOf(s) \subseteq views

\* The inductive invariant of the count.
CountInv == CountTypes /\ OpensAreCounted /\ RowsAreComplete

\* The views of a share are finitely many.
LEMMA OpenedIsFinite ==
    ASSUME CountInv, NEW s
    PROVE  IsFiniteSet(OpenedOf(s)) /\ Cardinality(OpenedOf(s)) \in Nat
<1>1. OpenedOf(s) \in SUBSET everOpened /\ IsFiniteSet(everOpened)
  BY DEF OpenedOf, CountInv, CountTypes
<1>2. IsFiniteSet(OpenedOf(s))
  BY <1>1, FS_Subset
<1> QED BY <1>2, FS_CardinalityType

\* One view more is one more of its share, unless it was one before.
LEMMA OpenedGrows ==
    ASSUME CountInv, NEW s, NEW id,
           everOpened' = everOpened \cup {[share |-> s, id |-> id]}
    PROVE  /\ OpenedOf(s)' = OpenedOf(s) \cup {[share |-> s, id |-> id]}
           /\ IsFiniteSet(everOpened')
           /\ Cardinality(OpenedOf(s)') \in Nat
           /\ Cardinality(OpenedOf(s)') =
                 IF [share |-> s, id |-> id] \in OpenedOf(s) THEN Cardinality(OpenedOf(s))
                 ELSE Cardinality(OpenedOf(s)) + 1
           /\ \A x : x # s => OpenedOf(x)' = OpenedOf(x)
<1> DEFINE o == [share |-> s, id |-> id]
<1>1. o.share = s
  OBVIOUS
<1> HIDE DEF o
<1>2. OpenedOf(s)' = OpenedOf(s) \cup {o}
  BY <1>1 DEF OpenedOf, o
<1>3. \A x : x # s => OpenedOf(x)' = OpenedOf(x)
  BY <1>1 DEF OpenedOf, o
<1>4. IsFiniteSet(everOpened')
  BY FS_AddElement DEF CountInv, CountTypes, o
<1>5. Cardinality(OpenedOf(s) \cup {o}) =
         IF o \in OpenedOf(s) THEN Cardinality(OpenedOf(s)) ELSE Cardinality(OpenedOf(s)) + 1
  BY OpenedIsFinite, FS_AddElement
<1>6. Cardinality(OpenedOf(s)) \in Nat
  BY OpenedIsFinite
<1> QED BY <1>1, <1>2, <1>3, <1>4, <1>5, <1>6 DEF o

\* A view of an active share is recorded.
LEMMA OpenIsCounted ==
    ASSUME CountInv, NEW s \in Share, NEW id \in View, Active(s), RecordOpen(s, id),
           UNCHANGED <<shares, over>>
    PROVE  CountInv'
<1> DEFINE o == [share |-> s, id |-> id]
           pages == Cardinality(OpenedOf(s))
<1>1. /\ everOpened' = everOpened \cup {o} /\ s \in DOMAIN shares
      /\ \A x : Active(x)' = Active(x)
  BY DEF RecordOpen, Active
<1>2. /\ OpenedOf(s)' = OpenedOf(s) \cup {o} /\ IsFiniteSet(everOpened')
      /\ Cardinality(OpenedOf(s)') \in Nat
      /\ Cardinality(OpenedOf(s)') = IF o \in OpenedOf(s) THEN pages ELSE pages + 1
      /\ \A x : x # s => OpenedOf(x)' = OpenedOf(x)
  BY <1>1, OpenedGrows
<1>3. pages \in Nat
  BY OpenedIsFinite
<1>4. CASE KnownView(s, id)
  <2>1. o \in everOpened /\ UNCHANGED <<views, totals>>
    BY <1>4 DEF KnownView, RecordOpen, CountInv, CountTypes
  <2>2. everOpened' = everOpened
    BY <1>1, <2>1
  <2> QED BY <1>1, <2>1, <2>2
          DEF CountInv, CountTypes, OpensAreCounted, RowsAreComplete, OpenedOf
<1>5. CASE ~KnownView(s, id) /\ Saturated(s)
  <2>1. UNCHANGED <<views, totals>> /\ s \in DOMAIN totals /\ totals[s].saturated
    BY <1>5 DEF RecordOpen, Saturated
  <2>2. o \in [share : DOMAIN totals, id : View]
    BY <2>1
  <2>3. CountTypes'
    BY <1>1, <1>2, <2>1, <2>2 DEF CountInv, CountTypes
  <2>4. totals[s].opens \in 1..pages
    BY <2>1 DEF CountInv, OpensAreCounted
  <2>5. totals[s].opens \in 1..Cardinality(OpenedOf(s)')
    BY <1>2, <1>3, <2>4
  <2>6. OpensAreCounted'
    BY <1>2, <2>1, <2>5 DEF CountInv, OpensAreCounted
  <2>7. RowsAreComplete'
    BY <1>1, <1>2, <2>1 DEF CountInv, RowsAreComplete
  <2> QED BY <2>3, <2>6, <2>7 DEF CountInv
<1>6. CASE ~KnownView(s, id) /\ ~Saturated(s)
  <2> DEFINE before == IF s \in DOMAIN totals THEN totals[s].opens ELSE 0
             row == [opens |-> 1 + before, saturated |-> Full(s)]
  <2>1. /\ views' = IF Full(s) THEN views ELSE views \cup {o}
        /\ totals' = Put(totals, s, row)
    BY <1>6 DEF RecordOpen
  <2>2. o \notin OpenedOf(s) /\ before = pages
    <3>1. CASE s \in DOMAIN totals
      <4>1. OpenedOf(s) \subseteq views /\ totals[s].opens = pages
        BY <1>6, <3>1 DEF Saturated, CountInv, OpensAreCounted, RowsAreComplete
      <4> QED BY <1>6, <3>1, <4>1 DEF KnownView
    <3>2. CASE s \notin DOMAIN totals
      <4>1. OpenedOf(s) = {}
        BY <3>2 DEF CountInv, CountTypes, OpenedOf
      <4> QED BY <3>2, <4>1, FS_EmptySet
    <3> QED BY <3>1, <3>2
  <2>3. row \in [opens : Nat, saturated : BOOLEAN]
    BY <1>3, <2>2 DEF Full
  <2>4. /\ DOMAIN totals' = DOMAIN totals \cup {s} /\ totals'[s] = row
        /\ \A x \in DOMAIN totals \ {s} : totals'[x] = totals[x]
        /\ IsTable(totals', Share, [opens : Nat, saturated : BOOLEAN])
    <3>1. PICK r \in [opens : Nat, saturated : BOOLEAN] : r = row
      BY <2>3
    <3>2. totals' = Put(totals, s, r)
      BY <2>1, <3>1
    <3>3. IsTable(totals', Share, [opens : Nat, saturated : BOOLEAN])
      BY <3>2, PutIsTable DEF CountInv, CountTypes
    <3>4. /\ DOMAIN Put(totals, s, r) = DOMAIN totals \cup {s} /\ Put(totals, s, r)[s] = r
          /\ \A x \in DOMAIN totals \ {s} : Put(totals, s, r)[x] = totals[x]
      BY DEF Put
    <3> HIDE DEF row
    <3> QED BY <3>1, <3>2, <3>3, <3>4
  <2>5. CountTypes'
    BY <1>1, <1>2, <2>1, <2>4 DEF CountInv, CountTypes
  <2>6. row.opens = Cardinality(OpenedOf(s)') /\ row.opens \in 1..Cardinality(OpenedOf(s)')
    BY <1>2, <1>3, <2>2
  <2>7. OpensAreCounted'
    <3>1. ASSUME NEW x \in DOMAIN totals'
          PROVE  IF totals'[x].saturated THEN totals'[x].opens \in 1..Cardinality(OpenedOf(x)')
                 ELSE totals'[x].opens = Cardinality(OpenedOf(x)')
      <4>1. CASE x = s
        BY <2>4, <2>6, <4>1
      <4>2. CASE x # s
        BY <1>2, <2>4, <4>2 DEF CountInv, OpensAreCounted
      <4> QED BY <4>1, <4>2
    <3> QED BY <3>1 DEF OpensAreCounted
  <2>8. RowsAreComplete'
    <3>1. ASSUME NEW x \in DOMAIN totals', Active(x), ~totals'[x].saturated
          PROVE  OpenedOf(x)' \subseteq views'
      <4>1. CASE x = s
        <5>1. ~Full(s) /\ views' = views \cup {o}
          BY <2>1, <2>4, <3>1, <4>1
        <5>2. OpenedOf(s) \subseteq views
          <6>1. CASE s \in DOMAIN totals
            BY <1>6, <6>1 DEF Saturated, CountInv, RowsAreComplete
          <6>2. CASE s \notin DOMAIN totals
            BY <6>2 DEF CountInv, CountTypes, OpenedOf
          <6> QED BY <6>1, <6>2
        <5> QED BY <1>2, <4>1, <5>1, <5>2
      <4>2. CASE x # s
        BY <1>2, <2>1, <2>4, <3>1, <4>2 DEF CountInv, RowsAreComplete
      <4> QED BY <4>1, <4>2
    <3> QED BY <1>1, <3>1 DEF RowsAreComplete
  <2> QED BY <2>5, <2>7, <2>8 DEF CountInv
<1> QED BY <1>4, <1>5, <1>6

\* Only rows of shares that nobody can open any more are cleaned up.
LEMMA CleanUpKeepsCounts ==
    ASSUME CountInv, NEW batch, CleanUp(batch), UNCHANGED <<shares, over>>
    PROVE  CountInv'
<1>1. /\ batch \subseteq {v \in views : ~Active(v.share)} /\ views' = views \ batch
      /\ totals' = totals /\ everOpened' = everOpened /\ \A x : Active(x)' = Active(x)
  BY DEF CleanUp, Stale, Active
<1>2. \A x : OpenedOf(x)' = OpenedOf(x)
  BY <1>1 DEF OpenedOf
<1>3. RowsAreComplete'
  BY <1>1, <1>2 DEF CountInv, RowsAreComplete, OpenedOf
<1> QED BY <1>1, <1>2, <1>3 DEF CountInv, CountTypes, OpensAreCounted

\* No share comes back to life.
LEMMA SharesDieOnce ==
    ASSUME SessionStep \/ ShareStep \/ ViewerStep
    PROVE  DOMAIN shares \subseteq DOMAIN shares'
           /\ \A s \in DOMAIN shares : Active(s)' => Active(s)
<1>1. CASE UNCHANGED <<shares, over>>
  BY <1>1 DEF Active
<1>3. ASSUME NEW s \in Share, RevokeShare(s) \/ ShareExpires(s) \/ StopAfterRevoking(s)
      PROVE  DOMAIN shares \subseteq DOMAIN shares'
             /\ \A x \in DOMAIN shares : Active(x)' => Active(x)
  <2>1. s \in DOMAIN shares /\ over' = over
    BY <1>3 DEF RevokeShare, ShareExpires, StopAfterRevoking
  <2>2. \/ shares' = [shares EXCEPT ![s].revoked = TRUE]
        \/ shares' = [shares EXCEPT ![s].expired = TRUE]
    BY <1>3 DEF RevokeShare, RevokeRow, ShareExpires, StopAfterRevoking
  <2>3. CASE shares' = [shares EXCEPT ![s].revoked = TRUE]
    <3>1. DOMAIN shares' = DOMAIN shares
      BY <2>3
    <3>2. ASSUME NEW x \in DOMAIN shares, Active(x)' PROVE Active(x)
      <4>1. x # s
        BY <2>1, <2>3, <3>2 DEF Active
      <4> QED BY <2>1, <2>3, <3>2, <4>1 DEF Active
    <3> QED BY <3>1, <3>2
  <2>4. CASE shares' = [shares EXCEPT ![s].expired = TRUE]
    <3>1. DOMAIN shares' = DOMAIN shares
      BY <2>4
    <3>2. ASSUME NEW x \in DOMAIN shares, Active(x)' PROVE Active(x)
      <4>1. x # s
        BY <2>1, <2>4, <3>2 DEF Active
      <4> QED BY <2>1, <2>4, <3>2, <4>1 DEF Active
    <3> QED BY <3>1, <3>2
  <2> QED BY <2>2, <2>3, <2>4
<1>4. ASSUME NEW s \in Share, CreateShare(s)
      PROVE  DOMAIN shares \subseteq DOMAIN shares'
             /\ \A x \in DOMAIN shares : Active(x)' => Active(x)
  <2>1. DOMAIN shares' = DOMAIN shares \cup {s} /\ s \notin DOMAIN shares /\ over' = over
        /\ \A x \in DOMAIN shares \ {s} : shares'[x] = shares[x]
    <3>1. shares' = Put(shares, s, [expired |-> FALSE, revoked |-> FALSE])
          /\ s \notin DOMAIN shares /\ over' = over
      BY <1>4 DEF CreateShare
    <3> QED BY <3>1 DEF Put
  <2> QED BY <2>1 DEF Active
<1>5. CASE DeleteSession
  BY <1>5 DEF DeleteSession, Active
<1>6. CASE SessionStep
  BY <1>1, <1>6 DEF SessionStep, ChangeLog, DeleteLog, ChangeSession, PruneEvent
<1>7. CASE ViewerStep
  <2>1. CASE PageStep
    BY <1>1, <2>1 DEF PageStep, CheckServer, ExchangeLink, KeepToken, LoadSnapshot, GetTicket,
       Retry, OpenSocket, ReceiveHello, ReceiveEvent, ReceiveReady, ReceiveResync,
       ReceiveExpired, ReceiveRevoked, ReceiveClose, Finish, GoOn, serverVars
  <2>2. CASE FaultStep
    BY <1>1, <2>2 DEF FaultStep, ServerUnsupported, ExchangeIsLost, RequestIsLost, SocketFails, TicketWearsOut,
       TokenWearsOut, ServerStops, TicketExpires, TokenExpires, Stop, serverVars
  <2>3. CASE CutOff \/ \E t \in Ticket : OrphanExpires(t)
    BY <1>1, <2>3 DEF CutOff, OrphanExpires, TicketExpires, serverVars
  <2> QED BY <1>3, <1>7, <2>1, <2>2, <2>3 DEF ViewerStep
<1> QED BY <1>3, <1>4, <1>5, <1>6, <1>7 DEF ShareStep

\* A step that opens nothing and cleans nothing up.
LEMMA NothingCounted ==
    ASSUME CountInv, UNCHANGED analyticsVars,
           DOMAIN shares \subseteq DOMAIN shares',
           \A s \in DOMAIN shares : Active(s)' => Active(s)
    PROVE  CountInv'
<1>1. UNCHANGED <<views, totals, everOpened>> /\ DOMAIN totals \subseteq DOMAIN shares
  BY DEF analyticsVars, CountInv, CountTypes
<1>2. \A x : OpenedOf(x)' = OpenedOf(x)
  BY <1>1 DEF OpenedOf
<1> QED BY <1>1, <1>2 DEF CountInv, CountTypes, OpensAreCounted, RowsAreComplete

\* The page's own exchange, answered or not, and nothing else of the page opens a
\* share.
LEMMA PageOpens ==
    ASSUME ViewerStep
    PROVE  \/ UNCHANGED analyticsVars
           \/ Active(Link) /\ RecordOpen(Link, ThisView) /\ UNCHANGED <<shares, over>>
<1>1. CASE PageStep
  BY <1>1 DEF PageStep, CheckServer, ExchangeLink, KeepToken, LoadSnapshot, GetTicket,
     Retry, OpenSocket, ReceiveHello, ReceiveEvent, ReceiveReady, ReceiveResync,
     ReceiveExpired, ReceiveRevoked, ReceiveClose, Finish, GoOn, serverVars
<1>2. CASE FaultStep
  BY <1>2 DEF FaultStep, ServerUnsupported, ExchangeIsLost, RequestIsLost, SocketFails, TicketWearsOut,
     TokenWearsOut, ServerStops, serverVars
<1> QED BY <1>1, <1>2 DEF ViewerStep, OrphanExpires

\* Every step keeps the counts.
LEMMA CountsKept ==
    ASSUME CountInv, [Next]_vars
    PROVE  CountInv'
<1>1. CASE SessionStep \/ ShareStep
  BY <1>1, SharesDieOnce, NothingCounted DEF SessionStep, ShareStep
<1>2. CASE ViewerStep
  <2>1. CASE UNCHANGED analyticsVars
    BY <1>2, <2>1, SharesDieOnce, NothingCounted
  <2>2. CASE Active(Link) /\ RecordOpen(Link, ThisView) /\ UNCHANGED <<shares, over>>
    BY <2>2, OpenIsCounted, PublicAssumption, ViewAssumption
  <2> QED BY <1>2, <2>1, <2>2, PageOpens
<1>3. CASE OpenStep
  <2>1. UNCHANGED <<shares, over>>
    BY <1>3 DEF OpenStep, serverVars
  <2>2. ASSUME NEW s \in Share, NEW id \in View, OpenElsewhere(s, id) PROVE CountInv'
    BY <2>1, <2>2, OpenIsCounted DEF OpenElsewhere
  <2>3. ASSUME NEW batch \in SUBSET views, CleanUp(batch) PROVE CountInv'
    BY <2>1, <2>3, CleanUpKeepsCounts
  <2> QED BY <1>3, <2>2, <2>3 DEF OpenStep
<1>4. CASE UNCHANGED sharingVars
  <2>1. UNCHANGED analyticsVars /\ UNCHANGED <<shares, over>>
    BY <1>4 DEF sharingVars, serverVars
  <2>2. DOMAIN shares \subseteq DOMAIN shares' /\ \A s \in DOMAIN shares : Active(s)' => Active(s)
    BY <2>1 DEF Active
  <2> QED BY <2>1, <2>2, NothingCounted
<1> QED BY <1>1, <1>2, <1>3, <1>4 DEF Next, vars

\* The invariant of the count holds in every state.
LEMMA CountInvariant == Spec => []CountInv
<1>1. Init => CountInv
  <2>1. ASSUME Init PROVE CountInv
    <3>1. views = {} /\ everOpened = {} /\ shares = NoRows /\ totals = NoRows
      BY <2>1 DEF Init, PublicInit, AnalyticsInit
    <3>2. DOMAIN totals = {} /\ DOMAIN shares = {}
      BY <3>1 DEF NoRows
    <3> QED BY <3>1, <3>2, NoRowsIsTable, FS_EmptySet
            DEF CountInv, CountTypes, OpensAreCounted, RowsAreComplete
  <2> QED BY <2>1
<1>2. CountInv /\ [Next]_vars => CountInv'
  BY CountsKept
<1> QED BY <1>1, <1>2, PTL DEF Spec

\* The opens of a share are the pages that opened it, each once, or a lower bound
\* that says so: a view whose row is gone belongs to a share that is no longer
\* opened, or to one whose total is a lower bound already.
THEOREM OpensAreNeverCountedTwice == Spec => []OpensAreCounted
<1>1. CountInv => OpensAreCounted
  BY DEF CountInv
<1> QED BY <1>1, CountInvariant, PTL

-----------------------------------------------------------------------------
(* The summary and the list *)

\* A sum, counted: x is there w[x] times.
Units(w, S) == UNION {{x} \X (1..w[x]) : x \in S}

\* A function that sums up w over the subsets of S, one element after the other.
Sums(it, w, S) ==
    it = [s \in SUBSET S |->
            IF s = {} THEN 0
            ELSE LET x == CHOOSE x \in s : TRUE IN w[x] + it[s \ {x}]]

\* Finitely many elements, each so often, are finitely many units.
LEMMA UnitsCount ==
    ASSUME NEW S, IsFiniteSet(S), NEW w, \A x \in S : w[x] \in Nat
    PROVE  IsFiniteSet(Units(w, S)) /\ Cardinality(Units(w, S)) \in Nat
<1>1. ASSUME NEW x \in S PROVE IsFiniteSet({x} \X (1..w[x]))
  <2>1. PICK n \in Nat : n = w[x]
    OBVIOUS
  <2>2. IsFiniteSet(1..n)
    BY FS_Interval
  <2>3. IsFiniteSet({x})
    BY FS_Singleton
  <2> QED BY <2>1, <2>2, <2>3, FS_Product
<1>2. IsFiniteSet({{x} \X (1..w[x]) : x \in S})
  <2> DEFINE T == {{x} \X (1..w[x]) : x \in S}
             f == [x \in S |-> {x} \X (1..w[x])]
  <2>1. f \in Surjection(S, T)
    BY DEF Surjection
  <2> HIDE DEF T, f
  <2>2. IsFiniteSet(T)
    BY <2>1, FS_Surjection
  <2> QED BY <2>2 DEF T
<1>3. \A T \in {{x} \X (1..w[x]) : x \in S} : IsFiniteSet(T)
  BY <1>1
<1>4. IsFiniteSet(Units(w, S))
  BY <1>2, <1>3, FS_UNION DEF Units
<1> QED BY <1>4, FS_CardinalityType

\* An element brings its units along.
LEMMA UnitsOfOneMore ==
    ASSUME NEW S, IsFiniteSet(S), NEW w, \A x \in S : w[x] \in Nat, NEW x \in S
    PROVE  Cardinality(Units(w, S)) = w[x] + Cardinality(Units(w, S \ {x}))
<1> DEFINE A == {x} \X (1..w[x])
           B == Units(w, S \ {x})
<1>1. PICK n \in Nat : n = w[x]
  OBVIOUS
<1>2. IsFiniteSet(A) /\ Cardinality(A) = n
  <2>1. IsFiniteSet(1..n) /\ Cardinality(1..n) = n
    BY FS_Interval
  <2>2. IsFiniteSet({x}) /\ Cardinality({x}) = 1
    BY FS_Singleton
  <2>3. IsFiniteSet(A) /\ Cardinality(A) = Cardinality({x}) * Cardinality(1..n)
    BY <1>1, <2>1, <2>2, FS_Product
  <2>4. Cardinality({x}) * Cardinality(1..n) = n
    BY <2>1, <2>2
  <2> QED BY <2>3, <2>4
<1>3. IsFiniteSet(S \ {x})
  BY FS_RemoveElement
<1>4. IsFiniteSet(B) /\ Cardinality(B) \in Nat
  BY <1>3, UnitsCount
<1>5. A \cap B = {} /\ A \cup B = Units(w, S)
  BY DEF Units
<1> HIDE DEF A, B
<1>6. Cardinality(A \cup B) = Cardinality(A) + Cardinality(B) - Cardinality(A \cap B)
  BY <1>2, <1>4, FS_Union
<1>7. Cardinality(A \cap B) = 0
  BY <1>5, FS_EmptySet
<1>8. Cardinality(A \cup B) = n + Cardinality(B)
  BY <1>2, <1>4, <1>6, <1>7
<1> QED BY <1>1, <1>5, <1>8 DEF B

\* There is a sum.
LEMMA SumsExist ==
    ASSUME NEW S, IsFiniteSet(S), NEW w, \A x \in S : w[x] \in Nat
    PROVE  Sums([s \in SUBSET S |-> Cardinality(Units(w, s))], w, S)
<1> DEFINE count == [s \in SUBSET S |-> Cardinality(Units(w, s))]
<1>1. ASSUME NEW s \in SUBSET S
      PROVE  Cardinality(Units(w, s)) =
               IF s = {} THEN 0
               ELSE LET x == CHOOSE x \in s : TRUE IN w[x] + count[s \ {x}]
  <2>1. CASE s = {}
    <3>1. Units(w, s) = {}
      BY <2>1 DEF Units
    <3> QED BY <2>1, <3>1, FS_EmptySet
  <2>2. CASE s # {}
    <3>1. PICK x : x = CHOOSE y \in s : TRUE
      OBVIOUS
    <3>2. x \in s
      BY <2>2, <3>1
    <3>3. IsFiniteSet(s) /\ \A y \in s : w[y] \in Nat
      BY FS_Subset
    <3>4. Cardinality(Units(w, s)) = w[x] + Cardinality(Units(w, s \ {x}))
      BY <3>2, <3>3, UnitsOfOneMore
    <3>5. count[s \ {x}] = Cardinality(Units(w, s \ {x}))
      OBVIOUS
    <3> QED BY <2>2, <3>1, <3>4, <3>5
  <2> QED BY <2>1, <2>2
<1> QED BY <1>1 DEF Sums

\* There is only one, by induction: no set of elements is a smallest one on which
\* two sums differ.
LEMMA SumsAreUnique ==
    ASSUME NEW S, IsFiniteSet(S), NEW w, NEW f, NEW g, Sums(f, w, S), Sums(g, w, S)
    PROVE  f[S] = g[S]
<1> DEFINE Differ == {s \in FiniteSubsetsOf(S) : f[s] # g[s]}
<1>1. SUFFICES ASSUME f[S] # g[S] PROVE FALSE
  OBVIOUS
<1>2. S \in Differ /\ Differ \subseteq FiniteSubsetsOf(S)
  BY <1>1 DEF FiniteSubsetsOf
<1>3. PICK s \in Differ : \A t \in Differ : ~(<<t, s>> \in StrictSubsetOrdering(S))
  BY <1>2, FS_StrictSubsetOrderingWellFounded, WFMin
<1>4. s \in SUBSET S /\ IsFiniteSet(s) /\ f[s] # g[s]
  BY DEF FiniteSubsetsOf
<1>5. s # {}
  BY <1>4 DEF Sums
<1>6. PICK x : x = CHOOSE y \in s : TRUE
  OBVIOUS
<1>7. x \in s
  BY <1>5, <1>6
<1>8. f[s] = w[x] + f[s \ {x}] /\ g[s] = w[x] + g[s \ {x}]
  BY <1>4, <1>5, <1>6 DEF Sums
<1>9. s \ {x} \in FiniteSubsetsOf(S)
  BY <1>4, FS_RemoveElement DEF FiniteSubsetsOf
<1>10. <<s \ {x}, s>> \in StrictSubsetOrdering(S)
  BY <1>4, <1>7 DEF StrictSubsetOrdering
<1> QED BY <1>3, <1>4, <1>8, <1>9, <1>10

\* MapThenSumSet, of the opens of the shares and of the rows.
LEMMA SharesSum ==
    ASSUME NEW S, IsFiniteSet(S), NEW w, w = [s \in S |-> Opens(s)],
           \A s \in S : Opens(s) \in Nat
    PROVE  MapThenSumSet(Opens, S) = Cardinality(Units(w, S))
<1> DEFINE count == [s \in SUBSET S |-> Cardinality(Units(w, s))]
<1>1. PICK it : it = CHOOSE f : f = [s \in SUBSET S |->
            IF s = {} THEN 0
            ELSE LET x == CHOOSE x \in s : TRUE IN Opens(x) + f[s \ {x}]]
  OBVIOUS
<1>2. MapThenSumSet(Opens, S) = it[S]
  BY <1>1 DEF MapThenSumSet, MapThenFoldSet
<1>3. ASSUME NEW f, Sums(f, w, S)
      PROVE  f = [s \in SUBSET S |->
            IF s = {} THEN 0
            ELSE LET x == CHOOSE x \in s : TRUE IN Opens(x) + f[s \ {x}]]
  <2>1. ASSUME NEW s \in SUBSET S, s # {}
        PROVE  w[CHOOSE x \in s : TRUE] = Opens(CHOOSE x \in s : TRUE)
    BY <2>1
  <2> QED BY <1>3, <2>1 DEF Sums
<1>4. it = [s \in SUBSET S |->
            IF s = {} THEN 0
            ELSE LET x == CHOOSE x \in s : TRUE IN Opens(x) + it[s \ {x}]]
  BY <1>1, <1>3, SumsExist
<1>5. Sums(it, w, S)
  <2>1. ASSUME NEW s \in SUBSET S, s # {}
        PROVE  w[CHOOSE x \in s : TRUE] = Opens(CHOOSE x \in s : TRUE)
    BY <2>1
  <2> QED BY <1>4, <2>1 DEF Sums
<1>6. it[S] = count[S]
  BY <1>5, SumsExist, SumsAreUnique
<1> QED BY <1>2, <1>6

\* The same of the rows of the list.
LEMMA RowsSum ==
    ASSUME NEW R, IsFiniteSet(R), \A r \in R : r.opens \in Nat
    PROVE  MapThenSumSet(LAMBDA r : r.opens, R) =
              Cardinality(Units([r \in R |-> r.opens], R))
<1> DEFINE w == [r \in R |-> r.opens]
           count == [s \in SUBSET R |-> Cardinality(Units(w, s))]
<1>1. PICK it : it = CHOOSE f : f = [s \in SUBSET R |->
            IF s = {} THEN 0
            ELSE LET x == CHOOSE x \in s : TRUE IN x.opens + f[s \ {x}]]
  OBVIOUS
<1>2. MapThenSumSet(LAMBDA r : r.opens, R) = it[R]
  BY <1>1 DEF MapThenSumSet, MapThenFoldSet
<1>3. ASSUME NEW s \in SUBSET R, s # {}
      PROVE  w[CHOOSE x \in s : TRUE] = (CHOOSE x \in s : TRUE).opens
  BY <1>3
<1>4. \A x \in R : w[x] \in Nat
  OBVIOUS
<1> HIDE DEF w
<1>5. ASSUME NEW f, Sums(f, w, R)
      PROVE  f = [s \in SUBSET R |->
            IF s = {} THEN 0
            ELSE LET x == CHOOSE x \in s : TRUE IN x.opens + f[s \ {x}]]
  BY <1>3, <1>5 DEF Sums
<1>6. it = [s \in SUBSET R |->
            IF s = {} THEN 0
            ELSE LET x == CHOOSE x \in s : TRUE IN x.opens + it[s \ {x}]]
  BY <1>1, <1>4, <1>5, SumsExist
<1>7. Sums(it, w, R)
  BY <1>3, <1>6 DEF Sums
<1>8. it[R] = count[R]
  BY <1>4, <1>7, SumsExist, SumsAreUnique
<1> QED BY <1>2, <1>8 DEF w

\* A list has one row for each of its shares.
LEMMA RowsOfShares ==
    ASSUME ShareTypes, CountTypes, IsFiniteSet(DOMAIN shares),
           NEW listed \in SUBSET DOMAIN shares, NEW P, NEW Q \in SUBSET listed,
           \A s \in listed : s \in Q <=> StatusOf(s) = P
    PROVE  Cardinality(Q) = Cardinality({r \in ListRows(listed) : r.status = P})
<1> DEFINE row(s) == [share |-> s, status |-> StatusOf(s), opens |-> Opens(s),
                      saturated |-> Saturated(s)]
           R == {r \in ListRows(listed) : r.status = P}
           f == [s \in Q |-> row(s)]
<1>1. \A s \in Q : f[s] \in R
  BY DEF ListRows
<1>2. \A s, t \in Q : f[s] = f[t] => s = t
  OBVIOUS
<1>3. \A r \in R : \E s \in Q : f[s] = r
  BY DEF ListRows
<1> HIDE DEF R
<1>4. f \in Bijection(Q, R)
  BY <1>1, <1>2, <1>3 DEF Bijection, Injection, Surjection, IsInjective
<1>5. IsFiniteSet(Q)
  BY FS_Subset
<1> HIDE DEF f
<1>6. Cardinality(R) = Cardinality(Q)
  BY <1>4, <1>5, FS_Bijection DEF ExistsBijection
<1> QED BY <1>6 DEF R

\* The summary agrees with the list of finitely many shares.
LEMMA SumsAgree ==
    ASSUME CountTypes, IsFiniteSet(DOMAIN shares)
    PROVE  Summary.opens = MapThenSumSet(LAMBDA r : r.opens, ListRows(DOMAIN shares))
<1> DEFINE row(s) == [share |-> s, status |-> StatusOf(s), opens |-> Opens(s),
                      saturated |-> Saturated(s)]
           w == [s \in DOMAIN totals |-> Opens(s)]
           v == [r \in ListRows(DOMAIN shares) |-> r.opens]
           A == Units(w, DOMAIN totals)
           B == Units(v, ListRows(DOMAIN shares))
           f == [u \in A |-> <<row(u[1]), u[2]>>]
<1>1. \A s : Opens(s) \in Nat
  BY RowOfTable DEF Opens, CountTypes, IsTable
<1>2. IsFiniteSet(DOMAIN totals)
  BY FS_Subset DEF CountTypes
<1>3. IsFiniteSet(ListRows(DOMAIN shares))
  <2> DEFINE g == [s \in DOMAIN shares |-> row(s)]
  <2>1. g \in Surjection(DOMAIN shares, ListRows(DOMAIN shares))
    BY DEF Surjection, ListRows
  <2> HIDE DEF g
  <2> QED BY <2>1, FS_Surjection
<1>4. \A r \in ListRows(DOMAIN shares) : r.opens \in Nat
  BY <1>1 DEF ListRows
<1>5. Summary.opens = Cardinality(A)
  BY <1>1, <1>2, SharesSum DEF Summary
<1>6. MapThenSumSet(LAMBDA r : r.opens, ListRows(DOMAIN shares)) = Cardinality(B)
  BY <1>3, <1>4, RowsSum
<1>7. \A u : u \in A <=> \E s \in DOMAIN totals : \E k \in 1..Opens(s) : u = <<s, k>>
  BY DEF Units
<1>8. \A u : u \in B <=> \E s \in DOMAIN shares : \E k \in 1..Opens(s) : u = <<row(s), k>>
  <2>1. \A u : u \in B <=> \E r \in ListRows(DOMAIN shares) : \E k \in 1..r.opens : u = <<r, k>>
    BY DEF Units
  <2>2. ListRows(DOMAIN shares) = {row(s) : s \in DOMAIN shares}
    BY DEF ListRows
  <2>3. \A s \in DOMAIN shares : row(s).opens = Opens(s)
    OBVIOUS
  <2> HIDE DEF row, B
  <2> QED BY <2>1, <2>2, <2>3
<1>9. \A s \in DOMAIN shares : \A k \in 1..Opens(s) : s \in DOMAIN totals
  BY DEF Opens
<1>10. DOMAIN totals \subseteq DOMAIN shares
  BY DEF CountTypes
<1>11. \A s, t : row(s) = row(t) => s = t
  OBVIOUS
<1> HIDE DEF A, B, row
<1>12. \A u \in A : f[u] \in B
  BY <1>7, <1>8, <1>10
<1>13. \A x, y \in A : f[x] = f[y] => x = y
  BY <1>7, <1>11
<1>14. \A r \in B : \E u \in A : f[u] = r
  <2>1. ASSUME NEW r \in B PROVE \E u \in A : f[u] = r
    <3>1. PICK s \in DOMAIN shares : \E k \in 1..Opens(s) : r = <<row(s), k>>
      BY <1>8
    <3>3. PICK k \in 1..Opens(s) : r = <<row(s), k>>
      BY <3>1
    <3>2. <<s, k>> \in A
      BY <1>7, <1>9
    <3> QED BY <3>2, <3>3
  <2> QED BY <2>1
<1>15. f \in Bijection(A, B)
  BY <1>12, <1>13, <1>14 DEF Bijection, Injection, Surjection, IsInjective
<1>16. IsFiniteSet(A)
  BY <1>1, <1>2, UnitsCount DEF A
<1> HIDE DEF f
<1>17. Cardinality(B) = Cardinality(A)
  BY <1>15, <1>16, FS_Bijection DEF ExistsBijection
<1> QED BY <1>5, <1>6, <1>17

\* Each status has as many shares in the summary as the program gives it.
LEMMA SummaryCounts ==
    ASSUME ShareTypes, NEW status \in {"active", "revoked", "expired", "sessionDeleted"}
    PROVE  Summary[status] = Cardinality({s \in DOMAIN shares : StatusOf(s) = status})
<1> DEFINE Q(x) == {s \in DOMAIN shares : StatusOf(s) = x}
<1>1. Q("active") = {s \in DOMAIN shares : Active(s)}
  BY DEF StatusOf, Active
<1>2. Q("revoked") = {s \in DOMAIN shares : ~over /\ shares[s].revoked}
  BY DEF StatusOf
<1>3. Q("expired") = {s \in DOMAIN shares : ~over /\ ~shares[s].revoked /\ shares[s].expired}
  BY DEF StatusOf
<1>4. Q("sessionDeleted") = {s \in DOMAIN shares : over}
  BY DEF StatusOf
<1> HIDE DEF Q
<1>5. /\ Summary["active"] = Cardinality(Q("active"))
      /\ Summary["revoked"] = Cardinality(Q("revoked"))
      /\ Summary["expired"] = Cardinality(Q("expired"))
      /\ Summary["sessionDeleted"] = Cardinality(Q("sessionDeleted"))
  BY <1>1, <1>2, <1>3, <1>4 DEF Summary
<1>6. Summary[status] = Cardinality(Q(status))
  BY <1>5
<1> QED BY <1>6 DEF Q

\* No list shows more than that, and one of all shares shows that.
LEMMA SummaryAgrees ==
    ASSUME ShareTypes, CountTypes, IsFiniteSet(DOMAIN shares)
    PROVE  SummaryMatchesList
<1> SUFFICES ASSUME NEW limit \in 1..MaxListLimit, NEW listed \in Listed(limit)
             PROVE  /\ \A status \in {"active", "revoked", "expired", "sessionDeleted"} :
                          /\ Cardinality({r \in ListRows(listed) : r.status = status})
                                <= Summary[status]
                          /\ Summary.total <= limit =>
                                Cardinality({r \in ListRows(listed) : r.status = status})
                                   = Summary[status]
                    /\ Summary.total <= limit =>
                          Summary.opens = MapThenSumSet(LAMBDA r : r.opens, ListRows(listed))
  BY DEF SummaryMatchesList
<1>1. listed \in SUBSET DOMAIN shares
  BY DEF Listed
<1>2. ASSUME Summary.total <= limit
      PROVE  listed = DOMAIN shares
  <2>1. Cardinality(DOMAIN shares) <= limit
    BY <1>2 DEF Summary
  <2>2. /\ IsFiniteSet(listed) /\ Cardinality(listed) \in Nat
        /\ Cardinality(DOMAIN shares) \in Nat
        /\ Cardinality(listed) = Cardinality(DOMAIN shares) => listed = DOMAIN shares
        /\ Cardinality(listed) <= Cardinality(DOMAIN shares)
    BY <1>1, FS_Subset, FS_CardinalityType
  <2>3. limit \in Nat
    BY AnalyticsAssumption
  <2> QED BY <2>1, <2>2, <2>3 DEF Listed
<1>3. ASSUME NEW status \in {"active", "revoked", "expired", "sessionDeleted"}
      PROVE  /\ Cardinality({r \in ListRows(listed) : r.status = status}) <= Summary[status]
             /\ Summary.total <= limit =>
                   Cardinality({r \in ListRows(listed) : r.status = status}) = Summary[status]
  <2> DEFINE Q == {s \in listed : StatusOf(s) = status}
             A == {s \in DOMAIN shares : StatusOf(s) = status}
  <2>1. Q \in SUBSET listed /\ \A s \in listed : s \in Q <=> StatusOf(s) = status
    OBVIOUS
  <2>2. Q \subseteq A /\ A \subseteq DOMAIN shares
    BY <1>1
  <2>3. listed = DOMAIN shares => Q = A
    OBVIOUS
  <2> HIDE DEF Q, A
  <2>4. Cardinality(Q) = Cardinality({r \in ListRows(listed) : r.status = status})
    BY <1>1, <2>1, RowsOfShares
  <2>5. Summary[status] = Cardinality(A)
    BY <1>3, SummaryCounts DEF A
  <2>6. IsFiniteSet(A)
    BY <2>2, FS_Subset
  <2>7. Cardinality(Q) <= Cardinality(A)
    BY <2>2, <2>6, FS_Subset
  <2> QED BY <1>2, <2>3, <2>4, <2>5, <2>7
<1> QED BY <1>2, <1>3, SumsAgree

\* A step makes at most one share.
LEMMA SharesStayFinite ==
    ASSUME IsFiniteSet(DOMAIN shares), [Next]_vars
    PROVE  IsFiniteSet(DOMAIN shares')
<1>1. CASE UNCHANGED shares
  BY <1>1
<1>2. CASE DOMAIN shares' = DOMAIN shares
  BY <1>2
<1>3. ASSUME NEW s \in Share, CreateShare(s) PROVE IsFiniteSet(DOMAIN shares')
  <2>1. DOMAIN shares' = DOMAIN shares \cup {s}
    BY <1>3 DEF CreateShare, Put
  <2> QED BY <2>1, FS_AddElement
<1>4. CASE SessionStep
  BY <1>1, <1>4 DEF SessionStep, ChangeLog, DeleteLog, ChangeSession, PruneEvent
<1>5. CASE ShareStep
  <2>1. ASSUME NEW s \in Share, RevokeShare(s) \/ ShareExpires(s)
        PROVE  DOMAIN shares' = DOMAIN shares
    BY <2>1 DEF RevokeShare, RevokeRow, ShareExpires
  <2>2. CASE DeleteSession
    <3>1. DOMAIN shares' = DOMAIN shares
      BY <2>2 DEF DeleteSession
    <3> QED BY <1>2, <3>1
  <2> QED BY <1>2, <1>3, <1>5, <2>1, <2>2 DEF ShareStep
<1>6. CASE ViewerStep
  <2>1. CASE PageStep
    BY <1>1, <2>1 DEF PageStep, CheckServer, ExchangeLink, KeepToken, LoadSnapshot, GetTicket,
       Retry, OpenSocket, ReceiveHello, ReceiveEvent, ReceiveReady, ReceiveResync,
       ReceiveExpired, ReceiveRevoked, ReceiveClose, Finish, GoOn, serverVars
  <2>2. CASE FaultStep
    BY <1>1, <2>2 DEF FaultStep, ServerUnsupported, ExchangeIsLost, RequestIsLost, SocketFails, TicketWearsOut,
       TokenWearsOut, ServerStops, TicketExpires, TokenExpires, Stop, serverVars
  <2>3. CASE CutOff \/ \E t \in Ticket : OrphanExpires(t)
    BY <1>1, <2>3 DEF CutOff, OrphanExpires, TicketExpires, serverVars
  <2>4. ASSUME NEW s \in Share, StopAfterRevoking(s) PROVE DOMAIN shares' = DOMAIN shares
    BY <2>4 DEF StopAfterRevoking
  <2> QED BY <1>2, <1>6, <2>1, <2>2, <2>3, <2>4 DEF ViewerStep
<1>7. CASE OpenStep \/ UNCHANGED sharingVars
  BY <1>1, <1>7 DEF OpenStep, sharingVars, serverVars
<1> QED BY <1>4, <1>5, <1>6, <1>7 DEF Next, vars

\* The summary, which SQL counts, agrees with the lists, whose rows the program
\* classifies: with any limit a list shows at most the shares that are counted
\* under their status, and with room for all shares exactly these and their opens.
THEOREM SummaryIsOfTheList == Spec => []SummaryMatchesList
<1>1. Init => IsFiniteSet(DOMAIN shares)
  <2>1. Init => DOMAIN shares = {}
    BY DEF Init, PublicInit, AnalyticsInit, NoRows
  <2> QED BY <2>1, FS_EmptySet
<1>2. IsFiniteSet(DOMAIN shares) /\ [Next]_vars => IsFiniteSet(DOMAIN shares)'
  BY SharesStayFinite
<1>3. ViewerInv /\ CountInv /\ IsFiniteSet(DOMAIN shares) => SummaryMatchesList
  BY SummaryAgrees DEF ViewerInv, ViewerTypes, CountInv
<1> QED BY <1>1, <1>2, <1>3, ViewerInvariant, CountInvariant, PTL DEF Spec
=============================================================================
