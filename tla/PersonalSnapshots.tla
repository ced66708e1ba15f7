-------------------------- MODULE PersonalSnapshots -------------------------
(***************************************************************************)
(* The personal records of one account: what its devices keep, the cloud   *)
(* snapshot they replace as a whole (personal_cloud_snapshots), what a     *)
(* grantee of an account share changes in it, and what the catalogue shows.*)
(*                                                                         *)
(* A record is known by the changes made to it, oldest first; a change is  *)
(* a number that is never used twice.  The devices are not in this         *)
(* repository: a device downloads, changes its copy and uploads it with    *)
(* the revision of its last download.                                      *)
(***************************************************************************)
EXTENDS Integers, FiniteSets, Sequences, SequencesExt, Tables

CONSTANTS
    Device,     \* the devices of the account
    Session,    \* Session ids
    Log         \* sync ids

\* There are finitely many: stableId takes ids of at most 128 characters.
ASSUME PersonalAssumption == IsFiniteSet(Session)

VARIABLES
    changes,    \* the last change made anywhere
    snapshot,   \* the row of personal_cloud_snapshots; revision 0: no row
    copies,     \* Device -> [base, sessions, logs]: its records, and the revision it knows
    seen,       \* the revision in the shared catalogue of a grantee
    remote,     \* sessions: Session -> [status, logs], the collaboration Sessions published
    originals,  \* personal_session_promotions: Session -> its logs before
    accepted    \* the changes the server ever stored

personalVars == <<changes, snapshot, copies, seen, remote, originals, accepted>>

\* sessions[].status, and "deleted" for a Session with deleted_at.  Archived ones
\* are left out: all but the archive lists, which refuse them, treat them like
\* closed ones.
Status == {"active", "closed", "deleted"}

NoSnapshot == [revision |-> 0, sessions |-> NoRows, logs |-> NoRows,
               sessionCount |-> 0, logCount |-> 0]

\* Rows of logs that belong to Session s.
LogsOf(logs, s) == Restrict(logs, {l \in DOMAIN logs : logs[l].session = s})

Live(logs) == Restrict(logs, {l \in DOMAIN logs : ~logs[l].deleted})

ChangesIn(logs) == UNION {ToSet(logs[l].history) : l \in DOMAIN logs}

\* What validatePersonalSnapshot asks of an upload.
ValidSnapshot(sessions, logs) ==
    \A l \in DOMAIN logs : logs[l].session \in DOMAIN sessions

\* The row that a write of these contents leaves.
NextSnapshot(sessions, logs) ==
    [revision |-> snapshot.revision + 1, sessions |-> sessions, logs |-> logs,
     sessionCount |-> Cardinality(DOMAIN sessions), logCount |-> Cardinality(DOMAIN logs)]

\* What readers require of the stored row: else PERSONAL_SNAPSHOT_CORRUPT.
StoredIsValid ==
    /\ ValidSnapshot(snapshot.sessions, snapshot.logs)
    /\ snapshot.sessionCount = Cardinality(DOMAIN snapshot.sessions)
    /\ snapshot.logCount = Cardinality(DOMAIN snapshot.logs)

PersonalInit ==
    /\ changes = 0
    /\ snapshot = NoSnapshot
    /\ \E first \in Device :
          copies = [d \in Device |->
              [base |-> 0, logs |-> NoRows,
               sessions |-> IF d = first THEN [s \in Session |-> "active"] ELSE NoRows]]
    /\ seen = 0
    /\ remote = NoRows
    /\ originals = NoRows
    /\ accepted = {}

-----------------------------------------------------------------------------
(* On a device *)

\* The record l after one more change.
Changed(old, deleted) ==
    [old EXCEPT !.history = Append(@, changes + 1), !.deleted = deleted]

\* A new sync id is drawn at random: nobody else has it.
Unused(l) ==
    /\ \A d \in Device : l \notin DOMAIN copies[d].logs
    /\ l \notin DOMAIN snapshot.logs
    /\ \A s \in DOMAIN remote : l \notin DOMAIN remote[s].logs
    /\ \A s \in DOMAIN originals : l \notin DOMAIN originals[s]

NewLog(s) == [session |-> s, history |-> <<>>, deleted |-> FALSE]

EditCopy(d, s, l, deleted) ==
    LET mine == copies[d]
    IN  /\ s \in DOMAIN mine.sessions
        /\ mine.sessions[s] = "active"
        /\ \/ Unused(l) /\ ~deleted
           \/ l \in DOMAIN mine.logs /\ mine.logs[l].session = s /\ ~mine.logs[l].deleted
        /\ LET old == IF l \in DOMAIN mine.logs THEN mine.logs[l] ELSE NewLog(s)
           IN  copies' = [copies EXCEPT ![d].logs = Put(@, l, Changed(old, deleted))]
        /\ changes' = changes + 1
        /\ UNCHANGED <<snapshot, seen, remote, originals, accepted>>

SetStatus(d, s, status) ==
    /\ s \in DOMAIN copies[d].sessions
    /\ copies[d].sessions[s] # status
    /\ copies' = [copies EXCEPT ![d].sessions[s] = status]
    /\ changes' = changes + 1
    /\ UNCHANGED <<snapshot, seen, remote, originals, accepted>>

\* GET /personal-snapshot/download; the device takes the server's rows, and
\* may keep those only it has.
Download(d, keep) ==
    LET merged(server, mine) ==
            [x \in DOMAIN server \cup (IF keep THEN DOMAIN mine ELSE {}) |->
                IF x \in DOMAIN server THEN server[x] ELSE mine[x]]
    IN  /\ snapshot.revision > 0
        /\ copies' = [copies EXCEPT ![d] =
              [base |-> snapshot.revision,
               sessions |-> merged(snapshot.sessions, @.sessions),
               logs |-> merged(snapshot.logs, @.logs)]]
        /\ UNCHANGED <<changes, snapshot, seen, remote, originals, accepted>>

-----------------------------------------------------------------------------
(* The snapshot *)

Promoted(s) == s \in DOMAIN originals

\* The revision the writer names is the present one.
BasedOnPast(revision) == revision <= snapshot.revision

BasedOnPresent(revision) == revision = snapshot.revision

\* rejectPromotedPersonalSessions
KnownSessions(sessions) == DOMAIN sessions \subseteq Session

NonePromoted(sessions) == \A s \in DOMAIN sessions : ~Promoted(s)

\* PUT /personal-snapshot.  The same contents leave the row as it is.  The
\* answer, and with it the new revision, may not reach the device.
ReplaceSnapshot(d, answered) ==
    LET mine == copies[d]
        same == /\ snapshot.revision > 0
                /\ mine.sessions = snapshot.sessions
                /\ mine.logs = snapshot.logs
    IN  /\ BasedOnPresent(mine.base)
        /\ ValidSnapshot(mine.sessions, mine.logs)
        /\ NonePromoted(mine.sessions)
        /\ ~same
        /\ snapshot' = NextSnapshot(mine.sessions, mine.logs)
        /\ copies' = IF answered THEN [copies EXCEPT ![d].base = snapshot'.revision] ELSE copies
        /\ accepted' = accepted \cup ChangesIn(mine.logs)
        /\ UNCHANGED <<changes, seen, remote, originals>>

\* A grantee reads the shared catalogue.
SeeShared ==
    /\ seen' = snapshot.revision
    /\ UNCHANGED <<changes, snapshot, copies, remote, originals, accepted>>

\* A personal Session in the shared catalogue, and whether its records may be
\* changed, as far as the Session decides.
SharedToEdit(s) == s \in DOMAIN snapshot.sessions /\ snapshot.sessions[s] = "active"

\* mutateSharedRecord on a personal Session: a new record, a patch or a deletion.
EditShared(s, l, deleted) ==
    /\ SharedToEdit(s)
    /\ BasedOnPresent(seen)
    /\ \/ Unused(l) /\ ~deleted
       \/ l \in DOMAIN snapshot.logs /\ snapshot.logs[l].session = s /\ ~snapshot.logs[l].deleted
    /\ LET old == IF l \in DOMAIN snapshot.logs THEN snapshot.logs[l] ELSE NewLog(s)
       IN  snapshot' = NextSnapshot(snapshot.sessions, Put(snapshot.logs, l, Changed(old, deleted)))
    /\ changes' = changes + 1
    /\ seen' = snapshot'.revision
    /\ accepted' = accepted \cup {changes'}
    /\ UNCHANGED <<copies, remote, originals>>

-----------------------------------------------------------------------------
(* What is shown *)

\* listPersonalSessionLogs, with deleted records
PersonalSessionLogs(s) == IF StoredIsValid THEN LogsOf(snapshot.logs, s) ELSE NoRows

\* matchesQuery: deleted Sessions are listed for those who ask for them.
Query == {"plain", "includeDeleted"}

ListedSessions(status, query) ==
    {s \in DOMAIN status : query = "includeDeleted" \/ status[s] # "deleted"}

\* The collaboration Sessions that the account takes part in.
RemoteSessions(query) ==
    ListedSessions([s \in DOMAIN remote |-> remote[s].status], query)

\* validatedSnapshot and the Sessions of its snapshot
PersonalSessions(query) ==
    IF StoredIsValid THEN ListedSessions(snapshot.sessions, query) ELSE {}

\* listAccountSessionCatalog
AccountSessionCatalog(query) ==
    {[source |-> "collaboration", session |-> s] : s \in RemoteSessions(query)} \cup
    {[source |-> "personal", session |-> s] : s \in PersonalSessions(query)}

\* GET /session-accounts: how many Sessions the account has, from the columns;
\* the deleted Sessions of the snapshot are counted in session_count.
AdminSessionCount == Cardinality(RemoteSessions("plain")) + snapshot.sessionCount

\* GET /personal-snapshots/:userId, for an administrator
AdminSnapshotDetail == IF StoredIsValid THEN snapshot.logs ELSE NoRows

\* createClientSessionDatabaseBackupV7: one Session with its records.
SessionBackup(s) ==
    [session |-> s, logs |-> PersonalSessionLogs(s)]
=============================================================================
