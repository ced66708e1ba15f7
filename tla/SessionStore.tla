---------------------------- MODULE SessionStore ----------------------------
(***************************************************************************)
(* The SQLite tables of one collaboration Session and the helpers every    *)
(* handler goes through: requireMembership, readStoredResponse,            *)
(* storeResponse and appendSessionEvent.                                   *)
(*                                                                         *)
(* better-sqlite3 is synchronous and every handler does its work in one    *)
(* db.transaction(...).immediate(), so a handler is one atomic action of   *)
(* the modules that extend this one.                                       *)
(***************************************************************************)
EXTENDS Integers, Sequences, Tables

CONSTANTS
    User,        \* accounts
    Admin,       \* the accounts that requireActiveAdminAccess lets through
    Log,         \* syncIds of Logs
    Field,       \* columns of a Log that users fill in
    Required,    \* the fields a Log cannot lack (time, controller, callsign)
    Text,        \* non-empty field values
    Blank,       \* NULL, or the default '59' of the two RST fields
    MutationId,  \* Idempotency-Keys and mutationIds, one shared name space
    NoMutation,  \* the event column of a mutation whose id no client knows
    Invite,      \* collaboration_invites.id
    SessionId    \* the Session as an entity of its own event stream

ASSUME StoreAssumption ==
    /\ Admin \subseteq User
    /\ Required \subseteq Field
    /\ Blank \notin Text
    /\ SessionId \notin Log
    /\ NoMutation \notin MutationId
    /\ Text # {}

VARIABLES
    session,    \* the row of table sessions
    members,    \* session_members: User -> row, a removed row stays
    logs,       \* logs: syncId -> row, a tombstone stays
    events,     \* session_events: seq -> retained event
    processed,  \* processed_mutations: id -> stored response
    invites     \* collaboration_invites with their invite_redemptions

storeVars == <<session, members, logs, events, processed, invites>>

Role == {"owner", "editor", "viewer"}
Writer == {"owner", "editor"}

Status == {"absent", "initializing", "active", "closed"}

\* promoted are the accounts whose row in personal_session_promotions says that
\* they made the Session of a personal one.
SessionRow == [status : Status, deleted : BOOLEAN, version : Nat,
               title : Text, owner : User, seq : Nat, minSeq : Nat,
               promoted : SUBSET User]

MemberRow == [role : Role, version : Nat, removed : BOOLEAN]

Content == [Field -> Text \cup {Blank}]

\* What canonicalLogValue lets through: the mandatory columns are filled in.
Complete(content) == \A f \in Required : content[f] # Blank

\* stamp tells whose created_at, updated_at and source_device_id the row has: those
\* of the request that wrote it here, or those of the personal snapshot.
LogRow == [version : Nat, content : Content, deleted : BOOLEAN,
           stamp : {"server", "personal"}]

NewLog(content) ==
    [version |-> 1, content |-> content, deleted |-> FALSE, stamp |-> "server"]

SessionBody == [version : Nat, title : Text, status : Status,
                deleted : BOOLEAN, nextDraft : Nat]

EventType == {"session.activated", "session.updated", "session.closed",
              "session.reopened", "session.deleted", "log.created",
              "log.updated", "log.deleted", "log.restored"}

\* mutation is the mutationId of the request.  For a correction it is a proposalId,
\* which the server made up: here the request that applied it and the entity.
Event == [type : EventType, entity : Log \cup {SessionId}, version : Nat,
          mutation : MutationId \cup {NoMutation}, body : LogRow \cup SessionBody]

Outcome == {"accepted", "conflict", "rejected", "done"}

\* The handler that stored a response, by what it asks of a retry.
Kind == {"create", "bootstrap", "batch", "owner", "leave", "draft", "admin",
         "grant", "excel"}

\* For an accepted operation, seq is the event it appended and base the version
\* its request named (baseVersion is part of the stored request_hash).
Response == [kind : Kind, user : User, outcome : Outcome, seq : Nat, base : Nat]

InviteRow == [role : {"editor", "viewer"}, used : Nat, max : Nat,
              open : BOOLEAN, redeemers : SUBSET User]

-----------------------------------------------------------------------------
(* collaboration/access.ts *)

IsMember(u) == u \in DOMAIN members /\ ~members[u].removed

\* Mutant: the deletion of the Session is not looked at.
RequireMembershipForgetsDeletion(u, roles) ==
    session.status # "absent" /\ IsMember(u) /\ members[u].role \in roles

\* requireMembership: it throws, and the handler has no effect, when the
\* Session or the membership is missing, removed, or has another role.
RequireMembership(u, roles) ==
    /\ session.status # "absent"
    /\ IsMember(u)
    /\ ~session.deleted
    /\ members[u].role \in roles

\* requireMembership followed by the initializing test of every reader.
CanRead(u) ==
    /\ RequireMembership(u, Role)
    /\ session.status = "initializing" => members[u].role = "owner"

-----------------------------------------------------------------------------
(* collaboration/idempotency.ts *)

\* Mutant: nothing looks for a stored response.
FreshWithoutLookup(m) == m \in MutationId

\* readStoredResponse finds no row, so the handler runs.  When it finds one the
\* handler answers from it, or MUTATION_ID_REUSED, and changes nothing.
Fresh(m) == m \in MutationId /\ m \notin DOMAIN processed

\* storeResponse of an answer that names no event.
StoreResponse(m, kind, u, outcome) ==
    processed' = Put(processed, m, [kind |-> kind, user |-> u,
                                    outcome |-> outcome, seq |-> 0, base |-> 0])

\* storeResponse of an answer that carries the event just appended.
StoreAccepted(m, kind, u, base) ==
    processed' = Put(processed, m, [kind |-> kind, user |-> u,
                         outcome |-> "accepted", seq |-> session.seq + 1,
                         base |-> base])

-----------------------------------------------------------------------------
(* collaboration/events.ts *)

\* The event a handler appends for the row `body` it has just written.
EventOf(type, entity, body, m) ==
    [type |-> type, entity |-> entity, version |-> body.version,
     mutation |-> m, body |-> body]

\* Mutant: event_seq stays behind.
AppendEventKeepsSeq(row, e) ==
    /\ session' = row
    /\ events' = Put(events, row.seq + 1, e)

\* appendSessionEvent: one step of event_seq and one row under the new value.
\* `row` is the sessions row as the handler's own UPDATE left it.
AppendEvent(row, e) ==
    /\ session' = [row EXCEPT !.seq = row.seq + 1]
    /\ events' = Put(events, row.seq + 1, e)

\* appendSessionEvent once for each event of the sequence `run`.
AppendRun(run) ==
    /\ session' = [session EXCEPT !.seq = @ + Len(run)]
    /\ events' = PutAll(events, [i \in (session.seq + 1)..(session.seq + Len(run)) |->
                                    run[i - session.seq]])

\* Mutant: the title is the one from before the UPDATE.
SessionBodyOfOldTitle(row, nextDraft) ==
    [version |-> row.version, title |-> session.title, status |-> row.status,
     deleted |-> row.deleted, nextDraft |-> nextDraft]

\* sessionEventDto; nextDraft is the draft version that the event announces
\* when closing discarded the live draft, 0 otherwise.
SessionBodyOf(row, nextDraft) ==
    [version |-> row.version, title |-> row.title, status |-> row.status,
     deleted |-> row.deleted, nextDraft |-> nextDraft]

-----------------------------------------------------------------------------
StoreTypeOK ==
    /\ session \in SessionRow
    /\ IsTable(members, User, MemberRow)
    /\ IsTable(logs, Log, LogRow)
    /\ IsTable(events, Nat, Event)
    /\ IsTable(processed, MutationId, Response)
    /\ IsTable(invites, Invite, InviteRow)

\* An empty database: migrations ran, nobody published the Session yet.
StoreInit ==
    /\ \E u \in User, t \in Text :
          session = [status |-> "absent", deleted |-> FALSE, version |-> 0,
                     title |-> t, owner |-> u, seq |-> 0, minSeq |-> 0,
                     promoted |-> {}]
    /\ members = NoRows
    /\ logs = NoRows
    /\ events = NoRows
    /\ processed = NoRows
    /\ invites = NoRows
=============================================================================
