--------------------------- MODULE PublicArchives ---------------------------
(***************************************************************************)
(* Public archive lists: named collections of copies of closed Sessions,   *)
(* published without a token.  The Sessions are those of PersonalSnapshots *)
(* and PersonalPromotion, all of one account; the lists may belong to      *)
(* anybody.  Each operation is one transaction.                            *)
(***************************************************************************)
EXTENDS PersonalPromotion

CONSTANTS
    User,
    Account,     \* the account that the Sessions belong to
    Admin,       \* the administrators
    List,        \* list ids
    Alias,       \* normalized aliases, none of them reserved
    NoAlias

ASSUME ArchiveAssumption ==
    /\ Account \in User
    /\ Admin \subseteq User
    /\ NoAlias \notin Alias

VARIABLES
    lists,          \* public_archive_lists with their members, sources and sessions
    aliases,        \* public_archive_aliases: list -> alias
    collaborators,  \* active members of the account's published Sessions, beside it
    deletedUsers,   \* users with deleted_at
    onceClosed      \* ghost: the closed Sessions with their live records, at any time

archiveVars == <<lists, aliases, collaborators, deletedUsers, onceClosed>>

Kind == {"personal", "collaboration"}

ArchiveInit ==
    /\ lists = NoRows
    /\ aliases = NoRows
    /\ collaborators = {}
    /\ deletedUsers = {}
    /\ onceClosed = {}

-----------------------------------------------------------------------------
(* Permissions *)

Exists(i) == i \in DOMAIN lists /\ lists[i].state # "deleted"

\* requireArchiveListOwnerOrAdmin and requireArchiveListManager
ControlsList(u, i) == Exists(i) /\ (u \in Admin \/ u = lists[i].owner)

ManagesList(u, i) == Exists(i) /\ (ControlsList(u, i) \/ u \in lists[i].members)

\* effectiveSourceAccounts
SourceAccounts(i) == lists[i].sources \cup {lists[i].owner}

\* requireArchiveSourceSessionVisible
SourceVisible(u, kind) ==
    \/ u \in Admin
    \/ u = Account
    \/ kind = "collaboration" /\ u \in collaborators

\* sourceSession and validateClosed
SourceClosed(kind, s) ==
    IF kind = "personal"
    THEN StoredIsValid /\ s \in DOMAIN snapshot.sessions /\ snapshot.sessions[s] = "closed"
    ELSE s \in DOMAIN remote /\ remote[s].status = "closed"

SourceLogs(kind, s) ==
    Live(IF kind = "personal" THEN LogsOf(snapshot.logs, s) ELSE remote[s].logs)

\* What can be copied now, by somebody.
ClosedNow ==
    {[kind |-> x[1], session |-> x[2], logs |-> SourceLogs(x[1], x[2])] :
        x \in {y \in Kind \X Session : SourceClosed(y[1], y[2])}}

-----------------------------------------------------------------------------
(* Lists and accounts *)

CreateArchiveList(u, i) ==
    /\ u \notin deletedUsers
    /\ i \notin DOMAIN lists
    /\ lists' = Put(lists, i, [owner |-> u, state |-> "hidden", members |-> {},
                               sources |-> {}, entries |-> NoRows])
    /\ UNCHANGED <<aliases, collaborators, deletedUsers>>

\* addArchiveMember, removeArchiveMember
SetArchiveMember(u, i, x, member) ==
    /\ ControlsList(u, i)
    /\ member => x \notin deletedUsers
    /\ lists' = [lists EXCEPT ![i].members = IF member THEN @ \cup {x} ELSE @ \ {x}]
    /\ UNCHANGED <<aliases, collaborators, deletedUsers>>

\* addArchiveSource, removeArchiveSource
SetArchiveSource(u, i, x, source) ==
    /\ ControlsList(u, i)
    /\ source => x \notin deletedUsers
    /\ lists' = [lists EXCEPT ![i].sources = IF source THEN @ \cup {x} ELSE @ \ {x}]
    /\ UNCHANGED <<aliases, collaborators, deletedUsers>>

\* updatePublication
PublishArchiveList(u, i, published) ==
    /\ ManagesList(u, i)
    /\ published => DOMAIN lists[i].entries # {}
    /\ lists' = [lists EXCEPT ![i].state = IF published THEN "published" ELSE "hidden"]
    /\ UNCHANGED <<aliases, collaborators, deletedUsers>>

SoftDeleteArchiveList(u, i) ==
    /\ ManagesList(u, i)
    /\ lists' = [lists EXCEPT ![i].state = "deleted"]
    /\ UNCHANGED <<aliases, collaborators, deletedUsers>>

\* An alias is of one list and a list has at most one; a deleted list keeps its.
AssignArchiveListAlias(i, alias) ==
    /\ Exists(i)
    /\ \A x \in DOMAIN aliases \ {i} : aliases[x] # alias
    /\ aliases' = Put(aliases, i, alias)
    /\ UNCHANGED <<lists, collaborators, deletedUsers>>

DeleteArchiveListAlias(i) ==
    /\ i \in DOMAIN aliases
    /\ aliases' = Without(aliases, {i})
    /\ UNCHANGED <<lists, collaborators, deletedUsers>>

\* What a deletion of the account looks for.
OwnsPublishedList(u) ==
    \E i \in DOMAIN lists : lists[i].state = "published" /\ lists[i].owner = u

OwnsList(u) == \E i \in DOMAIN lists : Exists(i) /\ lists[i].owner = u

\* DELETE /users/:userId of a disabled account.  The account of the Sessions
\* stays: it owns Sessions.
DeleteOwner(u) ==
    /\ u \notin Admin \cup {Account} \cup deletedUsers
    /\ ~OwnsList(u)
    /\ deletedUsers' = deletedUsers \cup {u}
    /\ UNCHANGED <<lists, aliases, collaborators>>

-----------------------------------------------------------------------------
(* Contents *)

\* The copy kept of a closed Session, at position n.
Copied(kind, s, n) == [order |-> n, logs |-> SourceLogs(kind, s)]

MayCopy(u, i, kind, s) ==
    /\ ManagesList(u, i)
    /\ Account \in SourceAccounts(i)
    /\ SourceVisible(u, kind)
    /\ SourceClosed(kind, s)

CreateArchiveSnapshot(u, i, kind, s) ==
    LET entries == lists[i].entries
    IN  /\ MayCopy(u, i, kind, s)
        /\ <<kind, s>> \notin DOMAIN entries
        /\ lists' = [lists EXCEPT ![i].entries =
              Put(@, <<kind, s>>, Copied(kind, s, Cardinality(DOMAIN entries)))]
        /\ UNCHANGED <<aliases, collaborators, deletedUsers>>

\* The new records over the old ones.
Overlaid(entry, kind, s) ==
    [entry EXCEPT !.logs = [l \in DOMAIN @ \cup DOMAIN SourceLogs(kind, s) |->
        IF l \in DOMAIN SourceLogs(kind, s) THEN SourceLogs(kind, s)[l] ELSE @[l]]]

\* The copy made again in its place.
Refreshed(entry, kind, s) == Copied(kind, s, entry.order)

RefreshArchiveSnapshot(u, i, kind, s) ==
    /\ MayCopy(u, i, kind, s)
    /\ <<kind, s>> \in DOMAIN lists[i].entries
    /\ lists' = [lists EXCEPT ![i].entries[<<kind, s>>] = Refreshed(@, kind, s)]
    /\ UNCHANGED <<aliases, collaborators, deletedUsers>>

RemainingAsTheyWere(entries, e) == Without(entries, {e})

\* The entries but e, numbered from 0 in the order they had.
Remaining(entries, e) ==
    LET rest == Without(entries, {e})
    IN  [x \in DOMAIN rest |->
            [rest[x] EXCEPT !.order =
                Cardinality({y \in DOMAIN rest : rest[y].order < rest[x].order})]]

RemoveArchiveSession(u, i, e) ==
    /\ ManagesList(u, i)
    /\ e \in DOMAIN lists[i].entries
    /\ lists' = [lists EXCEPT ![i].entries = Remaining(@, e)]
    /\ UNCHANGED <<aliases, collaborators, deletedUsers>>

\* The request names all entries, each once.
ReorderArchiveSessions(u, i) ==
    LET entries == lists[i].entries
        n == Cardinality(DOMAIN entries)
    IN  /\ ManagesList(u, i)
        /\ \E position \in Bijection(DOMAIN entries, 0..(n - 1)) :
              lists' = [lists EXCEPT ![i].entries =
                  [e \in DOMAIN entries |-> [entries[e] EXCEPT !.order = position[e]]]]
        /\ UNCHANGED <<aliases, collaborators, deletedUsers>>

-----------------------------------------------------------------------------
(* What happens to the published Sessions, and what visitors see *)

\* mutateSession: a published Session is closed, opened again or deleted.
ChangeRemoteStatus(s, status) ==
    /\ s \in DOMAIN remote
    /\ <<remote[s].status, status>> \in
          {<<"active", "closed">>, <<"closed", "active">>, <<"closed", "deleted">>}
    /\ remote' = [remote EXCEPT ![s].status = status]
    /\ UNCHANGED <<changes, snapshot, copies, seen, originals, accepted>>

\* Somebody joins the account's published Sessions or leaves them.
SetCollaborator(u, joined) ==
    /\ u \in User \ ({Account} \cup deletedUsers)
    /\ collaborators' = IF joined THEN collaborators \cup {u} ELSE collaborators \ {u}
    /\ UNCHANGED <<lists, aliases, deletedUsers>>

PublicLists == {i \in DOMAIN lists : lists[i].state = "published"}

\* GET /public/archive-lists/:listId, also by alias
PublicSessions(i) ==
    {[source |-> e, entry |-> lists[i].entries[e]] : e \in DOMAIN lists[i].entries}
=============================================================================
