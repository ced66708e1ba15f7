---------------------------- MODULE SharingStore ----------------------------
(***************************************************************************)
(* The tables behind the two other ways into a Session: account shares     *)
(* (account_share_grants, account_share_blocks, session_join_passphrases)  *)
(* and friends (friend_requests, friend_blocks, session_friend_access,     *)
(* session_access_requests), with the membership rows they make.           *)
(*                                                                         *)
(* One Session and its present owner stand for all.  Handlers are single   *)
(* SQLite transactions, so each is one action.  A stored answer only       *)
(* spares a repetition; every action here may be repeated anyway.          *)
(***************************************************************************)
EXTENDS Integers, FiniteSets, FiniteSetsExt, Tables

CONSTANTS
    User,        \* accounts
    Secret,      \* join passphrases
    NoSecret,    \* no row in session_join_passphrases
    Scope,       \* the contents of account_share_grants that are asked for
    MaxPending   \* PENDING_INBOX_CAP, and the limit on pending requests

ASSUME SharingAssumption ==
    /\ NoSecret \notin Secret
    /\ MaxPending \in Nat

VARIABLES
    disabled,      \* accounts that are disabled
    owner,         \* sessions.owner_user_id
    phase,         \* sessions.status, or "deleted"
    members,       \* session_members: User -> row
    grants,        \* account_share_grants: id -> row, ids are 1, 2, ...
    shareBlocks,   \* account_share_blocks: <<blocker, blocked>>
    secret,        \* the passphrase of the Session
    friends,       \* open friend_requests: {sender, recipient} -> row
    friendBlocks,  \* friend_blocks: <<user, blocked>>
    access,        \* session_friend_access of the Session
    requests       \* pending session_access_requests: subject -> row

shareVars == <<grants, shareBlocks, secret>>
socialVars == <<friends, friendBlocks, access, requests>>
sharingVars == <<disabled, owner, phase, members, shareVars, socialVars>>

Guest == {"editor", "viewer"}

\* source is join_source; by says how the present stay really began, which no
\* column records.
MemberRow == [role : Guest \cup {"owner"}, removed : BOOLEAN,
              source : {"invite", "friend", "account_share"}, grant : Nat,
              by : {"invite", "friend", "account_share"}]

\* What a grant shares: include_personal, include_owned, include_editor,
\* can_join_as, all Sessions or selected_sessions_json (this Session as a
\* collaboration row, a personal one), can_edit_logs, can_delete_logs.
ScopeRow == [personal : BOOLEAN, owned : BOOLEAN, editor : BOOLEAN,
             joinAs : Guest \cup {"none"}, all : BOOLEAN,
             selected : SUBSET {"collaboration", "personal"},
             edit : BOOLEAN, delete : BOOLEAN]

ASSUME ScopeAssumption == Scope \subseteq ScopeRow

GrantStatus == {"pending", "accepted", "rejected", "cancelled", "revoked", "expired"}

\* due: expires_at has passed.
GrantRow == [from : User, to : User, status : GrantStatus, scope : ScopeRow, due : BOOLEAN]

FriendRow == [sender : User, status : {"pending", "accepted"}]

Private == [visible |-> FALSE, direct |-> FALSE, role |-> "viewer"]

AccessRow == [visible : BOOLEAN, direct : BOOLEAN, role : Guest]

\* The owner's side of a request is its sender in an invitation, its recipient
\* in an application.
RequestRow == [host : User, kind : {"invitation", "application"}, role : Guest]

Enabled(u) == u \notin disabled
IsMember(u) == u \in DOMAIN members /\ ~members[u].removed
IsOwner(u) == phase # "deleted" /\ IsMember(u) /\ members[u].role = "owner"

NewRow(role, source, g) ==
    [role |-> role, removed |-> FALSE, source |-> source, grant |-> g, by |-> source]

\* The rows table with u joined: INSERT, or the UPDATE of a removed row.
Enter(table, u, role, source, g) == Put(table, u, NewRow(role, source, g))

\* revokeShareMemberships: whom the given grants let in goes, unless retained.
RevokeShareMemberships(table, gs, retained) ==
    [u \in DOMAIN table |->
        IF /\ ~table[u].removed
           /\ table[u].source = "account_share" /\ table[u].grant \in gs
           /\ u \notin retained
        THEN [table[u] EXCEPT !.removed = TRUE]
        ELSE table[u]]

-----------------------------------------------------------------------------
SharingTypeOK ==
    /\ disabled \subseteq User /\ owner \in User
    /\ phase \in {"active", "closed", "deleted"}
    /\ IsTable(members, User, MemberRow)
    /\ grants \in [1..Cardinality(DOMAIN grants) -> GrantRow]
    /\ shareBlocks \subseteq User \X User /\ friendBlocks \subseteq User \X User
    /\ secret \in Secret \cup {NoSecret}
    /\ IsTable(friends, {{a, b} : a, b \in User}, FriendRow)
    /\ access \in AccessRow
    /\ IsTable(requests, User, RequestRow)

SharingInit ==
    /\ disabled = {}
    /\ owner \in User
    /\ phase = "active"
    /\ members = Put(NoRows, owner, NewRow("owner", "invite", 0))
    /\ grants = NoRows /\ shareBlocks = {} /\ secret = NoSecret
    /\ friends = NoRows /\ friendBlocks = {}
    /\ access = Private /\ requests = NoRows
=============================================================================
