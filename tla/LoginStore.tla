----------------------------- MODULE LoginStore -----------------------------
(***************************************************************************)
(* Accounts, their refresh tokens, and the tickets and sockets that depend *)
(* on a login.                                                             *)
(*                                                                         *)
(* Refresh tokens are numbered in the order they are issued; an            *)
(* auth_session_id (a login on one device, here a family) is the number of *)
(* its first token.  Expiry is an event of its own, see Accounts.          *)
(***************************************************************************)
EXTENDS Integers, FiniteSets, Tables

CONSTANTS
    User,      \* ids of accounts, registered or not
    Ticket,    \* one-time tickets of both WebSocket routes
    Socket     \* sockets

VARIABLES
    accounts,      \* users
    tokens,        \* refresh_tokens
    issued,        \* how many refresh tokens were ever issued
    registration,  \* server_settings.registration_enabled
    tickets,       \* ws_tickets, and the social tickets, which are in memory
    sockets,       \* the open sockets of both hubs, in memory
    resets         \* reset-password handlers that wait for bcrypt.hash

loginVars == <<accounts, tokens, issued, registration, tickets, sockets, resets>>

AccountRow == [status : {"active", "disabled", "deleted"},
               role : {"admin", "user"},
               mustChange : BOOLEAN,     \* must_change_password
               never : BOOLEAN,          \* login_never_expires
               version : Nat \ {0}]      \* auth_version

TokenRow == [user : User, family : Nat, version : Nat,
             expiry : {"running", "persistent", "passed"},
             revoked : BOOLEAN,
             next : Nat,         \* replaced_by_id, 0 is NULL
             recent : BOOLEAN]   \* rotated_at is at most 10 s old

ResetRow == [admin : User, family : Nat, asked : Nat,   \* admin's auth_version
             user : User, expected : Nat]               \* expectedAuthVersion

TicketRow == [user : User, family : Nat, kind : {"member", "social"}]

-----------------------------------------------------------------------------
(* auth/service.ts *)

\* What every access by a signed-in client asks of the account.
MaySignIn(u) ==
    /\ u \in DOMAIN accounts
    /\ accounts[u].status = "active"
    /\ ~accounts[u].mustChange

\* revoked_at IS NULL AND expires_at > now
Usable(t) == ~tokens[t].revoked /\ tokens[t].expiry # "passed"

\* The login that the access tokens of the family's holder stand for.
Live(u, family) ==
    \E t \in DOMAIN tokens :
        tokens[t].user = u /\ tokens[t].family = family /\ Usable(t)

\* createAccessTokenMiddleware: an access token carries the auth_version and
\* the family it was issued for, and both are looked up again.
Authenticated(u, family) ==
    /\ MaySignIn(u)
    /\ \E t \in DOMAIN tokens :
          /\ tokens[t].user = u /\ tokens[t].family = family
          /\ Usable(t)
          /\ tokens[t].version = accounts[u].version

\* createRefreshToken: rows that are expired are deleted on the way.
Issue(table, u, version, family) ==
    LET kept == {t \in DOMAIN table : table[t].expiry # "passed"}
    IN  /\ tokens' = Put(Restrict(table, kept), issued + 1,
                         [user |-> u, family |-> family, version |-> version,
                          expiry |-> IF accounts'[u].never THEN "persistent"
                                     ELSE "running",
                          revoked |-> FALSE, next |-> 0, recent |-> FALSE])
        /\ issued' = issued + 1

\* A token of a new family.
SignIn(table, u, version) == Issue(table, u, version, issued + 1)

\* UPDATE refresh_tokens SET revoked_at of the chosen rows not revoked yet.
RevokeTokens(chosen) ==
    [t \in DOMAIN tokens |-> IF t \in chosen
                             THEN [tokens[t] EXCEPT !.revoked = TRUE]
                             ELSE tokens[t]]

UsableOf(u) == {t \in DOMAIN tokens : tokens[t].user = u /\ Usable(t)}

UnrevokedOf(u) == {t \in DOMAIN tokens : tokens[t].user = u /\ ~tokens[t].revoked}

-----------------------------------------------------------------------------
(* collaboration/realtime.ts and social/realtime.ts *)

\* The process stops: what is in memory is gone.
Stopped ==
    /\ sockets' = NoRows
    /\ tickets' = Restrict(tickets, {k \in DOMAIN tickets :
                                       tickets[k].kind = "member"})
    /\ resets' = {}

\* revokeUser and revokeAuthSession of both hubs: unused tickets are deleted
\* and sockets closed.
Cut(u, families) ==
    /\ tickets' = Restrict(tickets, {k \in DOMAIN tickets :
                     ~(tickets[k].user = u /\ tickets[k].family \in families)})
    /\ sockets' = Restrict(sockets, {c \in DOMAIN sockets :
                     ~(sockets[c].user = u /\ sockets[c].family \in families)})

\* The hubs are told after the commit; the process may stop in between.
CutUser(u, waiting) == (Cut(u, Nat) /\ resets' = waiting) \/ Stopped

CutFamily(u, family) == (Cut(u, {family}) /\ UNCHANGED resets) \/ Stopped

-----------------------------------------------------------------------------
LoginTypeOK ==
    /\ IsTable(accounts, User, AccountRow)
    /\ IsTable(tokens, 1..issued, TokenRow)
    /\ issued \in Nat
    /\ registration \in BOOLEAN
    /\ IsTable(tickets, Ticket, TicketRow)
    /\ IsTable(sockets, Socket, TicketRow)
    /\ resets \subseteq ResetRow

LoginInit ==
    /\ accounts = NoRows
    /\ tokens = NoRows
    /\ issued = 0
    /\ registration = TRUE
    /\ tickets = NoRows
    /\ sockets = NoRows
    /\ resets = {}
=============================================================================
