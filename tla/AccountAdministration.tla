------------------------ MODULE AccountAdministration ------------------------
(***************************************************************************)
(* What an administrator does to other accounts.  Every command asks for a *)
(* fresh re-authentication (the elevation token names the account and its  *)
(* auth_version) and looks the administrator up again in its transaction.  *)
(*                                                                         *)
(* A repeated Idempotency-Key is answered from processed_mutations, as in  *)
(* SessionStore, and is no step.                                           *)
(***************************************************************************)
EXTENDS LoginStore

\* requireActiveAdminAccess; a matching elevation token can always be had from
\* POST /elevate, which makes the same tests before and after bcrypt.compare.
ActiveAdmin(a, family) == Authenticated(a, family) /\ accounts[a].role = "admin"

\* Mutant: an administrator may demote or disable itself.
ActsOnItself(a, family, u) ==
    /\ ActiveAdmin(a, family)
    /\ u \in DOMAIN accounts /\ accounts[u].status # "deleted"

\* The tests of a command about another account.
ActsOn(a, family, u) ==
    /\ ActiveAdmin(a, family)
    /\ u # a
    /\ u \in DOMAIN accounts /\ accounts[u].status # "deleted"

Admins == {u \in DOMAIN accounts : accounts[u].role = "admin"}

\* PATCH /users/:userId/role; the count is over disabled administrators too.
ChangeRole(a, family, u) ==
    /\ ActsOn(a, family, u)
    /\ accounts[u].role = "admin" => Cardinality(Admins) > 1
    /\ accounts' = [accounts EXCEPT
                      ![u].role = IF @ = "admin" THEN "user" ELSE "admin",
                      ![u].version = @ + 1]
    /\ tokens' = RevokeTokens(UsableOf(u))
    /\ CutUser(u, resets)
    /\ UNCHANGED <<issued, registration>>

\* POST /users/:userId/revoke-refresh-tokens, of the administrator's own too.
RevokeLogins(a, family, u) ==
    /\ ActiveAdmin(a, family)
    /\ u \in DOMAIN accounts /\ accounts[u].status # "deleted"
    /\ accounts' = [accounts EXCEPT ![u].version = @ + 1]
    /\ tokens' = RevokeTokens(UsableOf(u))
    /\ CutUser(u, resets)
    /\ UNCHANGED <<issued, registration>>

\* PATCH /users/:userId/login-expiration
SetLoginExpiration(a, family, u) ==
    /\ ActsOn(a, family, u)
    /\ LET never == ~accounts[u].never
       IN  /\ accounts' = [accounts EXCEPT ![u].never = never]
           /\ tokens' = [t \in DOMAIN tokens |->
                IF t \in UsableOf(u)
                THEN [tokens[t] EXCEPT !.expiry = IF never THEN "persistent"
                                                  ELSE "running"]
                ELSE tokens[t]]
    /\ UNCHANGED <<issued, registration, tickets, sockets, resets>>

\* Mutant: the logins of a disabled account are only suspended.
DisableWithoutRevoking(a, family, u) ==
    /\ ActsOn(a, family, u)
    /\ accounts[u].status = "active"
    /\ accounts' = [accounts EXCEPT ![u].status = "disabled",
                                    ![u].version = @ + 1]
    /\ CutUser(u, resets)
    /\ UNCHANGED <<tokens, issued, registration>>

\* POST /users/:userId/disable
Disable(a, family, u) ==
    /\ ActsOn(a, family, u)
    /\ accounts[u].status = "active"
    /\ accounts[u].role = "admin" =>
          Cardinality({x \in Admins : accounts[x].status = "active"}) > 1
    /\ accounts' = [accounts EXCEPT ![u].status = "disabled",
                                    ![u].version = @ + 1]
    /\ tokens' = RevokeTokens(UsableOf(u))
    /\ CutUser(u, resets)
    /\ UNCHANGED <<issued, registration>>

\* POST /users/:userId/enable
Enable(a, family, u) ==
    /\ ActsOn(a, family, u)
    /\ accounts[u].status = "disabled"
    /\ accounts' = [accounts EXCEPT ![u].status = "active",
                                    ![u].version = @ + 1]
    /\ UNCHANGED <<tokens, issued, registration, tickets, sockets, resets>>

\* DELETE /users/:userId of an account that is disabled and owns nothing; the
\* row stays as a tombstone.  Everything is read after the await.
DeleteAccount(a, family, u) ==
    /\ ActsOn(a, family, u)
    /\ accounts[u].status = "disabled"
    /\ accounts' = [accounts EXCEPT ![u].status = "deleted", ![u].role = "user",
                                    ![u].mustChange = FALSE, ![u].never = FALSE,
                                    ![u].version = @ + 1]
    /\ tokens' = Restrict(tokens, {t \in DOMAIN tokens : tokens[t].user # u})
    /\ CutUser(u, resets)
    /\ UNCHANGED <<issued, registration>>

\* PATCH /settings
SetRegistration(a, family, open) ==
    /\ ActiveAdmin(a, family)
    /\ registration' = open
    /\ UNCHANGED <<accounts, tokens, issued, tickets, sockets, resets>>

-----------------------------------------------------------------------------
(* POST /users/:userId/reset-password: bcrypt.hash is awaited in between *)

BeginReset(a, family, u) ==
    /\ ActiveAdmin(a, family)
    /\ u \in DOMAIN accounts /\ accounts[u].status # "deleted"
    /\ resets' = resets \cup
         {[admin |-> a, family |-> family, asked |-> accounts[a].version,
           user |-> u, expected |-> accounts[u].version]}
    /\ UNCHANGED <<accounts, tokens, issued, registration, tickets, sockets>>

\* The administrator and the account are as they were.
ResetStands(r) ==
    /\ ActiveAdmin(r.admin, r.family)
    /\ accounts[r.admin].version = r.asked
    /\ accounts[r.user].status # "deleted"
    /\ accounts[r.user].version = r.expected

FinishReset(r) ==
    /\ r \in resets
    /\ ResetStands(r)
    /\ accounts' = [accounts EXCEPT ![r.user].mustChange = TRUE,
                                    ![r.user].version = @ + 1]
    /\ tokens' = RevokeTokens(UsableOf(r.user))
    /\ CutUser(r.user, resets \ {r})
    /\ UNCHANGED <<issued, registration>>

\* ACCOUNT_CHANGED, or the administrator may no longer; or the process stops.
AbandonReset(r) ==
    /\ r \in resets
    /\ ~ResetStands(r)
    /\ resets' = resets \ {r}
    /\ UNCHANGED <<accounts, tokens, issued, registration, tickets, sockets>>
=============================================================================
