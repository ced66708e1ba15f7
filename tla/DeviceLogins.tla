---------------------------- MODULE DeviceLogins ----------------------------
(***************************************************************************)
(* What an account's holder does: registering, signing in and out, rotating *)
(* the refresh token, changing the password, ending a device's login, and  *)
(* opening sockets with the tickets a login entitles to.                   *)
(*                                                                         *)
(* The routes for applications (auth-v1) and for browsers (web-auth-v1)    *)
(* share these handlers; what the browser adds is in BrowserLogin.         *)
(***************************************************************************)
EXTENDS LoginStore

NewAccount(role) == [status |-> "active", role |-> role, mustChange |-> FALSE,
                     never |-> FALSE, version |-> 1]

\* POST /bootstrap: the first account is the administrator's.
Bootstrap(u) ==
    /\ accounts = NoRows
    /\ accounts' = Put(accounts, u, NewAccount("admin"))
    /\ SignIn(tokens, u, 1)
    /\ UNCHANGED <<registration, tickets, sockets, resets>>

\* POST /register
Register(u) ==
    /\ accounts # NoRows /\ registration
    /\ u \notin DOMAIN accounts
    /\ accounts' = Put(accounts, u, NewAccount("user"))
    /\ SignIn(tokens, u, 1)
    /\ UNCHANGED <<registration, tickets, sockets, resets>>

\* Mutant: who was given a temporary password signs in with it for good.
MayLogInAnyway(u) == u \in DOMAIN accounts /\ accounts[u].status = "active"

\* verifyCredentials and requireInteractiveLoginAllowed
MayLogIn(u) == MaySignIn(u)

\* POST /login
Login(u) ==
    /\ MayLogIn(u)
    /\ UNCHANGED accounts
    /\ SignIn(tokens, u, accounts[u].version)
    /\ UNCHANGED <<registration, tickets, sockets, resets>>

-----------------------------------------------------------------------------
(* rotateRefreshToken *)

\* The tests before the token's own history is looked at.
RefreshAllowed(t) ==
    /\ t \in DOMAIN tokens
    /\ tokens[t].expiry # "passed"
    /\ tokens[t].version = accounts[tokens[t].user].version
    /\ MaySignIn(tokens[t].user)

JustRotated(t) == RefreshAllowed(t) /\ tokens[t].next # 0 /\ tokens[t].recent

Reused(t) == RefreshAllowed(t) /\ tokens[t].next # 0 /\ ~tokens[t].recent

\* Mutant: a token that was revoked, but never replaced, still rotates.
RotatableThoughRevoked(t) == RefreshAllowed(t) /\ tokens[t].next = 0

Rotatable(t) == RefreshAllowed(t) /\ ~tokens[t].revoked

\* The token is replaced within its family.
Rotate(t) ==
    /\ Rotatable(t)
    /\ UNCHANGED accounts
    /\ LET old == [tokens[t] EXCEPT !.revoked = TRUE, !.recent = TRUE,
                                    !.next = issued + 1, !.expiry = "running"]
       IN  Issue(Put(tokens, t, old), old.user, old.version, old.family)
    /\ UNCHANGED <<registration, tickets, sockets, resets>>

\* Mutant: the sockets of a user whose token was stolen stay open.
RevokeReusedQuietly(t) ==
    /\ Reused(t)
    /\ tokens' = RevokeTokens(UnrevokedOf(tokens[t].user))
    /\ UNCHANGED <<accounts, issued, registration, tickets, sockets, resets>>

\* A replaced token comes back: every login of the account ends.
RevokeReused(t) ==
    /\ Reused(t)
    /\ tokens' = RevokeTokens(UnrevokedOf(tokens[t].user))
    /\ CutUser(tokens[t].user, resets)
    /\ UNCHANGED <<accounts, issued, registration>>

\* Anything else is answered without effect: 401, 403 or, JustRotated, 409.
RefreshRefused(t) == ~Rotatable(t) /\ ~Reused(t)

\* Time passes: 10 s after a rotation, expires_at, and refreshTokenTtlSeconds
\* after the revocation, when the row is as good as an expired one.
GraceEnds(t) ==
    /\ t \in DOMAIN tokens /\ tokens[t].recent
    /\ tokens' = [tokens EXCEPT ![t].recent = FALSE]
    /\ UNCHANGED <<accounts, issued, registration, tickets, sockets, resets>>

\* Of a family the older token never expires after the newer one: a rotated
\* token is given at most refreshTokenTtlSeconds from its rotation.
TokenExpires(t) ==
    /\ t \in DOMAIN tokens
    /\ \A x \in DOMAIN tokens :
          x < t /\ tokens[x].family = tokens[t].family
            => tokens[x].expiry = "passed"
    /\ \/ tokens[t].expiry = "running"
       \/ tokens[t].expiry = "persistent" /\ tokens[t].revoked
    /\ tokens' = [tokens EXCEPT ![t].expiry = "passed", ![t].recent = FALSE]
    /\ UNCHANGED <<accounts, issued, registration, tickets, sockets, resets>>

-----------------------------------------------------------------------------
(* Ending logins *)

\* revokeRefreshToken, POST /logout, with any token of the family; the row is
\* revoked whether or not it is expired.
Logout(t) ==
    /\ t \in DOMAIN tokens
    /\ LET u == tokens[t].user
           family == tokens[t].family
       IN  /\ tokens' = RevokeTokens({x \in UnrevokedOf(u) :
                                         tokens[x].family = family})
           /\ CutFamily(u, family)
    /\ UNCHANGED <<accounts, issued, registration>>

\* DELETE /sessions/:sessionId and /devices/:deviceId, from another device.
RevokeDevice(u, family) ==
    /\ MaySignIn(u)
    /\ Live(u, family)
    /\ tokens' = RevokeTokens({x \in UsableOf(u) : tokens[x].family = family})
    /\ CutFamily(u, family)
    /\ UNCHANGED <<accounts, issued, registration>>

\* Mutant: only the login the change is made from is asked to sign in again.
ChangePasswordHere(u, family) ==
    /\ Authenticated(u, family)
    /\ accounts' = [accounts EXCEPT ![u].version = @ + 1]
    /\ tokens' = RevokeTokens({x \in UsableOf(u) : tokens[x].family = family})
    /\ CutUser(u, resets)
    /\ UNCHANGED <<issued, registration>>

\* PATCH /password and POST /change-password
ChangePassword(u, family) ==
    /\ Authenticated(u, family)
    /\ accounts' = [accounts EXCEPT ![u].version = @ + 1]
    /\ tokens' = RevokeTokens(UsableOf(u))
    /\ CutUser(u, resets)
    /\ UNCHANGED <<issued, registration>>

\* POST /complete-password-change, with the credential that a login with the
\* temporary password was answered with: it names the auth_version, so only one
\* issued since the last change of the account counts.
CompletePasswordChange(u) ==
    /\ u \in DOMAIN accounts
    /\ accounts[u].status = "active" /\ accounts[u].mustChange
    /\ accounts' = [accounts EXCEPT ![u].mustChange = FALSE,
                                    ![u].version = @ + 1]
    /\ SignIn(RevokeTokens(UnrevokedOf(u)), u, accounts[u].version + 1)
    /\ UNCHANGED <<registration, tickets, sockets, resets>>

-----------------------------------------------------------------------------
(* Tickets and sockets *)

\* POST /sessions/:sessionId/ws-ticket and POST /social/ws-ticket
IssueTicket(u, family, k, kind) ==
    /\ Authenticated(u, family)
    /\ k \notin DOMAIN tickets
    /\ tickets' = Put(tickets, k, [user |-> u, family |-> family, kind |-> kind])
    /\ UNCHANGED <<accounts, tokens, issued, registration, sockets, resets>>

\* 60 s pass, or newer tickets of the account push the oldest out.
TicketExpires(k) ==
    /\ k \in DOMAIN tickets
    /\ tickets' = Without(tickets, {k})
    /\ UNCHANGED <<accounts, tokens, issued, registration, sockets, resets>>

\* Mutant: the login behind the ticket is not looked up again.
TicketOfUserOnly(row) == MaySignIn(row.user)

\* memberTicketIsActive, and authorized() of the social hub, as far as the
\* account and its login go.
TicketStands(row) == MaySignIn(row.user) /\ Live(row.user, row.family)

\* The upgrade consumes the ticket.
Connect(k, c) ==
    /\ k \in DOMAIN tickets
    /\ c \notin DOMAIN sockets
    /\ TicketStands(tickets[k])
    /\ tickets' = Without(tickets, {k})
    /\ sockets' = Put(sockets, c, tickets[k])
    /\ UNCHANGED <<accounts, tokens, issued, registration, resets>>

\* The client leaves, does not answer the ping, or its access token expires.
Disconnect(c) ==
    /\ c \in DOMAIN sockets
    /\ sockets' = Without(sockets, {c})
    /\ UNCHANGED <<accounts, tokens, issued, registration, tickets, resets>>

\* Mutant: the heartbeat asks for the account, not for its login.
OutdatedAccount == {c \in DOMAIN sockets : ~MaySignIn(sockets[c].user)}

\* Sockets that memberConnectionIsActive or authorized() refuses.
Outdated == {c \in DOMAIN sockets :
               ~MaySignIn(sockets[c].user) \/ ~Live(sockets[c].user, sockets[c].family)}

\* setInterval(..., HEARTBEAT_INTERVAL_MS)
Heartbeat ==
    /\ Outdated # {}
    /\ sockets' = Without(sockets, Outdated)
    /\ UNCHANGED <<accounts, tokens, issued, registration, tickets, resets>>

StopAndStart ==
    /\ Stopped
    /\ UNCHANGED <<accounts, tokens, issued, registration>>
=============================================================================
