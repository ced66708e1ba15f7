------------------------------ MODULE Accounts ------------------------------
(***************************************************************************)
(* Accounts, their administration, their logins on devices and in a        *)
(* browser, and the sockets that a login opened.                           *)
(***************************************************************************)
EXTENDS AccountAdministration, BrowserLogin

vars == <<loginVars, browserVars>>

Init == LoginInit /\ BrowserInit

AdminStep ==
    \E a, u \in User, family \in 1..issued :
        \/ ChangeRole(a, family, u)
        \/ RevokeLogins(a, family, u)
        \/ SetLoginExpiration(a, family, u)
        \/ Disable(a, family, u)
        \/ Enable(a, family, u)
        \/ DeleteAccount(a, family, u)
        \/ BeginReset(a, family, u)
        \/ \E open \in BOOLEAN : SetRegistration(a, family, open)

ResetStep == \E r \in resets : FinishReset(r) \/ AbandonReset(r)

AccountStep ==
    \E u \in User :
        Bootstrap(u) \/ Register(u) \/ Login(u) \/ CompletePasswordChange(u)

LoginStep ==
    \/ \E u \in User, family \in 1..issued :
          RevokeDevice(u, family) \/ ChangePassword(u, family)
    \/ \E t \in DOMAIN tokens \ InBrowser : Rotate(t) \/ RevokeReused(t) \/ Logout(t)

TimeStep == \E t \in DOMAIN tokens : GraceEnds(t) \/ TokenExpires(t)

SocketStep ==
    \/ \E u \in User, family \in 1..issued, k \in Ticket, kind \in {"member", "social"} :
          IssueTicket(u, family, k, kind)
    \/ \E k \in Ticket : TicketExpires(k) \/ \E c \in Socket : Connect(k, c)
    \/ \E c \in Socket : Disconnect(c)
    \/ Heartbeat
    \/ StopAndStart

\* Everything but the browser.
ServerStep ==
    \/ AdminStep \/ ResetStep
    \/ AccountStep \/ LoginStep \/ TimeStep \/ SocketStep

Next == (ServerStep /\ UNCHANGED browserVars) \/ BrowserStep

\* setInterval keeps calling the heartbeat; nobody has to call anything else.
Fairness == WF_vars(Heartbeat /\ UNCHANGED browserVars)

Spec == Init /\ [][Next]_vars /\ Fairness

-----------------------------------------------------------------------------
(* Safety *)

\* All variables have the types of the code (LoginStore, BrowserLogin).
TypeOK ==
    /\ LoginTypeOK
    /\ cookie \in 0..issued
    /\ tabs \in [Tab -> TabRow]
    /\ refresh \in [Tab -> RefreshRow]
    /\ lost \in BOOLEAN /\ alarms \in BOOLEAN
    /\ served \in [asked : User \cup {Nobody}, sent : User \cup {Nobody}]

\* Once the server is bootstrapped there is always an administrator who is
\* neither disabled nor deleted, whatever administrators do to each other.
AnAdminRemains ==
    accounts # NoRows =>
        \E u \in DOMAIN accounts :
            accounts[u].role = "admin" /\ accounts[u].status = "active"

\* A refresh token that still works is of an account that may sign in and of
\* its present auth_version, and is the only such token of its login: no
\* order of disabling, resets, role changes, password changes and rotations
\* leaves one behind.
LoginsFitAccounts ==
    \A t \in DOMAIN tokens : Usable(t) =>
        /\ MaySignIn(tokens[t].user)
        /\ tokens[t].version = accounts[tokens[t].user].version
        /\ \A x \in DOMAIN tokens :
              Usable(x) /\ tokens[x].family = tokens[t].family => x = t

\* An open socket is of an account that may sign in, and its login was not
\* ended by anybody: a stop between the commit and the hubs, which leaves the
\* tickets of the ended login behind, does not let it come back.
SocketsFollowLogins ==
    \A c \in DOMAIN sockets :
        /\ MaySignIn(sockets[c].user)
        /\ \A t \in DOMAIN tokens :
              tokens[t].family = sockets[c].family /\ tokens[t].revoked
                => tokens[t].next # 0

\* A login that ended, by logout, revocation or expiry, never works again, even
\* with a token of it that was replaced or is still under way.
EndedLoginsStayEnded ==
    [][\A family \in 1..issued, u \in User : ~Live(u, family) => ~Live(u, family)']_vars

\* With one lock for all tabs, the server takes a refresh of the browser for
\* theft, and signs the account out everywhere, only if an answer was lost.
OnlyLossRaisesAlarm == (WebLocks /\ alarms) => lost

\* A request that waited for a refresh is sent again only as the account that
\* made it, although all tabs share one cookie.
RetriesKeepTheirAccount == served.asked = served.sent

-----------------------------------------------------------------------------
(* Liveness *)

LoginGone(c) ==
    /\ c \in DOMAIN sockets
    /\ ~MaySignIn(sockets[c].user) \/ ~Live(sockets[c].user, sockets[c].family)

\* A socket whose login expired, which no hub is told of, is closed.
DeadSocketsAreClosed == \A c \in Socket : LoginGone(c) ~> ~LoginGone(c)
=============================================================================
