---------------------------- MODULE BrowserLogin ----------------------------
(***************************************************************************)
(* The portal in one browser: its tabs share the HttpOnly refresh cookie,  *)
(* each keeps the account it is signed in as, and a request that is        *)
(* answered 401 refreshes the login and is sent once more.                 *)
(***************************************************************************)
EXTENDS DeviceLogins

CONSTANTS
    Tab,
    Nobody,     \* no account
    NoCookie,
    WebLocks    \* navigator.locks is available

ASSUME BrowserAssumption ==
    /\ Nobody \notin User
    /\ NoCookie = 0
    /\ WebLocks \in BOOLEAN

VARIABLES
    cookie,   \* olt_web_refresh
    tabs,     \* the state of each tab's api.ts
    refresh,  \* each tab's refreshAccess
    lost,     \* an answer to a refresh did not arrive
    alarms,   \* the server took a refresh for theft
    served    \* the request last sent again: who asked, and as whom it was sent

browserVars == <<cookie, tabs, refresh, lost, alarms, served>>

\* authAccountId, and _authAccountId of the request that waits for a refresh.
TabRow == [account : User \cup {Nobody}, request : User \cup {Nobody}]

\* A call of refreshAccess: what the request carries or its answer brings, and
\* whether the tab is still of the authGeneration that called.
RefreshRow == [step : {"idle", "wait", "sent", "answered"}, carries : Nat,
               answer : {"none", "ok", "rotated", "invalid"}, retried : BOOLEAN,
               current : BOOLEAN]

Idle == [step |-> "idle", carries |-> NoCookie, answer |-> "none",
         retried |-> FALSE, current |-> TRUE]

\* Refresh tokens that only this browser sends: they are in its HttpOnly cookie
\* or in an exchange under way.
InBrowser == {cookie} \cup {refresh[tab].carries : tab \in Tab}

\* publishAuth; a new account makes the requests of the old one stale.
Publish(tab, u) ==
    tabs' = [tabs EXCEPT ![tab].account = u, ![tab].request = Nobody]

\* clearAuth also gives up a refresh under way: one that was not sent never
\* will be, the answer to another only leaves its cookie behind.
NewGeneration(tab, u) ==
    /\ Publish(tab, u)
    /\ refresh' = [refresh EXCEPT ![tab] =
                     IF @.step \in {"idle", "wait"} THEN Idle
                     ELSE [@ EXCEPT !.current = FALSE]]

-----------------------------------------------------------------------------
(* web/src/api.ts *)

\* A request of a signed-in tab is answered 401: its access token expired, or
\* the login behind it ended.
RequestUnauthorized(tab) ==
    /\ tabs[tab].account # Nobody
    /\ refresh[tab] = Idle
    /\ tabs' = [tabs EXCEPT ![tab].request = tabs[tab].account]
    /\ refresh' = [refresh EXCEPT ![tab].step = "wait"]
    /\ UNCHANGED <<loginVars, cookie, lost, alarms, served>>

\* Mutant: the tabs do not wait for each other.
MaySendAtOnce(tab) == refresh[tab].step = "wait"

\* requestRefreshAcrossTabs: the lock openlogtool.web.refresh is held from
\* before the first attempt until after the second.
MaySend(tab) ==
    /\ refresh[tab].step = "wait"
    /\ (WebLocks /\ ~refresh[tab].retried) =>
          \A other \in Tab \ {tab} :
              \/ refresh[other].step = "idle"
              \/ refresh[other].step = "wait" /\ ~refresh[other].retried

SendRefresh(tab) ==
    /\ MaySend(tab)
    /\ refresh' = [refresh EXCEPT ![tab].step = "sent", ![tab].carries = cookie]
    /\ UNCHANGED <<loginVars, cookie, tabs, lost, alarms, served>>

\* The server answers a refresh: POST /web-auth/refresh.
Answer(tab, answer, carries) ==
    refresh' = [refresh EXCEPT ![tab].step = "answered", ![tab].answer = answer,
                               ![tab].carries = carries]

AnswerRefresh(tab) ==
    LET t == refresh[tab].carries IN
    /\ refresh[tab].step = "sent"
    /\ \/ /\ Rotate(t)
          /\ Answer(tab, "ok", issued + 1)
          /\ UNCHANGED alarms
       \/ /\ RevokeReused(t)
          /\ Answer(tab, "invalid", NoCookie)
          /\ alarms' = TRUE
       \/ /\ RefreshRefused(t)
          /\ IF JustRotated(t) THEN Answer(tab, "rotated", t)
                               ELSE Answer(tab, "invalid", NoCookie)
          /\ UNCHANGED <<loginVars, alarms>>
    /\ UNCHANGED <<cookie, tabs, lost, served>>

\* Who the cookie an answer brought signs in.
Holder(t) == IF t \in DOMAIN tokens THEN tokens[t].user ELSE Nobody

\* Mutant: the request is sent with whatever token the tab has now.
MayResendAsAnyone(tab, u) == tabs[tab].request # Nobody

\* assertRequestAccount after refreshAccess
MayResend(tab, u) == tabs[tab].request # Nobody /\ tabs[tab].request = u

\* The answer arrives: the browser stores the cookie, the tab publishes the
\* session and sends its request again, waits for its one retry, or signs out.
ReceiveAnswer(tab) ==
    LET r == refresh[tab]
        u == Holder(r.carries) IN
    /\ r.step = "answered"
    /\ cookie' = IF r.answer = "rotated" THEN cookie ELSE r.carries
    /\ CASE ~r.current ->
              /\ refresh' = [refresh EXCEPT ![tab] = Idle]
              /\ UNCHANGED <<tabs, served>>
         [] r.current /\ r.answer = "ok" /\ u # Nobody ->
              /\ Publish(tab, u)
              /\ served' = IF MayResend(tab, u)
                           THEN [asked |-> tabs[tab].request, sent |-> u]
                           ELSE served
              /\ refresh' = [refresh EXCEPT ![tab] = Idle]
         [] r.current /\ r.answer = "rotated" /\ ~r.retried ->
              /\ refresh' = [refresh EXCEPT ![tab] =
                               [Idle EXCEPT !.step = "wait", !.retried = TRUE]]
              /\ UNCHANGED <<tabs, served>>
         [] OTHER ->
              /\ Publish(tab, Nobody)
              /\ refresh' = [refresh EXCEPT ![tab] = Idle]
              /\ UNCHANGED served
    /\ UNCHANGED <<loginVars, lost, alarms>>

\* The connection breaks after the server answered, or the answer takes longer
\* than the 20 s of the client.
LoseAnswer(tab) ==
    /\ refresh[tab].step = "answered"
    /\ refresh' = [refresh EXCEPT ![tab] = Idle]
    /\ IF refresh[tab].current THEN Publish(tab, Nobody) ELSE UNCHANGED tabs
    /\ lost' = TRUE
    /\ UNCHANGED <<loginVars, cookie, alarms, served>>

\* authenticate: clearAuth, POST /web-auth/login, and the new session.
SignInTab(tab, u) ==
    /\ Login(u)
    /\ cookie' = issued + 1
    /\ NewGeneration(tab, u)
    /\ UNCHANGED <<lost, alarms, served>>

\* POST /web-auth/logout, with the cookie only; clearAuth in this tab.
SignOutTab(tab) ==
    /\ IF cookie \in DOMAIN tokens THEN Logout(cookie) ELSE UNCHANGED loginVars
    /\ cookie' = NoCookie
    /\ NewGeneration(tab, Nobody)
    /\ UNCHANGED <<lost, alarms, served>>

BrowserStep ==
    \E tab \in Tab :
        \/ RequestUnauthorized(tab)
        \/ SendRefresh(tab)
        \/ AnswerRefresh(tab)
        \/ ReceiveAnswer(tab)
        \/ LoseAnswer(tab)
        \/ \E u \in User : SignInTab(tab, u)
        \/ SignOutTab(tab)

BrowserInit ==
    /\ cookie = NoCookie
    /\ tabs = [tab \in Tab |-> [account |-> Nobody, request |-> Nobody]]
    /\ refresh = [tab \in Tab |-> Idle]
    /\ lost = FALSE
    /\ alarms = FALSE
    /\ served = [asked |-> Nobody, sent |-> Nobody]
=============================================================================
