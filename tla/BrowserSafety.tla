---------------------------- MODULE BrowserSafety ----------------------------
(***************************************************************************)
(* The browser's side: what its tabs and the cookie carry was issued by    *)
(* the server, one lock for all tabs keeps their refreshes apart, and a    *)
(* request is sent again as the account that made it.                      *)
(***************************************************************************)
EXTENDS AccountsSafety

Account == User \cup {Nobody}

\* The browser's part of TypeOK, and tokens that were issued.
BrowserInv ==
    /\ cookie \in 0..issued
    /\ tabs \in [Tab -> TabRow]
    /\ refresh \in [Tab -> RefreshRow]
    /\ lost \in BOOLEAN /\ alarms \in BOOLEAN
    /\ served \in [asked : Account, sent : Account]
    /\ \A tab \in Tab : refresh[tab].carries \in 0..issued

\* Tokens are only added to the count.
LEMMA IssuedGrows ==
    ASSUME LoginInv, [Next]_vars
    PROVE  issued \in Nat /\ issued' \in {issued, issued + 1}
<1>1. issued \in Nat
  BY DEF LoginInv, LoginTypeOK
<1>2. CASE AdminStep
  <2>1. UNCHANGED issued
    BY <1>2 DEF AdminStep, ChangeRole, RevokeLogins, SetLoginExpiration, Disable,
       Enable, DeleteAccount, BeginReset, SetRegistration
  <2>. QED
    BY <1>1, <2>1
<1>3. CASE ResetStep \/ TimeStep \/ SocketStep \/ UNCHANGED loginVars
  <2>1. UNCHANGED issued
    BY <1>3 DEF ResetStep, FinishReset, AbandonReset, TimeStep, GraceEnds,
       TokenExpires, SocketStep, IssueTicket, TicketExpires, Connect, Disconnect,
       Heartbeat, StopAndStart, loginVars
  <2>. QED
    BY <1>1, <2>1
<1>4. CASE AccountStep
  <2>1. issued' = issued + 1
    BY <1>4 DEF AccountStep, Bootstrap, Register, Login, CompletePasswordChange, SignIn,
       Issue
  <2>. QED
    BY <1>1, <2>1
<1>5. CASE AnyLoginStep
  <2>1. \/ UNCHANGED issued
        \/ \E t : Rotate(t)
    BY <1>5 DEF AnyLoginStep, RevokeDevice, ChangePassword, RevokeReused, Logout
  <2>2. UNCHANGED issued \/ issued' = issued + 1
    BY <2>1 DEF Rotate, Issue
  <2>. QED
    BY <1>1, <2>2
<1>. QED
  BY <1>1, <1>2, <1>3, <1>4, <1>5, StepOfServer

\* A tab without a refresh.
LEMMA IdleRow == Idle \in RefreshRow /\ Idle.carries = 0
BY BrowserAssumption DEF Idle, RefreshRow

\* A tab's refresh is replaced by a row that carries an issued token.
LEMMA RefreshWritten ==
    ASSUME BrowserInv, issued \in Nat, issued' \in {issued, issued + 1},
           NEW tab \in Tab, NEW row \in RefreshRow, row.carries \in 0..issued',
           refresh' = [refresh EXCEPT ![tab] = row]
    PROVE  /\ refresh' \in [Tab -> RefreshRow]
           /\ \A x \in Tab : refresh'[x].carries \in 0..issued'
<1>1. \A x \in Tab : refresh'[x] = IF x = tab THEN row ELSE refresh[x]
  BY DEF BrowserInv
<1>. QED
  BY <1>1 DEF BrowserInv

\* publishAuth.
LEMMA PublishKeepsTabs ==
    ASSUME BrowserInv, NEW tab \in Tab, NEW u \in Account, Publish(tab, u)
    PROVE  tabs' \in [Tab -> TabRow]
BY DEF BrowserInv, Publish, TabRow, Account

\* publishAuth and clearAuth's end of the refresh under way.
LEMMA NewGenerationKeepsTypes ==
    ASSUME BrowserInv, issued \in Nat, issued' \in {issued, issued + 1},
           NEW tab \in Tab, NEW u \in Account, NewGeneration(tab, u)
    PROVE  /\ tabs' \in [Tab -> TabRow]
           /\ refresh' \in [Tab -> RefreshRow]
           /\ \A x \in Tab : refresh'[x].carries \in 0..issued'
<1>1. tabs' \in [Tab -> TabRow]
  BY PublishKeepsTabs DEF NewGeneration
<1>. DEFINE row == IF refresh[tab].step \in {"idle", "wait"} THEN Idle
                   ELSE [refresh[tab] EXCEPT !.current = FALSE]
<1>2. refresh' = [refresh EXCEPT ![tab] = row]
  BY DEF NewGeneration
<1>3. row \in RefreshRow /\ row.carries \in 0..issued'
  <2>1. Idle \in RefreshRow /\ Idle.carries = 0
    BY IdleRow
  <2>2. refresh[tab] \in RefreshRow /\ refresh[tab].carries \in 0..issued'
    BY DEF BrowserInv
  <2>3. /\ [refresh[tab] EXCEPT !.current = FALSE] \in RefreshRow
        /\ [refresh[tab] EXCEPT !.current = FALSE].carries = refresh[tab].carries
    BY <2>2 DEF RefreshRow
  <2>. QED
    BY <2>1, <2>2, <2>3
<1>. HIDE DEF row
<1>. QED
  BY <1>1, <1>2, <1>3, RefreshWritten

\* The rows a tab's refresh goes through.
LEMMA RefreshRows ==
    ASSUME BrowserInv, NEW tab \in Tab
    PROVE  /\ refresh[tab] \in RefreshRow
           /\ [refresh[tab] EXCEPT !.step = "wait"] \in RefreshRow
           /\ [refresh[tab] EXCEPT !.step = "wait"].carries = refresh[tab].carries
           /\ [refresh[tab] EXCEPT !.step = "sent", !.carries = cookie] \in RefreshRow
           /\ [refresh[tab] EXCEPT !.step = "sent", !.carries = cookie].carries = cookie
           /\ [Idle EXCEPT !.step = "wait", !.retried = TRUE] \in RefreshRow
           /\ [Idle EXCEPT !.step = "wait", !.retried = TRUE].carries = 0
<1>1. refresh[tab] \in RefreshRow /\ cookie \in Nat
  BY DEF BrowserInv
<1>2. Idle \in RefreshRow /\ Idle.carries = 0
  BY IdleRow
<1>. QED
  BY <1>1, <1>2 DEF RefreshRow

\* The portal's handlers.
LEMMA BrowserStepKeepsTypes ==
    ASSUME LoginInv, BrowserInv, BrowserStep
    PROVE  BrowserInv'
<1>1. issued \in Nat /\ issued' \in {issued, issued + 1}
  BY IssuedGrows DEF Next
<1>2. PICK tab \in Tab :
         \/ RequestUnauthorized(tab) \/ SendRefresh(tab) \/ AnswerRefresh(tab)
         \/ ReceiveAnswer(tab) \/ LoseAnswer(tab)
         \/ \E u \in User : SignInTab(tab, u)
         \/ SignOutTab(tab)
  BY DEF BrowserStep
<1>3. /\ cookie \in 0..issued' /\ refresh[tab].carries \in 0..issued'
      /\ tabs[tab] \in TabRow
  BY <1>1 DEF BrowserInv
<1>4. ASSUME NEW row \in RefreshRow, row.carries \in 0..issued',
             refresh' = [refresh EXCEPT ![tab] = row],
             cookie' \in 0..issued', tabs' \in [Tab -> TabRow],
             lost' \in BOOLEAN, alarms' \in BOOLEAN,
             served' \in [asked : Account, sent : Account]
      PROVE  BrowserInv'
  BY <1>1, <1>4, RefreshWritten DEF BrowserInv
<1>5. CASE RequestUnauthorized(tab)
  <2>1. tabs' \in [Tab -> TabRow]
    BY <1>3, <1>5 DEF RequestUnauthorized, BrowserInv, TabRow
  <2>. DEFINE row == [refresh[tab] EXCEPT !.step = "wait"]
  <2>2. /\ refresh' = [refresh EXCEPT ![tab] = row]
        /\ UNCHANGED <<cookie, lost, alarms, served>>
    BY <1>5 DEF RequestUnauthorized
  <2>3. row \in RefreshRow /\ row.carries \in 0..issued'
    BY <1>3, RefreshRows
  <2>4. /\ cookie' \in 0..issued' /\ lost' \in BOOLEAN /\ alarms' \in BOOLEAN
        /\ served' \in [asked : Account, sent : Account]
    BY <1>3, <2>2 DEF BrowserInv
  <2>. HIDE DEF row
  <2>. QED
    BY <1>4, <2>1, <2>2, <2>3, <2>4
<1>6. CASE SendRefresh(tab)
  <2>1. /\ refresh' = [refresh EXCEPT
                         ![tab] = [refresh[tab] EXCEPT !.step = "sent", !.carries = cookie]]
        /\ UNCHANGED <<cookie, tabs, lost, alarms, served>>
    BY <1>6 DEF SendRefresh
  <2>. QED
    BY <1>3, <1>4, <2>1, RefreshRows DEF BrowserInv
<1>7. CASE AnswerRefresh(tab)
  <2>1. PICK answer \in {"ok", "rotated", "invalid"}, t \in 0..issued' :
           Answer(tab, answer, t)
    <3>1. \A t : Rotate(t) => issued' = issued + 1
      BY DEF Rotate, Issue
    <3>2. /\ issued' = issued + 1 => issued + 1 \in 0..issued'
          /\ NoCookie \in 0..issued'
      BY <1>1, BrowserAssumption
    <3>. QED
      BY <1>3, <1>7, <3>1, <3>2 DEF AnswerRefresh
  <2>2. /\ UNCHANGED <<cookie, tabs, lost, served>>
        /\ alarms' \in BOOLEAN
    BY <1>7 DEF AnswerRefresh, BrowserInv
  <2>. DEFINE row == [refresh[tab] EXCEPT !.step = "answered", !.answer = answer,
                                          !.carries = t]
  <2>3. refresh' = [refresh EXCEPT ![tab] = row]
    BY <2>1 DEF Answer
  <2>4. row \in RefreshRow /\ row.carries = t
    <3>1. t \in Nat /\ answer \in {"ok", "rotated", "invalid"}
      BY <1>1, <2>1
    <3>2. refresh[tab] \in RefreshRow
      BY RefreshRows
    <3>. QED
      BY <3>1, <3>2 DEF RefreshRow
  <2>. HIDE DEF row
  <2>. QED
    BY <1>3, <1>4, <2>1, <2>2, <2>3, <2>4 DEF BrowserInv
<1>8. CASE ReceiveAnswer(tab)
  <2>. DEFINE u == Holder(refresh[tab].carries)
              again == [Idle EXCEPT !.step = "wait", !.retried = TRUE]
  <2>1. u \in Account
    BY DEF Holder, Account, LoginInv, LoginTypeOK, IsTable, TokenRow
  <2>2. /\ cookie' \in 0..issued'
        /\ UNCHANGED <<lost, alarms>>
        /\ \/ refresh' = [refresh EXCEPT ![tab] = Idle]
           \/ refresh' = [refresh EXCEPT ![tab] = again]
        /\ UNCHANGED tabs \/ Publish(tab, u) \/ Publish(tab, Nobody)
    BY <1>3, <1>8 DEF ReceiveAnswer
  <2>3. served' \in [asked : Account, sent : Account]
    <3>1. served' = served \/ served' = [asked |-> tabs[tab].request, sent |-> u]
      BY <1>8 DEF ReceiveAnswer
    <3>. QED
      BY <1>3, <2>1, <3>1 DEF BrowserInv, TabRow, Account
  <2>. HIDE DEF u, again
  <2>4. tabs' \in [Tab -> TabRow]
    BY <2>1, <2>2, PublishKeepsTabs DEF BrowserInv, Account
  <2>5. /\ again \in RefreshRow /\ again.carries \in 0..issued'
        /\ Idle \in RefreshRow /\ Idle.carries \in 0..issued'
    <3>1. 0 \in 0..issued'
      BY <1>1
    <3>2. again \in RefreshRow /\ again.carries = 0
      BY RefreshRows DEF again
    <3>. QED
      BY <3>1, <3>2, IdleRow
  <2>. QED
    BY <1>4, <2>2, <2>3, <2>4, <2>5 DEF BrowserInv
<1>9. CASE LoseAnswer(tab)
  <2>1. /\ refresh' = [refresh EXCEPT ![tab] = Idle]
        /\ UNCHANGED tabs \/ Publish(tab, Nobody)
        /\ lost' = TRUE /\ UNCHANGED <<cookie, alarms, served>>
    BY <1>9 DEF LoseAnswer
  <2>2. tabs' \in [Tab -> TabRow]
    BY <2>1, PublishKeepsTabs DEF BrowserInv, Account
  <2>3. Idle \in RefreshRow /\ Idle.carries \in 0..issued'
    BY <1>1, IdleRow
  <2>. QED
    BY <1>3, <1>4, <2>1, <2>2, <2>3 DEF BrowserInv
<1>10. CASE \/ \E u \in User : SignInTab(tab, u)
            \/ SignOutTab(tab)
  <2>1. /\ \E u \in Account : NewGeneration(tab, u)
        /\ UNCHANGED <<lost, alarms, served>>
    BY <1>10 DEF SignInTab, SignOutTab, Account
  <2>2. cookie' \in 0..issued'
    <3>1. \A u : Login(u) => issued' = issued + 1
      BY DEF Login, SignIn, Issue
    <3>2. \/ cookie' = NoCookie
          \/ cookie' = issued + 1 /\ issued' = issued + 1
      BY <1>10, <3>1 DEF SignInTab, SignOutTab
    <3>. QED
      BY <1>1, <3>2, BrowserAssumption
  <2>. QED
    BY <1>1, <2>1, <2>2, NewGenerationKeepsTypes DEF BrowserInv
<1>. QED
  BY <1>2, <1>5, <1>6, <1>7, <1>8, <1>9, <1>10

\* What a tab or the cookie carries was issued.
LEMMA BrowserInvariant == Spec => []BrowserInv
<1>1. Init => BrowserInv
  <2>. SUFFICES ASSUME Init
                PROVE  BrowserInv
    OBVIOUS
  <2>1. issued = 0 /\ cookie = 0
    BY BrowserAssumption DEF Init, LoginInit, BrowserInit
  <2>2. refresh \in [Tab -> RefreshRow] /\ \A tab \in Tab : refresh[tab].carries = 0
    BY IdleRow DEF Init, BrowserInit
  <2>3. tabs \in [Tab -> TabRow] /\ served \in [asked : Account, sent : Account]
    BY DEF Init, BrowserInit, TabRow, Account
  <2>4. lost \in BOOLEAN /\ alarms \in BOOLEAN
    BY DEF Init, BrowserInit
  <2>. QED
    BY <2>1, <2>2, <2>3, <2>4 DEF BrowserInv
<1>2. LoginInv /\ BrowserInv /\ [Next]_vars => BrowserInv'
  <2>. SUFFICES ASSUME LoginInv, BrowserInv, [Next]_vars
                PROVE  BrowserInv'
    OBVIOUS
  <2>1. issued \in Nat /\ issued' \in {issued, issued + 1}
    BY IssuedGrows
  <2>2. CASE UNCHANGED browserVars
    BY <2>1, <2>2 DEF browserVars, BrowserInv
  <2>. QED
    BY <2>2, BrowserStepKeepsTypes DEF Next, vars
<1>. QED
  BY <1>1, <1>2, LoginInvariant, PTL DEF Spec

\* Every variable has its type; what a tab or the cookie carries was issued.
THEOREM TypeCorrect == Spec => []TypeOK
<1>1. LoginInv /\ BrowserInv => TypeOK
  BY DEF TypeOK, LoginInv, BrowserInv, Account
<1>. QED
  BY <1>1, LoginInvariant, BrowserInvariant, PTL

-----------------------------------------------------------------------------
(* Which tokens a step replaces *)

NotReplaced(t) == t \in DOMAIN tokens => tokens[t].next = 0

\* A step that replaces no token but those of T.
ReplacesOnly(T) ==
    \A t \in DOMAIN tokens' : t \notin T =>
        \/ t = issued + 1 /\ tokens'[t].next = 0
        \/ t \in DOMAIN tokens /\ tokens'[t].next = tokens[t].next

\* What was not replaced is not replaced by a step that leaves it alone.
LEMMA StaysUnreplaced ==
    ASSUME LoginInv, LoginInv', NEW T, ReplacesOnly(T),
           NEW t \in 0..issued, t \notin T, NotReplaced(t)
    PROVE  NotReplaced(t)'
BY DEF LoginInv, LoginTypeOK, IsTable, ReplacesOnly, NotReplaced

\* Revoking replaces nothing.
LEMMA RevokingReplacesNone ==
    ASSUME LoginInv, NEW S, tokens' = RevokeTokens(S) \/ UNCHANGED tokens
    PROVE  ReplacesOnly({})
<1>1. CASE tokens' = RevokeTokens(S)
  BY <1>1, RevokedRows DEF LoginInv, ReplacesOnly
<1>2. CASE UNCHANGED tokens
  BY <1>2 DEF ReplacesOnly
<1>. QED
  BY <1>1, <1>2

\* Nor does a token of a new login.
LEMMA SigningInReplacesNone ==
    ASSUME LoginInv, AccountStep
    PROVE  ReplacesOnly({})
<1>1. LoginTypeOK
  BY DEF LoginInv
<1>2. PICK u \in User :
         Bootstrap(u) \/ Register(u) \/ Login(u) \/ CompletePasswordChange(u)
  BY DEF AccountStep
<1>3. PICK version \in Nat, family \in Nat, S \in SUBSET DOMAIN tokens :
         \/ Issue(tokens, u, version, family)
         \/ Issue(RevokeTokens(S), u, version, family)
  <2>1. issued + 1 \in Nat
    BY <1>1 DEF LoginTypeOK
  <2>2. CASE Bootstrap(u) \/ Register(u)
    BY <2>1, <2>2 DEF Bootstrap, Register, SignIn
  <2>3. CASE Login(u)
    <3>1. accounts[u].version \in Nat
      BY <1>1, <2>3, AccountRows DEF Login, MayLogIn, MaySignIn, AccountRow
    <3>. QED
      BY <2>1, <2>3, <3>1 DEF Login, SignIn
  <2>4. CASE CompletePasswordChange(u)
    <3>1. u \in DOMAIN accounts
      BY <2>4 DEF CompletePasswordChange
    <3>2. accounts[u].version + 1 \in Nat
      BY <1>1, <3>1, AccountRows DEF AccountRow
    <3>. QED
      BY <2>1, <2>4, <3>2 DEF CompletePasswordChange, SignIn, UnrevokedOf
  <2>. QED
    BY <1>2, <2>2, <2>3, <2>4
<1>4. ASSUME NEW table, IsTable(table, 1..issued, TokenRow),
             \A t \in DOMAIN table : t \in DOMAIN tokens /\ table[t].next = tokens[t].next,
             Issue(table, u, version, family)
      PROVE  ReplacesOnly({})
  BY <1>1, <1>4, IssuedRows DEF LoginTypeOK, ReplacesOnly
<1>5. CASE Issue(tokens, u, version, family)
  BY <1>1, <1>4, <1>5 DEF LoginTypeOK
<1>6. CASE Issue(RevokeTokens(S), u, version, family)
  BY <1>1, <1>4, <1>6, RevokedRows
<1>. QED
  BY <1>3, <1>5, <1>6

\* rotateRefreshToken replaces the token it is called with.
LEMMA RotateReplaces ==
    ASSUME LoginInv, NEW t \in DOMAIN tokens, Rotate(t)
    PROVE  ReplacesOnly({t})
<1>. DEFINE old == [tokens[t] EXCEPT !.revoked = TRUE, !.recent = TRUE,
                                     !.next = issued + 1, !.expiry = "running"]
            table == Put(tokens, t, old)
<1>1. /\ LoginTypeOK /\ issued \in Nat
      /\ \A x \in DOMAIN tokens : tokens[x] \in TokenRow
  BY DEF LoginInv, LoginTypeOK, IsTable
<1>2. /\ old \in TokenRow
      /\ old.user = tokens[t].user /\ old.version = tokens[t].version
      /\ old.family = tokens[t].family
  <2>. DEFINE next == issued + 1
  <2>1. next \in Nat
    BY <1>1
  <2>2. old = [tokens[t] EXCEPT !.revoked = TRUE, !.recent = TRUE,
                                !.next = next, !.expiry = "running"]
    OBVIOUS
  <2>. HIDE DEF next, old
  <2>. QED
    BY <1>1, <2>1, <2>2 DEF TokenRow
<1>3. Issue(table, old.user, old.version, old.family)
  BY DEF Rotate
<1>. HIDE DEF old
<1>4. PICK u \in User, version \in Nat, family \in Nat : Issue(table, u, version, family)
  BY <1>1, <1>2, <1>3 DEF TokenRow
<1>5. /\ DOMAIN table = DOMAIN tokens
      /\ \A x \in DOMAIN tokens \ {t} : table[x] = tokens[x]
  BY DEF Put
<1>6. IsTable(table, 1..issued, TokenRow)
  BY <1>1, <1>2, PutIsTable DEF LoginTypeOK, IsTable
<1>. HIDE DEF table
<1>. QED
  BY <1>1, <1>4, <1>5, <1>6, IssuedRows DEF ReplacesOnly

\* The administrator's commands.
LEMMA AdminStepReplacesNone ==
    ASSUME LoginInv, AdminStep
    PROVE  ReplacesOnly({})
<1>1. PICK a \in User, u \in User, family \in 1..issued :
         \/ ChangeRole(a, family, u) \/ RevokeLogins(a, family, u)
         \/ SetLoginExpiration(a, family, u)
         \/ Disable(a, family, u) \/ Enable(a, family, u)
         \/ DeleteAccount(a, family, u) \/ BeginReset(a, family, u)
         \/ \E open \in BOOLEAN : SetRegistration(a, family, open)
  BY DEF AdminStep
<1>2. CASE SetLoginExpiration(a, family, u)
  <2>1. /\ DOMAIN tokens' = DOMAIN tokens
        /\ \A t \in DOMAIN tokens :
              tokens'[t] = IF t \in UsableOf(u)
                           THEN [tokens[t] EXCEPT !.expiry = IF ~accounts[u].never
                                                             THEN "persistent"
                                                             ELSE "running"]
                           ELSE tokens[t]
    BY <1>2 DEF SetLoginExpiration
  <2>2. \A t \in DOMAIN tokens : tokens[t] \in TokenRow
    BY DEF LoginInv, LoginTypeOK, IsTable
  <2>. QED
    BY <2>1, <2>2 DEF TokenRow, ReplacesOnly
<1>3. CASE DeleteAccount(a, family, u)
  BY <1>3 DEF DeleteAccount, Restrict, ReplacesOnly
<1>4. CASE tokens' = RevokeTokens(UsableOf(u)) \/ UNCHANGED tokens
  BY <1>4, RevokingReplacesNone
<1>. QED
  BY <1>1, <1>2, <1>3, <1>4
     DEF ChangeRole, RevokeLogins, Disable, Enable, BeginReset, SetRegistration

\* The database's clock, and what does not touch the logins.
LEMMA QuietStepReplacesNone ==
    ASSUME LoginInv, ResetStep \/ TimeStep \/ SocketStep \/ UNCHANGED loginVars
    PROVE  ReplacesOnly({})
<1>1. CASE ResetStep
  BY <1>1, RevokingReplacesNone DEF ResetStep, FinishReset, AbandonReset
<1>2. CASE TimeStep
  <2>1. PICK t \in DOMAIN tokens : GraceEnds(t) \/ TokenExpires(t)
    BY <1>2 DEF TimeStep
  <2>2. \/ tokens' = [tokens EXCEPT ![t].recent = FALSE]
        \/ tokens' = [tokens EXCEPT ![t].expiry = "passed", ![t].recent = FALSE]
    BY <2>1 DEF GraceEnds, TokenExpires
  <2>3. \A x \in DOMAIN tokens : tokens[x] \in TokenRow
    BY DEF LoginInv, LoginTypeOK, IsTable
  <2>. QED
    BY <2>2, <2>3 DEF TokenRow, ReplacesOnly
<1>3. CASE SocketStep \/ UNCHANGED loginVars
  <2>1. UNCHANGED tokens
    BY <1>3 DEF SocketStep, IssueTicket, TicketExpires, Connect, Disconnect,
       Heartbeat, StopAndStart, loginVars
  <2>. QED
    BY <2>1, RevokingReplacesNone
<1>. QED
  BY <1>1, <1>2, <1>3

\* An application replaces no token that the browser has.
LEMMA ApplicationsLeaveTheBrowser ==
    ASSUME LoginInv, ServerStep
    PROVE  \E T : T \cap InBrowser = {} /\ ReplacesOnly(T)
<1>1. CASE ReplacesOnly({})
  BY <1>1
<1>2. CASE LoginStep
  <2>1. ASSUME NEW t \in DOMAIN tokens \ InBrowser, Rotate(t)
        PROVE  \E T : T \cap InBrowser = {} /\ ReplacesOnly(T)
    <3>1. ReplacesOnly({t}) /\ {t} \cap InBrowser = {}
      BY <2>1, RotateReplaces
    <3>. QED
      BY <3>1
  <2>2. ASSUME NEW S, tokens' = RevokeTokens(S)
        PROVE  ReplacesOnly({})
    BY <2>2, RevokingReplacesNone
  <2>. QED
    BY <1>1, <1>2, <2>1, <2>2
       DEF LoginStep, RevokeDevice, ChangePassword, RevokeReused, Logout
<1>. QED
  BY <1>1, <1>2, AdminStepReplacesNone, SigningInReplacesNone, QuietStepReplacesNone
     DEF ServerStep

-----------------------------------------------------------------------------
(* One exchange at a time *)

\* A tab between sending a refresh and its answer holds the lock.
Exchanging(tab) == refresh[tab].step \in {"sent", "answered"}

Brings(tab) == refresh[tab].step = "answered" /\ refresh[tab].answer = "ok"

\* No tab has seen another's rotation, and the token that is under way, or
\* will be sent next, was never replaced.
Calm ==
    /\ ~alarms
    /\ \A x, y \in Tab : Exchanging(x) /\ Exchanging(y) => x = y
    /\ \A x \in Tab :
          /\ ~refresh[x].retried
          /\ refresh[x].step = "answered" => refresh[x].answer # "rotated"
          /\ Exchanging(x) => NotReplaced(refresh[x].carries)
    /\ NotReplaced(cookie) \/ \E x \in Tab : Brings(x)

\* With one lock for all tabs only a lost answer disturbs this.
ExchangeInv == WebLocks /\ ~lost => Calm

-----------------------------------------------------------------------------
\* The number of no token.
LEMMA NoTokenIsNotReplaced == LoginInv => NotReplaced(NoCookie)
BY BrowserAssumption DEF LoginInv, LoginTypeOK, IsTable, NotReplaced

\* The server's steps, for clients other than the browser.
LEMMA ServerStepKeepsCalm ==
    ASSUME LoginInv, LoginInv', BrowserInv, Calm, ServerStep, UNCHANGED browserVars
    PROVE  Calm'
<1>1. PICK T : T \cap InBrowser = {} /\ ReplacesOnly(T)
  BY ApplicationsLeaveTheBrowser
<1>2. /\ cookie \in 0..issued /\ cookie \in InBrowser
      /\ \A x \in Tab : refresh[x].carries \in 0..issued /\ refresh[x].carries \in InBrowser
  BY DEF BrowserInv, InBrowser
<1>3. /\ NotReplaced(cookie) => NotReplaced(cookie)'
      /\ \A x \in Tab : NotReplaced(refresh[x].carries) => NotReplaced(refresh[x].carries)'
  <2>1. \A t \in 0..issued : t \in InBrowser /\ NotReplaced(t) =>
           (t \in DOMAIN tokens' => tokens'[t].next = 0)
    BY <1>1, StaysUnreplaced DEF NotReplaced
  <2>. QED
    BY <1>2, <2>1 DEF NotReplaced, browserVars
<1>. QED
  BY <1>3 DEF Calm, Exchanging, Brings, browserVars

\* A step of a tab that issues no token and touches the tokens not at all.
LEMMA TabStepKeepsCalm ==
    ASSUME Calm, NEW tab \in Tab, NEW row \in RefreshRow,
           refresh \in [Tab -> RefreshRow],
           refresh' = [refresh EXCEPT ![tab] = row],
           UNCHANGED alarms,
           row.retried = FALSE,
           row.step = "answered" => row.answer # "rotated",
           row.step \in {"sent", "answered"} =>
              /\ NotReplaced(row.carries)'
              /\ \A x \in Tab \ {tab} : ~Exchanging(x),
           \A x \in Tab \ {tab} :
              Exchanging(x) /\ NotReplaced(refresh[x].carries)
                => NotReplaced(refresh[x].carries)',
           \/ NotReplaced(cookie)'
           \/ row.step = "answered" /\ row.answer = "ok"
           \/ \E x \in Tab \ {tab} : Brings(x)
    PROVE  Calm'
<1>1. /\ refresh'[tab] = row
      /\ \A x \in Tab \ {tab} : refresh'[x] = refresh[x]
  OBVIOUS
<1>2. /\ Exchanging(tab)' <=> row.step \in {"sent", "answered"}
      /\ Brings(tab)' <=> (row.step = "answered" /\ row.answer = "ok")
      /\ \A x \in Tab \ {tab} : /\ Exchanging(x)' <=> Exchanging(x)
                                /\ Brings(x)' <=> Brings(x)
  BY <1>1 DEF Exchanging, Brings
<1>3. ~alarms'
  BY DEF Calm
<1>4. \A x, y \in Tab : Exchanging(x)' /\ Exchanging(y)' => x = y
  BY <1>2 DEF Calm
<1>5. \A x \in Tab : Exchanging(x)' => NotReplaced(refresh[x].carries)'
  BY <1>1, <1>2 DEF Calm, NotReplaced
<1>6. \A x \in Tab :
         /\ ~refresh'[x].retried
         /\ refresh'[x].step = "answered" => refresh'[x].answer # "rotated"
  BY <1>1 DEF Calm
<1>7. NotReplaced(cookie)' \/ \E x \in Tab : Brings(x)'
  BY <1>2
<1>. QED
  BY <1>3, <1>4, <1>5, <1>6, <1>7 DEF Calm

\* A request waits for a refresh.
LEMMA RequestKeepsCalm ==
    ASSUME BrowserInv, Calm, NEW tab \in Tab, RequestUnauthorized(tab)
    PROVE  Calm'
<1>. PICK row : row = [refresh[tab] EXCEPT !.step = "wait"]
  OBVIOUS
<1>1. /\ refresh' = [refresh EXCEPT ![tab] = row]
      /\ refresh[tab] = Idle /\ UNCHANGED <<tokens, cookie, alarms>>
  BY DEF RequestUnauthorized, loginVars
<1>2. row \in RefreshRow
  BY RefreshRows
<1>3. row.step = "wait" /\ row.retried = FALSE
  BY <1>1 DEF Idle
<1>4. ~Brings(tab)
  BY <1>1 DEF Brings, Idle
<1>5. NotReplaced(cookie)' \/ \E x \in Tab \ {tab} : Brings(x)
  BY <1>1, <1>4 DEF Calm, NotReplaced
<1>6. \A x \in Tab \ {tab} :
         NotReplaced(refresh[x].carries) => NotReplaced(refresh[x].carries)'
  BY <1>1 DEF NotReplaced
<1>. QED
  BY <1>1, <1>2, <1>3, <1>5, <1>6, TabStepKeepsCalm DEF BrowserInv

\* The lock lets one tab send, and no answer is under way to another then.
LEMMA SendKeepsCalm ==
    ASSUME BrowserInv, WebLocks, Calm, NEW tab \in Tab, SendRefresh(tab)
    PROVE  Calm'
<1>. PICK row : row = [refresh[tab] EXCEPT !.step = "sent", !.carries = cookie]
  OBVIOUS
<1>1. /\ refresh' = [refresh EXCEPT ![tab] = row]
      /\ UNCHANGED <<tokens, cookie, alarms>>
  BY DEF SendRefresh, loginVars
<1>2. row \in RefreshRow /\ row.carries = cookie /\ refresh[tab] \in RefreshRow
  BY RefreshRows
<1>3. ~refresh[tab].retried
  BY DEF Calm
<1>4. row.step = "sent" /\ row.retried = FALSE
  BY <1>2, <1>3 DEF RefreshRow
<1>5. \A x \in Tab \ {tab} : ~Exchanging(x)
  BY <1>3 DEF SendRefresh, MaySend, Exchanging
<1>6. \A x \in Tab : ~Brings(x)
  BY <1>5 DEF SendRefresh, MaySend, Exchanging, Brings
<1>7. NotReplaced(cookie)'
  BY <1>1, <1>6 DEF Calm, NotReplaced
<1>8. NotReplaced(row.carries)'
  BY <1>1, <1>2, <1>7 DEF NotReplaced
<1>. QED
  BY <1>1, <1>2, <1>4, <1>5, <1>7, <1>8, TabStepKeepsCalm DEF BrowserInv

\* The token that was sent is not replaced, so that the server rotates it or
\* refuses it, and takes it for stolen in no case.
LEMMA AnswerKeepsCalm ==
    ASSUME LoginInv, LoginInv', BrowserInv, Calm, NEW tab \in Tab, AnswerRefresh(tab)
    PROVE  Calm'
<1>. DEFINE t == refresh[tab].carries
<1>1. /\ Exchanging(tab) /\ ~Brings(tab)
      /\ UNCHANGED cookie
  BY DEF AnswerRefresh, Exchanging, Brings
<1>2. NotReplaced(t) /\ ~JustRotated(t) /\ ~Reused(t)
  BY <1>1 DEF Calm, NotReplaced, JustRotated, Reused, RefreshAllowed
<1>3. \A x \in Tab \ {tab} : ~Exchanging(x)
  BY <1>1 DEF Calm
<1>4. ASSUME NEW answer \in {"ok", "invalid"}, NEW n \in Nat, Answer(tab, answer, n),
             NotReplaced(n)', answer = "ok" \/ NotReplaced(cookie)', UNCHANGED alarms
      PROVE  Calm'
  <2>. PICK row : row = [refresh[tab] EXCEPT !.step = "answered", !.answer = answer,
                                            !.carries = n]
    OBVIOUS
  <2>1. refresh' = [refresh EXCEPT ![tab] = row]
    BY <1>4 DEF Answer
  <2>2. refresh[tab] \in RefreshRow /\ ~refresh[tab].retried
    BY RefreshRows DEF Calm
  <2>3. /\ row \in RefreshRow
        /\ row.step = "answered" /\ row.answer = answer /\ row.carries = n
        /\ row.retried = FALSE
    BY <1>4, <2>2 DEF RefreshRow
  <2>4. NotReplaced(row.carries)'
    BY <1>4, <2>3 DEF NotReplaced
  <2>. QED
    BY <1>3, <1>4, <2>1, <2>3, <2>4, TabStepKeepsCalm DEF BrowserInv
<1>5. CASE Rotate(t) /\ Answer(tab, "ok", issued + 1) /\ UNCHANGED alarms
  <2>1. t \in DOMAIN tokens
    BY <1>5 DEF Rotate, Rotatable, RefreshAllowed
  <2>2. issued \in Nat /\ t \in 1..issued
    BY <2>1 DEF LoginInv, LoginTypeOK, IsTable
  <2>3. ReplacesOnly({t})
    BY <1>5, <2>1, RotateReplaces
  <2>. PICK n : n = issued + 1
    OBVIOUS
  <2>4. n \in Nat /\ n # t /\ n \notin DOMAIN tokens
    BY <2>2 DEF LoginInv, LoginTypeOK, IsTable
  <2>5. NotReplaced(n)'
    BY <2>3, <2>4 DEF ReplacesOnly, NotReplaced
  <2>. QED
    BY <1>4, <1>5, <2>4, <2>5
<1>6. CASE RefreshRefused(t) /\ UNCHANGED <<loginVars, alarms>>
           /\ Answer(tab, "invalid", NoCookie)
  <2>1. NotReplaced(NoCookie) /\ NoCookie \in Nat
    BY NoTokenIsNotReplaced, BrowserAssumption
  <2>2. \A x \in Tab : ~Brings(x)
    BY <1>1, <1>3 DEF Brings, Exchanging
  <2>3. NotReplaced(cookie)
    BY <2>2 DEF Calm
  <2>4. NotReplaced(NoCookie)' /\ NotReplaced(cookie)'
    BY <1>1, <1>6, <2>1, <2>3 DEF NotReplaced, loginVars
  <2>. QED
    BY <1>4, <1>6, <2>1, <2>4
<1>. QED
  BY <1>2, <1>5, <1>6 DEF AnswerRefresh, RevokeReused

\* The cookie becomes the token that the answer brought.
LEMMA ReceiveKeepsCalm ==
    ASSUME LoginInv, BrowserInv, Calm, NEW tab \in Tab, ReceiveAnswer(tab)
    PROVE  Calm'
<1>1. /\ refresh[tab].step = "answered" /\ refresh[tab].answer # "rotated"
      /\ NotReplaced(refresh[tab].carries)
      /\ \A x \in Tab \ {tab} : ~Exchanging(x)
  BY DEF ReceiveAnswer, Calm, Exchanging
<1>2. /\ cookie' = refresh[tab].carries
      /\ refresh' = [refresh EXCEPT ![tab] = Idle]
      /\ UNCHANGED <<tokens, alarms>>
  BY <1>1 DEF ReceiveAnswer, loginVars
<1>3. NotReplaced(cookie)'
  BY <1>1, <1>2 DEF NotReplaced
<1>4. Idle \in RefreshRow /\ Idle.step = "idle" /\ Idle.retried = FALSE
  BY IdleRow DEF Idle
<1>. QED
  BY <1>1, <1>2, <1>3, <1>4, TabStepKeepsCalm DEF BrowserInv

\* clearAuth gives up a refresh that was not sent; one that was keeps the lock.
LEMMA GenerationKeepsCalm ==
    ASSUME LoginInv, LoginInv', BrowserInv, Calm, NEW tab \in Tab, NEW u,
           NewGeneration(tab, u), ReplacesOnly({}), UNCHANGED alarms, NotReplaced(cookie)'
    PROVE  Calm'
<1>. PICK row : row = IF refresh[tab].step \in {"idle", "wait"} THEN Idle
                      ELSE [refresh[tab] EXCEPT !.current = FALSE]
  OBVIOUS
<1>1. refresh' = [refresh EXCEPT ![tab] = row]
  BY DEF NewGeneration
<1>2. \A x \in Tab : NotReplaced(refresh[x].carries) =>
         (refresh[x].carries \in DOMAIN tokens' => tokens'[refresh[x].carries].next = 0)
  <2>1. \A x \in Tab : refresh[x].carries \in 0..issued
    BY DEF BrowserInv
  <2>2. \A t \in 0..issued :
           NotReplaced(t) => (t \in DOMAIN tokens' => tokens'[t].next = 0)
    BY StaysUnreplaced DEF NotReplaced
  <2>. QED
    BY <2>1, <2>2
<1>3. \A x \in Tab \ {tab} :
         NotReplaced(refresh[x].carries) => NotReplaced(refresh[x].carries)'
  <2>1. \A x \in Tab \ {tab} : refresh'[x] = refresh[x]
    BY <1>1 DEF BrowserInv
  <2>. QED
    BY <1>2, <2>1 DEF NotReplaced
<1>4. CASE refresh[tab].step \in {"idle", "wait"}
  <2>1. row = Idle
    BY <1>4
  <2>2. Idle \in RefreshRow /\ Idle.step = "idle" /\ Idle.retried = FALSE
    BY IdleRow DEF Idle
  <2>. QED
    BY <1>1, <1>3, <2>1, <2>2, TabStepKeepsCalm DEF BrowserInv
<1>5. CASE refresh[tab].step \notin {"idle", "wait"}
  <2>1. refresh[tab] \in RefreshRow
    BY RefreshRows
  <2>2. /\ row \in RefreshRow
        /\ row.step = refresh[tab].step /\ row.answer = refresh[tab].answer
        /\ row.carries = refresh[tab].carries /\ row.retried = refresh[tab].retried
    BY <1>5, <2>1 DEF RefreshRow
  <2>3. Exchanging(tab)
    BY <1>5, <2>1 DEF Exchanging, RefreshRow
  <2>4. /\ row.retried = FALSE
        /\ row.step = "answered" => row.answer # "rotated"
        /\ \A x \in Tab \ {tab} : ~Exchanging(x)
        /\ NotReplaced(refresh[tab].carries)
    BY <2>1, <2>2, <2>3 DEF Calm, RefreshRow
  <2>5. NotReplaced(row.carries)'
    <3>1. row.carries \in DOMAIN tokens' => tokens'[row.carries].next = 0
      BY <1>2, <2>2, <2>4
    <3>2. refresh'[tab] = row
      BY <1>1 DEF BrowserInv
    <3>. QED
      BY <2>2, <3>1, <3>2 DEF NotReplaced
  <2>. QED
    BY <1>1, <1>3, <2>2, <2>4, <2>5, TabStepKeepsCalm DEF BrowserInv
<1>. QED
  BY <1>4, <1>5

\* The portal's handlers, as long as no answer was lost.
LEMMA BrowserStepKeepsCalm ==
    ASSUME LoginInv, LoginInv', BrowserInv, WebLocks, Calm, BrowserStep, ~lost'
    PROVE  Calm'
<1>1. PICK tab \in Tab :
         \/ RequestUnauthorized(tab) \/ SendRefresh(tab) \/ AnswerRefresh(tab)
         \/ ReceiveAnswer(tab) \/ LoseAnswer(tab)
         \/ \E u \in User : SignInTab(tab, u)
         \/ SignOutTab(tab)
  BY DEF BrowserStep
<1>2. CASE \E u \in User : SignInTab(tab, u)
  <2>1. PICK u \in User : SignInTab(tab, u)
    BY <1>2
  <2>2. ReplacesOnly({})
    BY <2>1, SigningInReplacesNone DEF SignInTab, AccountStep
  <2>3. issued \in Nat /\ issued + 1 \notin DOMAIN tokens
    BY DEF LoginInv, LoginTypeOK, IsTable
  <2>4. NotReplaced(cookie)'
    BY <2>1, <2>2, <2>3 DEF SignInTab, ReplacesOnly, NotReplaced
  <2>. QED
    BY <2>1, <2>2, <2>4, GenerationKeepsCalm DEF SignInTab
<1>3. CASE SignOutTab(tab)
  <2>1. ReplacesOnly({})
    BY <1>3, RevokingReplacesNone DEF SignOutTab, Logout, loginVars
  <2>2. NoCookie \notin DOMAIN tokens'
    BY BrowserAssumption DEF LoginInv, LoginTypeOK, IsTable
  <2>3. NotReplaced(cookie)'
    BY <1>3, <2>2 DEF SignOutTab, NotReplaced
  <2>. QED
    BY <1>3, <2>1, <2>3, GenerationKeepsCalm DEF SignOutTab
<1>4. ~LoseAnswer(tab)
  BY DEF LoseAnswer
<1>. QED
  BY <1>1, <1>2, <1>3, <1>4, RequestKeepsCalm, SendKeepsCalm, AnswerKeepsCalm,
     ReceiveKeepsCalm

\* Where the browser has navigator.locks, the server takes a refresh of the
\* portal for theft only if an answer to one was lost: the lock around both
\* attempts (requestRefreshAcrossTabs) lets no tab send a token that another
\* tab has just replaced, whoever signs in or out in between.
THEOREM OnlyLossIsTakenForTheft == Spec => []OnlyLossRaisesAlarm
<1>1. Init => ExchangeInv
  BY NoTokenIsNotReplaced
     DEF Init, LoginInit, BrowserInit, ExchangeInv, Calm, Exchanging, Brings, Idle,
         NotReplaced, NoRows
<1>2. LoginInv /\ LoginInv' /\ BrowserInv /\ ExchangeInv /\ [Next]_vars => ExchangeInv'
  <2>. SUFFICES ASSUME LoginInv, LoginInv', BrowserInv, ExchangeInv, [Next]_vars,
                       WebLocks, ~lost'
                PROVE  Calm'
    BY DEF ExchangeInv
  <2>1. CASE BrowserStep
    <3>1. lost => lost'
      BY <2>1 DEF BrowserStep, RequestUnauthorized, SendRefresh, AnswerRefresh,
         ReceiveAnswer, LoseAnswer, SignInTab, SignOutTab
    <3>. QED
      BY <2>1, <3>1, BrowserStepKeepsCalm DEF ExchangeInv
  <2>2. CASE ServerStep /\ UNCHANGED browserVars
    BY <2>2, ServerStepKeepsCalm DEF ExchangeInv, browserVars
  <2>3. CASE UNCHANGED vars
    BY <2>3 DEF vars, loginVars, browserVars, ExchangeInv, Calm, Exchanging, Brings,
       NotReplaced
  <2>. QED
    BY <2>1, <2>2, <2>3 DEF Next
<1>3. ExchangeInv => OnlyLossRaisesAlarm
  BY DEF ExchangeInv, Calm, OnlyLossRaisesAlarm
<1>. QED
  BY <1>1, <1>2, <1>3, LoginInvariant, BrowserInvariant, PTL DEF Spec

\* A request that waited for a refresh is sent again only as the account that
\* made it (assertRequestAccount), although another tab may have changed the
\* account behind the cookie meanwhile.
THEOREM RetriesAreTheSameAccounts == Spec => []RetriesKeepTheirAccount
<1>1. Init => RetriesKeepTheirAccount
  BY DEF Init, BrowserInit, RetriesKeepTheirAccount
<1>2. RetriesKeepTheirAccount /\ [Next]_vars => RetriesKeepTheirAccount'
  <2>. SUFFICES ASSUME RetriesKeepTheirAccount, [Next]_vars
                PROVE  RetriesKeepTheirAccount'
    OBVIOUS
  <2>1. CASE UNCHANGED served
    BY <2>1 DEF RetriesKeepTheirAccount
  <2>2. ASSUME NEW tab \in Tab, ReceiveAnswer(tab)
        PROVE  RetriesKeepTheirAccount'
    <3>1. \/ UNCHANGED served
          \/ \E u : MayResend(tab, u) /\ served' = [asked |-> tabs[tab].request, sent |-> u]
      BY <2>2 DEF ReceiveAnswer
    <3>. QED
      BY <2>1, <3>1 DEF MayResend, RetriesKeepTheirAccount
  <2>. QED
    BY <2>1, <2>2 DEF Next, vars, browserVars, BrowserStep, RequestUnauthorized,
       SendRefresh, AnswerRefresh, LoseAnswer, SignInTab, SignOutTab
<1>. QED
  BY <1>1, <1>2, PTL DEF Spec
=============================================================================
