--------------------------- MODULE AccountsSafety ---------------------------
(***************************************************************************)
(* Types of the accounts and logins, that an administrator remains, that   *)
(* the logins that work fit their accounts and that ended ones stay ended, *)
(* and that open sockets follow them, for any number of accounts, devices  *)
(* and tickets, and wherever the process stops.                            *)
(***************************************************************************)
EXTENDS Accounts, TableLemmas, TLAPS

\* LoginTypeOK, and the families are the numbers of tokens issued.
LoginInv ==
    /\ LoginTypeOK
    /\ \A t \in DOMAIN tokens : tokens[t].family \in 1..issued

\* LoginStep by any client, the portal included.
AnyLoginStep ==
    \/ \E u \in User, family \in 1..issued :
          RevokeDevice(u, family) \/ ChangePassword(u, family)
    \/ \E t \in DOMAIN tokens : Rotate(t) \/ RevokeReused(t) \/ Logout(t)

-----------------------------------------------------------------------------
(* The helpers of LoginStore *)

\* RevokeTokens changes nothing but revoked.
LEMMA RevokedRows ==
    ASSUME LoginTypeOK, NEW S
    PROVE  /\ IsTable(RevokeTokens(S), 1..issued, TokenRow)
           /\ DOMAIN RevokeTokens(S) = DOMAIN tokens
           /\ \A t \in DOMAIN tokens :
                 /\ RevokeTokens(S)[t].user = tokens[t].user
                 /\ RevokeTokens(S)[t].family = tokens[t].family
                 /\ RevokeTokens(S)[t].version = tokens[t].version
                 /\ RevokeTokens(S)[t].expiry = tokens[t].expiry
                 /\ RevokeTokens(S)[t].next = tokens[t].next
                 /\ RevokeTokens(S)[t].revoked <=> (tokens[t].revoked \/ t \in S)
BY DEF LoginTypeOK, IsTable, RevokeTokens, TokenRow

\* Issue adds a usable token of the family and drops expired ones.
LEMMA IssuedRows ==
    ASSUME issued \in Nat, NEW table, IsTable(table, 1..issued, TokenRow),
           NEW u \in User, NEW version \in Nat, NEW family \in Nat,
           Issue(table, u, version, family)
    PROVE  /\ issued' = issued + 1
           /\ IsTable(tokens', 1..issued', TokenRow)
           /\ \A t \in DOMAIN tokens' :
                 t = issued + 1 \/ (t \in DOMAIN table /\ table[t].expiry # "passed")
           /\ tokens'[issued + 1].user = u
           /\ tokens'[issued + 1].version = version
           /\ tokens'[issued + 1].family = family
           /\ ~tokens'[issued + 1].revoked
           /\ tokens'[issued + 1].next = 0
           /\ \A t \in DOMAIN table : t \in DOMAIN tokens' => tokens'[t] = table[t]
<1>. DEFINE kept == {t \in DOMAIN table : table[t].expiry # "passed"}
            new == [user |-> u, family |-> family, version |-> version,
                    expiry |-> IF accounts'[u].never THEN "persistent" ELSE "running",
                    revoked |-> FALSE, next |-> 0, recent |-> FALSE]
<1>1. issued' = issued + 1 /\ tokens' = Put(Restrict(table, kept), issued + 1, new)
  BY DEF Issue
<1>2. new \in TokenRow
  BY DEF TokenRow
<1>3. /\ new.user = u /\ new.version = version /\ new.family = family
      /\ ~new.revoked /\ new.next = 0
  OBVIOUS
<1>. HIDE DEF new
<1>4. /\ IsTable(Restrict(table, kept), 1..issued, TokenRow)
      /\ DOMAIN Restrict(table, kept) = kept
      /\ \A t \in kept : Restrict(table, kept)[t] = table[t]
  BY RestrictIsTable
<1>5. IsTable(Restrict(table, kept), 1..issued', TokenRow)
  BY <1>1, <1>4 DEF IsTable
<1>6. issued + 1 \in 1..issued' /\ issued + 1 \notin DOMAIN table
  BY <1>1 DEF IsTable
<1>7. IsTable(tokens', 1..issued', TokenRow)
  BY <1>1, <1>2, <1>5, <1>6, PutIsTable
<1>8. /\ DOMAIN tokens' = kept \cup {issued + 1}
      /\ tokens'[issued + 1] = new
      /\ \A t \in kept : tokens'[t] = table[t]
  <2>. DEFINE rest == Restrict(table, kept)
  <2>1. /\ tokens' = Put(rest, issued + 1, new) /\ DOMAIN rest = kept
        /\ \A t \in kept : rest[t] = table[t]
        /\ issued + 1 \notin kept
    BY <1>1, <1>4, <1>6
  <2>. HIDE DEF rest, kept
  <2>. QED
    BY <2>1 DEF Put
<1>9. \A t \in DOMAIN table : t \in DOMAIN tokens' => tokens'[t] = table[t]
  BY <1>6, <1>8
<1>10. \A t \in DOMAIN tokens' :
          t = issued + 1 \/ (t \in DOMAIN table /\ table[t].expiry # "passed")
  <2>1. \A t \in kept : t \in DOMAIN table /\ table[t].expiry # "passed"
    OBVIOUS
  <2>. HIDE DEF kept
  <2>. QED
    BY <1>8, <2>1
<1>. QED
  BY <1>1, <1>3, <1>7, <1>8, <1>9, <1>10

\* What the hubs are told leaves tickets, sockets and waiting resets of their
\* types, whether or not the process stops first.
LEMMA CutKeepsTypes ==
    ASSUME LoginTypeOK, NEW u, NEW family, NEW waiting, waiting \subseteq ResetRow,
           CutUser(u, waiting) \/ CutFamily(u, family) \/ Stopped
    PROVE  /\ IsTable(tickets', Ticket, TicketRow)
           /\ IsTable(sockets', Socket, TicketRow)
           /\ resets' \subseteq ResetRow
BY NoRowsIsTable DEF LoginTypeOK, CutUser, CutFamily, Cut, Stopped, IsTable, Restrict

\* A command that writes one row of users.
LEMMA AccountWritten ==
    ASSUME LoginTypeOK, NEW u \in DOMAIN accounts, NEW row \in AccountRow,
           accounts' = [accounts EXCEPT ![u] = row]
    PROVE  /\ IsTable(accounts', User, AccountRow)
           /\ DOMAIN accounts' = DOMAIN accounts
           /\ accounts'[u] = row
           /\ \A x \in DOMAIN accounts \ {u} : accounts'[x] = accounts[x]
BY DEF LoginTypeOK, IsTable

-----------------------------------------------------------------------------
(* Types *)

\* One account's row, and tokens that are only revoked.
LEMMA CommandKeepsInv ==
    ASSUME LoginInv, NEW u \in DOMAIN accounts, NEW row \in AccountRow, NEW S,
           accounts' = [accounts EXCEPT ![u] = row] \/ UNCHANGED accounts,
           tokens' = RevokeTokens(S) \/ UNCHANGED tokens,
           UNCHANGED issued, registration' \in BOOLEAN,
           IsTable(tickets', Ticket, TicketRow), IsTable(sockets', Socket, TicketRow),
           resets' \subseteq ResetRow
    PROVE  LoginInv'
<1>1. IsTable(accounts', User, AccountRow)
  BY AccountWritten DEF LoginInv, LoginTypeOK
<1>2. /\ IsTable(tokens', 1..issued', TokenRow)
      /\ DOMAIN tokens' = DOMAIN tokens
      /\ \A t \in DOMAIN tokens : tokens'[t].family = tokens[t].family
  BY RevokedRows DEF LoginInv, LoginTypeOK
<1>. QED
  BY <1>1, <1>2 DEF LoginInv, LoginTypeOK

\* The rows the commands write.
LEMMA AccountRows ==
    ASSUME LoginTypeOK, NEW u \in DOMAIN accounts
    PROVE  /\ accounts[u] \in AccountRow
           /\ [accounts[u] EXCEPT !.version = @ + 1] \in AccountRow
           /\ \A role \in {"admin", "user"} :
                 [accounts[u] EXCEPT !.role = role, !.version = @ + 1] \in AccountRow
           /\ \A status \in {"active", "disabled"} :
                 [accounts[u] EXCEPT !.status = status, !.version = @ + 1] \in AccountRow
           /\ \A must \in BOOLEAN :
                 [accounts[u] EXCEPT !.mustChange = must, !.version = @ + 1]
                   \in AccountRow
           /\ \A never \in BOOLEAN : [accounts[u] EXCEPT !.never = never] \in AccountRow
           /\ [accounts[u] EXCEPT !.status = "deleted", !.role = "user",
                                  !.mustChange = FALSE, !.never = FALSE,
                                  !.version = @ + 1] \in AccountRow
<1>1. accounts[u] \in AccountRow
  BY DEF LoginTypeOK, IsTable
<1>. DEFINE next == accounts[u].version + 1
<1>2. next \in Nat \ {0}
  BY <1>1 DEF AccountRow
<1>. HIDE DEF next
<1>. QED
  BY <1>1, <1>2 DEF AccountRow, next

\* The administrator's commands.
LEMMA AdminStepKeepsInv ==
    ASSUME LoginInv, AdminStep
    PROVE  LoginInv'
<1>1. LoginTypeOK
  BY DEF LoginInv
<1>2. PICK a \in User, u \in User, family \in 1..issued :
         \/ ChangeRole(a, family, u) \/ RevokeLogins(a, family, u)
         \/ SetLoginExpiration(a, family, u)
         \/ Disable(a, family, u) \/ Enable(a, family, u)
         \/ DeleteAccount(a, family, u) \/ BeginReset(a, family, u)
         \/ \E open \in BOOLEAN : SetRegistration(a, family, open)
  BY DEF AdminStep
<1>3. ASSUME NEW row \in AccountRow, u \in DOMAIN accounts,
             accounts' = [accounts EXCEPT ![u] = row],
             (tokens' = RevokeTokens(UsableOf(u)) /\ CutUser(u, resets))
               \/ UNCHANGED <<tokens, tickets, sockets, resets>>,
             UNCHANGED <<issued, registration>>
      PROVE  LoginInv'
  <2>1. /\ IsTable(tickets', Ticket, TicketRow) /\ IsTable(sockets', Socket, TicketRow)
        /\ resets' \subseteq ResetRow
    BY <1>1, <1>3, CutKeepsTypes DEF LoginTypeOK
  <2>. QED
    BY <1>1, <1>3, <2>1, CommandKeepsInv DEF LoginTypeOK
<1>4. CASE ChangeRole(a, family, u)
  <2>. DEFINE role == IF accounts[u].role = "admin" THEN "user" ELSE "admin"
  <2>1. accounts' = [accounts EXCEPT
                       ![u] = [accounts[u] EXCEPT !.role = role, !.version = @ + 1]]
    BY <1>4 DEF ChangeRole
  <2>2. u \in DOMAIN accounts
    BY <1>4 DEF ChangeRole, ActsOn
  <2>. QED
    BY <1>1, <1>3, <1>4, <2>1, <2>2, AccountRows DEF ChangeRole
<1>5. CASE RevokeLogins(a, family, u)
  BY <1>1, <1>3, <1>5, AccountRows DEF RevokeLogins
<1>6. CASE SetLoginExpiration(a, family, u)
  <2>. DEFINE never == ~accounts[u].never
  <2>1. /\ u \in DOMAIN accounts
        /\ accounts' = [accounts EXCEPT ![u] = [accounts[u] EXCEPT !.never = never]]
        /\ DOMAIN tokens' = DOMAIN tokens
        /\ \A t \in DOMAIN tokens :
              tokens'[t] = IF t \in UsableOf(u)
                           THEN [tokens[t] EXCEPT !.expiry = IF never THEN "persistent"
                                                             ELSE "running"]
                           ELSE tokens[t]
        /\ tokens' = [t \in DOMAIN tokens |-> tokens'[t]]
        /\ UNCHANGED <<issued, registration, tickets, sockets, resets>>
    BY <1>6 DEF SetLoginExpiration, ActsOn
  <2>2. IsTable(accounts', User, AccountRow)
    <3>1. never \in BOOLEAN
      OBVIOUS
    <3>. HIDE DEF never
    <3>. QED
      BY <1>1, <2>1, <3>1, AccountRows, AccountWritten
  <2>3. \A t \in DOMAIN tokens :
           tokens'[t] \in TokenRow /\ tokens'[t].family = tokens[t].family
    BY <1>1, <2>1 DEF LoginTypeOK, IsTable, TokenRow
  <2>. HIDE DEF never
  <2>. QED
    BY <1>1, <2>1, <2>2, <2>3 DEF LoginInv, LoginTypeOK, IsTable
<1>7. CASE Disable(a, family, u)
  BY <1>1, <1>3, <1>7, AccountRows DEF Disable, ActsOn
<1>8. CASE Enable(a, family, u)
  BY <1>1, <1>3, <1>8, AccountRows DEF Enable, ActsOn
<1>9. CASE DeleteAccount(a, family, u)
  <2>. DEFINE kept == {t \in DOMAIN tokens : tokens[t].user # u}
              row == [accounts[u] EXCEPT !.status = "deleted", !.role = "user",
                                         !.mustChange = FALSE, !.never = FALSE,
                                         !.version = @ + 1]
  <2>1. /\ u \in DOMAIN accounts /\ accounts' = [accounts EXCEPT ![u] = row]
        /\ tokens' = Restrict(tokens, kept)
        /\ CutUser(u, resets) /\ UNCHANGED <<issued, registration>>
    BY <1>9 DEF DeleteAccount, ActsOn
  <2>2. row \in AccountRow
    BY <1>1, <2>1, AccountRows
  <2>. HIDE DEF row
  <2>3. IsTable(accounts', User, AccountRow)
    BY <1>1, <2>1, <2>2, AccountWritten
  <2>4. /\ IsTable(tokens', 1..issued', TokenRow)
        /\ \A t \in DOMAIN tokens' : t \in DOMAIN tokens /\ tokens'[t] = tokens[t]
    BY <1>1, <2>1 DEF LoginTypeOK, IsTable, Restrict
  <2>5. /\ IsTable(tickets', Ticket, TicketRow) /\ IsTable(sockets', Socket, TicketRow)
        /\ resets' \subseteq ResetRow
    BY <1>1, <2>1, CutKeepsTypes DEF LoginTypeOK
  <2>. QED
    BY <2>1, <2>3, <2>4, <2>5 DEF LoginInv, LoginTypeOK
<1>10. CASE BeginReset(a, family, u)
  <2>1. a \in DOMAIN accounts /\ u \in DOMAIN accounts
    BY <1>10 DEF BeginReset, ActiveAdmin, Authenticated, MaySignIn
  <2>2. accounts[a].version \in Nat /\ accounts[u].version \in Nat
    BY <1>1, <2>1, AccountRows DEF AccountRow
  <2>3. [admin |-> a, family |-> family, asked |-> accounts[a].version,
         user |-> u, expected |-> accounts[u].version] \in ResetRow
    BY <2>2 DEF ResetRow
  <2>. QED
    BY <1>10, <2>3 DEF BeginReset, LoginInv, LoginTypeOK
<1>11. CASE \E open \in BOOLEAN : SetRegistration(a, family, open)
  BY <1>11 DEF SetRegistration, LoginInv, LoginTypeOK
<1>. QED
  BY <1>2, <1>4, <1>5, <1>6, <1>7, <1>8, <1>9, <1>10, <1>11

\* The reset of a password, on either side of bcrypt.hash.
LEMMA ResetStepKeepsInv ==
    ASSUME LoginInv, ResetStep
    PROVE  LoginInv'
<1>1. LoginTypeOK
  BY DEF LoginInv
<1>2. PICK r \in resets : FinishReset(r) \/ AbandonReset(r)
  BY DEF ResetStep
<1>3. CASE FinishReset(r)
  <2>. DEFINE row == [accounts[r.user] EXCEPT !.mustChange = TRUE, !.version = @ + 1]
  <2>1. accounts' = [accounts EXCEPT ![r.user] = row]
    BY <1>3 DEF FinishReset
  <2>2. IsTable(accounts', User, AccountRow)
    <3>1. CASE r.user \in DOMAIN accounts
      <4>1. row \in AccountRow
        BY <1>1, <3>1, AccountRows
      <4>. HIDE DEF row
      <4>. QED
        BY <1>1, <2>1, <3>1, <4>1, AccountWritten
    <3>2. CASE r.user \notin DOMAIN accounts
      BY <1>1, <2>1, <3>2 DEF LoginTypeOK, IsTable
    <3>. QED
      BY <3>1, <3>2
  <2>3. /\ IsTable(tickets', Ticket, TicketRow) /\ IsTable(sockets', Socket, TicketRow)
        /\ resets' \subseteq ResetRow
    <3>1. resets \ {r} \subseteq ResetRow
      BY <1>1 DEF LoginTypeOK
    <3>. QED
      BY <1>1, <1>3, <3>1, CutKeepsTypes DEF FinishReset
  <2>4. /\ IsTable(tokens', 1..issued', TokenRow)
        /\ DOMAIN tokens' = DOMAIN tokens
        /\ \A t \in DOMAIN tokens : tokens'[t].family = tokens[t].family
        /\ UNCHANGED <<issued, registration>>
    BY <1>1, <1>3, RevokedRows DEF FinishReset
  <2>. QED
    BY <2>2, <2>3, <2>4 DEF LoginInv, LoginTypeOK
<1>4. CASE AbandonReset(r)
  BY <1>4 DEF AbandonReset, LoginInv, LoginTypeOK
<1>. QED
  BY <1>2, <1>3, <1>4

\* A token is issued and everything else but the accounts stays.
LEMMA IssueKeepsInv ==
    ASSUME LoginInv, NEW table, IsTable(table, 1..issued, TokenRow),
           \A t \in DOMAIN table : table[t].family \in 1..issued,
           NEW u \in User, NEW version \in Nat, NEW family \in 1..(issued + 1),
           Issue(table, u, version, family),
           IsTable(accounts', User, AccountRow),
           UNCHANGED <<registration, tickets, sockets, resets>>
    PROVE  LoginInv'
<1>1. issued \in Nat /\ family \in Nat
  BY DEF LoginInv, LoginTypeOK
<1>2. /\ issued' = issued + 1
      /\ IsTable(tokens', 1..issued', TokenRow)
      /\ DOMAIN tokens' \subseteq DOMAIN table \cup {issued + 1}
      /\ tokens'[issued + 1].family = family
      /\ \A t \in DOMAIN table : t \in DOMAIN tokens' => tokens'[t] = table[t]
  BY <1>1, IssuedRows
<1>3. \A t \in DOMAIN tokens' : tokens'[t].family \in 1..issued'
  BY <1>1, <1>2
<1>. QED
  BY <1>1, <1>2, <1>3 DEF LoginInv, LoginTypeOK

\* Registering and signing in.
LEMMA AccountStepKeepsInv ==
    ASSUME LoginInv, AccountStep
    PROVE  LoginInv'
<1>1. LoginTypeOK /\ issued \in Nat /\ issued + 1 \in 1..(issued + 1)
  BY DEF LoginInv, LoginTypeOK
<1>2. PICK u \in User :
         Bootstrap(u) \/ Register(u) \/ Login(u) \/ CompletePasswordChange(u)
  BY DEF AccountStep
<1>3. CASE Bootstrap(u) \/ Register(u)
  <2>1. IsTable(accounts', User, AccountRow)
    <3>1. \A role \in {"admin", "user"} : NewAccount(role) \in AccountRow
      BY DEF NewAccount, AccountRow
    <3>. QED
      BY <1>1, <1>3, <3>1, PutIsTable DEF Bootstrap, Register, LoginTypeOK
  <2>. QED
    BY <1>1, <1>3, <2>1, IssueKeepsInv DEF Bootstrap, Register, SignIn, LoginInv, LoginTypeOK
<1>4. CASE Login(u)
  <2>1. accounts[u].version \in Nat
    BY <1>1, <1>4, AccountRows DEF Login, MayLogIn, MaySignIn, AccountRow
  <2>. QED
    BY <1>1, <1>4, <2>1, IssueKeepsInv DEF Login, SignIn, LoginInv, LoginTypeOK
<1>5. CASE CompletePasswordChange(u)
  <2>. DEFINE row == [accounts[u] EXCEPT !.mustChange = FALSE, !.version = @ + 1]
              table == RevokeTokens(UnrevokedOf(u))
  <2>1. u \in DOMAIN accounts /\ accounts' = [accounts EXCEPT ![u] = row]
    BY <1>5 DEF CompletePasswordChange
  <2>2. row \in AccountRow /\ accounts[u].version + 1 \in Nat
    BY <1>1, <2>1, AccountRows DEF AccountRow
  <2>3. IsTable(accounts', User, AccountRow)
    BY <1>1, <2>1, <2>2, AccountWritten
  <2>4. IsTable(table, 1..issued, TokenRow)
        /\ \A t \in DOMAIN table : table[t].family \in 1..issued
    BY <1>1, RevokedRows DEF LoginInv
  <2>5. Issue(table, u, accounts[u].version + 1, issued + 1)
        /\ UNCHANGED <<registration, tickets, sockets, resets>>
    BY <1>5 DEF CompletePasswordChange, SignIn
  <2>. HIDE DEF table
  <2>. QED
    BY <1>1, <2>2, <2>3, <2>4, <2>5, IssueKeepsInv
<1>. QED
  BY <1>2, <1>3, <1>4, <1>5

\* The rotation of a token.
LEMMA RotateKeepsInv ==
    ASSUME LoginInv, NEW t \in DOMAIN tokens, Rotate(t)
    PROVE  LoginInv'
<1>1. LoginTypeOK /\ issued \in Nat
  BY DEF LoginInv, LoginTypeOK
<1>. DEFINE old == [tokens[t] EXCEPT !.revoked = TRUE, !.recent = TRUE,
                                     !.next = issued + 1, !.expiry = "running"]
            table == Put(tokens, t, old)
<1>2. tokens[t] \in TokenRow /\ t \in 1..issued /\ tokens[t].family \in 1..issued
  BY <1>1 DEF LoginInv, LoginTypeOK, IsTable
<1>3. old \in TokenRow /\ old.family = tokens[t].family
  <2>. DEFINE next == issued + 1
  <2>1. next \in Nat
    BY <1>1
  <2>2. old = [tokens[t] EXCEPT !.revoked = TRUE, !.recent = TRUE,
                                !.next = next, !.expiry = "running"]
    OBVIOUS
  <2>. HIDE DEF next, old
  <2>. QED
    BY <1>2, <2>1, <2>2 DEF TokenRow
<1>4. Issue(table, old.user, old.version, old.family)
      /\ UNCHANGED <<accounts, registration, tickets, sockets, resets>>
  BY DEF Rotate
<1>. HIDE DEF old
<1>5. IsTable(table, 1..issued, TokenRow)
  BY <1>1, <1>2, <1>3, PutIsTable DEF LoginTypeOK
<1>6. \A x \in DOMAIN table : table[x].family \in 1..issued
  BY <1>2, <1>3 DEF Put, LoginInv
<1>7. old.user \in User /\ old.version \in Nat /\ old.family \in 1..(issued + 1)
  BY <1>1, <1>2, <1>3 DEF TokenRow
<1>. HIDE DEF table
<1>. QED
  BY <1>1, <1>4, <1>5, <1>6, <1>7, IssueKeepsInv DEF LoginTypeOK

\* Rotating, ending and revoking logins, changing the password.
LEMMA LoginStepKeepsInv ==
    ASSUME LoginInv, AnyLoginStep
    PROVE  LoginInv'
<1>1. LoginTypeOK
  BY DEF LoginInv
<1>2. ASSUME NEW S, tokens' = RevokeTokens(S),
             \E u, family : CutUser(u, resets) \/ CutFamily(u, family),
             \/ UNCHANGED accounts
             \/ \E u \in DOMAIN accounts :
                   accounts' = [accounts EXCEPT ![u].version = @ + 1],
             UNCHANGED <<issued, registration>>
      PROVE  LoginInv'
  <2>1. /\ IsTable(tickets', Ticket, TicketRow) /\ IsTable(sockets', Socket, TicketRow)
        /\ resets' \subseteq ResetRow
    BY <1>1, <1>2, CutKeepsTypes DEF LoginTypeOK
  <2>2. CASE UNCHANGED accounts
    <3>1. IsTable(tokens', 1..issued', TokenRow) /\ DOMAIN tokens' = DOMAIN tokens
          /\ \A t \in DOMAIN tokens : tokens'[t].family = tokens[t].family
      BY <1>1, <1>2, RevokedRows
    <3>. QED
      BY <1>2, <2>1, <2>2, <3>1 DEF LoginInv, LoginTypeOK
  <2>3. ASSUME NEW u \in DOMAIN accounts,
               accounts' = [accounts EXCEPT ![u].version = @ + 1]
        PROVE  LoginInv'
    <3>. DEFINE row == [accounts[u] EXCEPT !.version = @ + 1]
    <3>1. row \in AccountRow /\ accounts' = [accounts EXCEPT ![u] = row]
      BY <1>1, <2>3, AccountRows
    <3>. HIDE DEF row
    <3>. QED
      BY <1>1, <1>2, <2>1, <3>1, CommandKeepsInv DEF LoginTypeOK
  <2>. QED
    BY <1>2, <2>2, <2>3
<1>3. ASSUME NEW u \in User, NEW family, RevokeDevice(u, family) \/ ChangePassword(u, family)
      PROVE  LoginInv'
  BY <1>2, <1>3 DEF RevokeDevice, ChangePassword, Authenticated, MaySignIn
<1>4. ASSUME NEW t \in DOMAIN tokens, RevokeReused(t) \/ Logout(t)
      PROVE  LoginInv'
  BY <1>2, <1>4 DEF RevokeReused, Logout
<1>. QED
  BY <1>3, <1>4, RotateKeepsInv DEF AnyLoginStep

\* Time.
LEMMA TimeStepKeepsInv ==
    ASSUME LoginInv, TimeStep
    PROVE  LoginInv'
<1>1. PICK t \in DOMAIN tokens : GraceEnds(t) \/ TokenExpires(t)
  BY DEF TimeStep
<1>2. PICK row \in TokenRow :
         tokens' = [tokens EXCEPT ![t] = row] /\ row.family = tokens[t].family
  <2>1. tokens[t] \in TokenRow
    BY DEF LoginInv, LoginTypeOK, IsTable
  <2>2. CASE GraceEnds(t)
    <3>. DEFINE row == [tokens[t] EXCEPT !.recent = FALSE]
    <3>1. row \in TokenRow /\ row.family = tokens[t].family
      BY <2>1 DEF TokenRow
    <3>2. tokens' = [tokens EXCEPT ![t] = row]
      BY <2>2 DEF GraceEnds
    <3>. QED
      BY <3>1, <3>2
  <2>3. CASE TokenExpires(t)
    <3>. DEFINE row == [tokens[t] EXCEPT !.expiry = "passed", !.recent = FALSE]
    <3>1. row \in TokenRow /\ row.family = tokens[t].family
      BY <2>1 DEF TokenRow
    <3>2. tokens' = [tokens EXCEPT ![t] = row]
      BY <2>3 DEF TokenExpires
    <3>. QED
      BY <3>1, <3>2
  <2>. QED
    BY <1>1, <2>2, <2>3
<1>. QED
  BY <1>1, <1>2 DEF GraceEnds, TokenExpires, LoginInv, LoginTypeOK, IsTable

\* Tickets, sockets and a restart.
LEMMA SocketStepKeepsInv ==
    ASSUME LoginInv, SocketStep
    PROVE  LoginInv'
<1>1. LoginTypeOK
  BY DEF LoginInv
<1>2. ASSUME IsTable(tickets', Ticket, TicketRow), IsTable(sockets', Socket, TicketRow),
             resets' \subseteq ResetRow, UNCHANGED <<accounts, tokens, issued, registration>>
      PROVE  LoginInv'
  BY <1>2 DEF LoginInv, LoginTypeOK
<1>3. ASSUME NEW u \in User, NEW family \in 1..issued, NEW k \in Ticket,
             NEW kind \in {"member", "social"}, IssueTicket(u, family, k, kind)
      PROVE  LoginInv'
  <2>1. [user |-> u, family |-> family, kind |-> kind] \in TicketRow
    BY <1>1 DEF TicketRow, LoginTypeOK
  <2>. QED
    BY <1>1, <1>2, <1>3, <2>1, PutIsTable DEF IssueTicket, LoginTypeOK
<1>4. ASSUME NEW k \in Ticket, TicketExpires(k)
      PROVE  LoginInv'
  BY <1>1, <1>2, <1>4, WithoutIsTable DEF TicketExpires, LoginTypeOK
<1>5. ASSUME NEW k \in Ticket, NEW c \in Socket, Connect(k, c)
      PROVE  LoginInv'
  <2>1. tickets[k] \in TicketRow
    BY <1>1, <1>5 DEF Connect, LoginTypeOK, IsTable
  <2>. QED
    BY <1>1, <1>2, <1>5, <2>1, WithoutIsTable, PutIsTable DEF Connect, LoginTypeOK
<1>6. ASSUME Heartbeat \/ \E c \in Socket : Disconnect(c)
      PROVE  LoginInv'
  BY <1>1, <1>2, <1>6, WithoutIsTable DEF Heartbeat, Disconnect, LoginTypeOK
<1>7. CASE StopAndStart
  BY <1>1, <1>2, <1>7, CutKeepsTypes DEF StopAndStart, LoginTypeOK
<1>. QED
  BY <1>3, <1>4, <1>5, <1>6, <1>7 DEF SocketStep

-----------------------------------------------------------------------------
(* Next *)

\* What the browser makes the server do is what any client may make it do.
LEMMA BrowserUsesServer ==
    ASSUME BrowserStep
    PROVE  AccountStep \/ AnyLoginStep \/ UNCHANGED loginVars
<1>1. PICK tab \in Tab :
         \/ RequestUnauthorized(tab) \/ SendRefresh(tab) \/ AnswerRefresh(tab)
         \/ ReceiveAnswer(tab) \/ LoseAnswer(tab)
         \/ \E u \in User : SignInTab(tab, u)
         \/ SignOutTab(tab)
  BY DEF BrowserStep
<1>2. CASE AnswerRefresh(tab)
  BY <1>2 DEF AnswerRefresh, AnyLoginStep, Rotate, Rotatable, RevokeReused, Reused,
     RefreshAllowed
<1>3. CASE \E u \in User : SignInTab(tab, u)
  BY <1>3 DEF SignInTab, AccountStep
<1>4. CASE SignOutTab(tab)
  BY <1>4 DEF SignOutTab, AnyLoginStep
<1>. QED
  BY <1>1, <1>2, <1>3, <1>4 DEF RequestUnauthorized, SendRefresh, ReceiveAnswer,
     LoseAnswer

\* What a step is for the server.
LEMMA StepOfServer ==
    ASSUME [Next]_vars
    PROVE  \/ AdminStep \/ ResetStep \/ AccountStep \/ AnyLoginStep
           \/ TimeStep \/ SocketStep \/ UNCHANGED loginVars
<1>1. LoginStep => AnyLoginStep
  BY DEF LoginStep, AnyLoginStep
<1>. QED
  BY <1>1, BrowserUsesServer DEF Next, ServerStep, vars

\* Every step, whoever takes it, leaves the types of the logins.
LEMMA NextKeepsInv ==
    ASSUME LoginInv, [Next]_vars
    PROVE  LoginInv'
<1>1. CASE UNCHANGED loginVars
  BY <1>1 DEF loginVars, LoginInv, LoginTypeOK
<1>. QED
  BY <1>1, StepOfServer, AdminStepKeepsInv, ResetStepKeepsInv, AccountStepKeepsInv,
     LoginStepKeepsInv, TimeStepKeepsInv, SocketStepKeepsInv

\* The tables of the accounts and their logins keep their types, through every
\* handler, timer, restart and refresh of a browser.
THEOREM LoginInvariant == Spec => []LoginInv
<1>1. Init => LoginInv
  BY NoRowsIsTable DEF Init, LoginInit, LoginInv, LoginTypeOK, NoRows
<1>2. LoginInv /\ [Next]_vars => LoginInv'
  BY NextKeepsInv
<1>. QED
  BY <1>1, <1>2, PTL DEF Spec

-----------------------------------------------------------------------------
(* An administrator *)

\* A command acts on another account than the administrator's, or leaves role
\* and status as they are.
LEMMA AdminStepKeepsAdmin ==
    ASSUME LoginInv, AnAdminRemains, AdminStep
    PROVE  AnAdminRemains'
<1>1. PICK a \in User, u \in User, family \in 1..issued :
         \/ ChangeRole(a, family, u) \/ RevokeLogins(a, family, u)
         \/ SetLoginExpiration(a, family, u)
         \/ Disable(a, family, u) \/ Enable(a, family, u)
         \/ DeleteAccount(a, family, u) \/ BeginReset(a, family, u)
         \/ \E open \in BOOLEAN : SetRegistration(a, family, open)
  BY DEF AdminStep
<1>2. a \in DOMAIN accounts /\ accounts[a].role = "admin" /\ accounts[a].status = "active"
  BY <1>1 DEF ChangeRole, RevokeLogins, SetLoginExpiration, Disable, Enable,
     DeleteAccount, BeginReset, SetRegistration, ActsOn, ActiveAdmin, Authenticated,
     MaySignIn
<1>3. accounts[a] \in AccountRow
  BY <1>2, AccountRows DEF LoginInv
<1>4. DOMAIN accounts' = DOMAIN accounts
  BY <1>1 DEF ChangeRole, RevokeLogins, SetLoginExpiration, Disable, Enable,
     DeleteAccount, BeginReset, SetRegistration
<1>5. accounts'[a].role = "admin" /\ accounts'[a].status = "active"
  <2>1. CASE u # a
    BY <1>1, <1>2, <2>1 DEF ChangeRole, RevokeLogins, SetLoginExpiration, Disable,
       Enable, DeleteAccount, BeginReset, SetRegistration
  <2>2. CASE u = a
    BY <1>1, <1>2, <1>3, <2>2 DEF ChangeRole, RevokeLogins, SetLoginExpiration, Disable,
       Enable, DeleteAccount, BeginReset, SetRegistration, ActsOn, AccountRow
  <2>. QED
    BY <2>1, <2>2
<1>. QED
  BY <1>2, <1>4, <1>5 DEF AnAdminRemains

\* Nothing else takes a role away or disables an account.
LEMMA NextKeepsAdmin ==
    ASSUME LoginInv, AnAdminRemains, [Next]_vars
    PROVE  AnAdminRemains'
<1>1. LoginTypeOK
  BY DEF LoginInv
<1>2. CASE UNCHANGED accounts
  BY <1>2 DEF AnAdminRemains
<1>3. ASSUME DOMAIN accounts \subseteq DOMAIN accounts', accounts # NoRows,
             \A u \in DOMAIN accounts : /\ accounts'[u].role = accounts[u].role
                                       /\ accounts'[u].status = accounts[u].status
      PROVE  AnAdminRemains'
  BY <1>3 DEF AnAdminRemains
<1>4. ASSUME NEW u \in DOMAIN accounts, NEW row \in AccountRow,
             accounts' = [accounts EXCEPT ![u] = row],
             row.role = accounts[u].role, row.status = accounts[u].status
      PROVE  AnAdminRemains'
  <2>1. accounts # NoRows
    BY DEF NoRows
  <2>. QED
    BY <1>1, <1>3, <1>4, <2>1, AccountWritten
<1>5. CASE AccountStep
  <2>1. PICK u \in User :
           Bootstrap(u) \/ Register(u) \/ Login(u) \/ CompletePasswordChange(u)
    BY <1>5 DEF AccountStep
  <2>2. CASE Bootstrap(u)
    BY <2>2 DEF Bootstrap, NewAccount, Put, AnAdminRemains
  <2>3. CASE Register(u)
    BY <1>3, <2>3 DEF Register, Put
  <2>4. CASE Login(u)
    BY <1>2, <2>4 DEF Login
  <2>5. CASE CompletePasswordChange(u)
    <3>. DEFINE row == [accounts[u] EXCEPT !.mustChange = FALSE, !.version = @ + 1]
    <3>1. u \in DOMAIN accounts /\ accounts' = [accounts EXCEPT ![u] = row]
      BY <2>5 DEF CompletePasswordChange
    <3>2. row \in AccountRow /\ accounts[u] \in AccountRow
      BY <1>1, <3>1, AccountRows
    <3>3. row.role = accounts[u].role /\ row.status = accounts[u].status
      BY <3>2 DEF AccountRow
    <3>. HIDE DEF row
    <3>. QED
      BY <1>4, <3>1, <3>2, <3>3
  <2>. QED
    BY <2>1, <2>2, <2>3, <2>4, <2>5
<1>6. CASE AnyLoginStep
  <2>1. ASSUME NEW u \in User, NEW family, ChangePassword(u, family)
        PROVE  AnAdminRemains'
    <3>. DEFINE row == [accounts[u] EXCEPT !.version = @ + 1]
    <3>1. u \in DOMAIN accounts /\ accounts' = [accounts EXCEPT ![u] = row]
      BY <2>1 DEF ChangePassword, Authenticated, MaySignIn
    <3>2. row \in AccountRow /\ accounts[u] \in AccountRow
      BY <1>1, <3>1, AccountRows
    <3>3. row.role = accounts[u].role /\ row.status = accounts[u].status
      BY <3>2 DEF AccountRow
    <3>. HIDE DEF row
    <3>. QED
      BY <1>4, <3>1, <3>2, <3>3
  <2>. QED
    BY <1>2, <1>6, <2>1 DEF AnyLoginStep, RevokeDevice, Rotate, RevokeReused, Logout
<1>7. CASE ResetStep
  <2>1. PICK r \in resets : FinishReset(r) \/ AbandonReset(r)
    BY <1>7 DEF ResetStep
  <2>2. CASE FinishReset(r)
    <3>. DEFINE row == [accounts[r.user] EXCEPT !.mustChange = TRUE, !.version = @ + 1]
    <3>1. accounts' = [accounts EXCEPT ![r.user] = row]
      BY <2>2 DEF FinishReset
    <3>2. CASE r.user \in DOMAIN accounts
      <4>1. row \in AccountRow /\ accounts[r.user] \in AccountRow
        BY <1>1, <3>2, AccountRows
      <4>2. row.role = accounts[r.user].role /\ row.status = accounts[r.user].status
        BY <4>1 DEF AccountRow
      <4>. HIDE DEF row
      <4>. QED
        BY <1>4, <3>1, <3>2, <4>1, <4>2
    <3>3. CASE r.user \notin DOMAIN accounts
      BY <1>1, <1>2, <3>1, <3>3 DEF LoginTypeOK, IsTable
    <3>. QED
      BY <3>2, <3>3
  <2>. QED
    BY <1>2, <2>1, <2>2 DEF AbandonReset
<1>8. CASE TimeStep \/ SocketStep \/ UNCHANGED loginVars
  BY <1>2, <1>8 DEF TimeStep, GraceEnds, TokenExpires, SocketStep, IssueTicket,
     TicketExpires, Connect, Disconnect, Heartbeat, StopAndStart, loginVars
<1>. QED
  BY <1>5, <1>6, <1>7, <1>8, AdminStepKeepsAdmin, StepOfServer

\* Whatever administrators do to each other at the same time, one that can act
\* is left (the counts of PATCH /role and POST /disable, the test against acting
\* on oneself, and the re-authentication inside each transaction).
THEOREM AnAdministratorRemains == Spec => []AnAdminRemains
<1>1. Init => AnAdminRemains
  BY DEF Init, LoginInit, AnAdminRemains
<1>2. LoginInv /\ AnAdminRemains /\ [Next]_vars => AnAdminRemains'
  BY NextKeepsAdmin
<1>. QED
  BY <1>1, <1>2, LoginInvariant, PTL DEF Spec

-----------------------------------------------------------------------------
(* Logins fit accounts *)

\* What a step leaves of an account that may sign in and is not among Changed.
KeepsBut(Changed) ==
    \A u : MaySignIn(u) /\ u \notin Changed =>
             MaySignIn(u)' /\ accounts'[u].version = accounts[u].version

\* The table from which a token of the family is issued: of the logins as they
\* were, those of Changed and those of the family are revoked.
StartsFrom(table, family, Changed) ==
    \A t \in DOMAIN table :
        /\ t \in DOMAIN tokens
        /\ table[t].user = tokens[t].user
        /\ table[t].family = tokens[t].family
        /\ table[t].version = tokens[t].version
        /\ table[t].expiry # "passed" /\ ~table[t].revoked =>
              /\ Usable(t)
              /\ table[t].family # family
              /\ tokens[t].user \notin Changed

\* A step that only ends logins, among them all of the accounts it changes.
LEMMA EndingKeepsFit ==
    ASSUME LoginsFitAccounts, NEW Changed,
           \A t \in DOMAIN tokens' :
              /\ t \in DOMAIN tokens
              /\ tokens'[t].user = tokens[t].user
              /\ tokens'[t].family = tokens[t].family
              /\ tokens'[t].version = tokens[t].version
              /\ Usable(t)' => Usable(t) /\ tokens[t].user \notin Changed,
           KeepsBut(Changed)
    PROVE  LoginsFitAccounts'
BY DEF LoginsFitAccounts, KeepsBut

\* A token is issued for an account that may sign in, in a family that has no
\* other token that works.
LEMMA IssuingKeepsFit ==
    ASSUME LoginInv, LoginsFitAccounts, NEW Changed,
           NEW table, IsTable(table, 1..issued, TokenRow),
           NEW u \in User, NEW version \in Nat, NEW family \in Nat,
           Issue(table, u, version, family), StartsFrom(table, family, Changed),
           MaySignIn(u)', accounts'[u].version = version, KeepsBut(Changed)
    PROVE  LoginsFitAccounts'
<1>1. /\ \A t \in DOMAIN tokens' :
            t = issued + 1 \/ (t \in DOMAIN table /\ table[t].expiry # "passed")
      /\ tokens'[issued + 1].user = u
      /\ tokens'[issued + 1].version = version
      /\ tokens'[issued + 1].family = family
      /\ \A t \in DOMAIN table : t \in DOMAIN tokens' => tokens'[t] = table[t]
  <2>1. issued \in Nat
    BY DEF LoginInv, LoginTypeOK
  <2>. QED
    BY <2>1, IssuedRows
<1>2. ASSUME NEW t \in DOMAIN tokens', Usable(t)', t # issued + 1
      PROVE  /\ t \in DOMAIN tokens /\ Usable(t) /\ tokens'[t].family # family
             /\ tokens'[t].user = tokens[t].user
             /\ tokens'[t].family = tokens[t].family
             /\ tokens'[t].version = tokens[t].version
             /\ tokens[t].user \notin Changed
  <2>1. t \in DOMAIN table /\ table[t].expiry # "passed" /\ tokens'[t] = table[t]
    BY <1>1, <1>2
  <2>2. ~table[t].revoked
    BY <1>2, <2>1 DEF Usable
  <2>. QED
    BY <2>1, <2>2 DEF StartsFrom
<1>3. ASSUME NEW t \in DOMAIN tokens', Usable(t)'
      PROVE  /\ MaySignIn(tokens[t].user)'
             /\ tokens'[t].version = accounts'[tokens'[t].user].version
  BY <1>1, <1>2, <1>3 DEF LoginsFitAccounts, KeepsBut
<1>4. ASSUME NEW t \in DOMAIN tokens', NEW x \in DOMAIN tokens', Usable(t)', Usable(x)',
             tokens'[t].family = tokens'[x].family
      PROVE  x = t
  BY <1>1, <1>2, <1>4 DEF LoginsFitAccounts
<1>. QED
  BY <1>3, <1>4 DEF LoginsFitAccounts

\* Every login of u ends when u's row changes.
LEMMA RevokingKeepsFit ==
    ASSUME LoginInv, LoginsFitAccounts, NEW u, NEW S,
           tokens' = RevokeTokens(S),
           \/ UNCHANGED accounts
           \/ /\ UsableOf(u) \subseteq S
              /\ DOMAIN accounts' = DOMAIN accounts
              /\ \A x \in DOMAIN accounts \ {u} : accounts'[x] = accounts[x]
    PROVE  LoginsFitAccounts'
<1>1. /\ DOMAIN tokens' = DOMAIN tokens
      /\ \A t \in DOMAIN tokens :
            /\ tokens'[t].user = tokens[t].user
            /\ tokens'[t].family = tokens[t].family
            /\ tokens'[t].version = tokens[t].version
            /\ tokens'[t].expiry = tokens[t].expiry
            /\ tokens'[t].revoked <=> (tokens[t].revoked \/ t \in S)
  BY RevokedRows DEF LoginInv
<1>2. \A t \in DOMAIN tokens : Usable(t)' => Usable(t) /\ t \notin S
  BY <1>1 DEF Usable
<1>3. CASE UNCHANGED accounts
  <2>1. KeepsBut({})
    BY <1>3 DEF KeepsBut, MaySignIn
  <2>. QED
    BY <1>1, <1>2, <2>1, EndingKeepsFit
<1>4. CASE /\ UsableOf(u) \subseteq S
           /\ DOMAIN accounts' = DOMAIN accounts
           /\ \A x \in DOMAIN accounts \ {u} : accounts'[x] = accounts[x]
  <2>1. KeepsBut({u})
    BY <1>4 DEF KeepsBut, MaySignIn
  <2>2. \A t \in DOMAIN tokens' : Usable(t)' => Usable(t) /\ tokens[t].user \notin {u}
    BY <1>1, <1>2, <1>4 DEF UsableOf
  <2>. QED
    BY <1>1, <2>1, <2>2, EndingKeepsFit
<1>. QED
  BY <1>3, <1>4

\* The administrator's commands.
LEMMA AdminStepKeepsFit ==
    ASSUME LoginInv, LoginsFitAccounts, AdminStep
    PROVE  LoginsFitAccounts'
<1>1. LoginTypeOK
  BY DEF LoginInv
<1>2. PICK a \in User, u \in User, family \in 1..issued :
         \/ ChangeRole(a, family, u) \/ RevokeLogins(a, family, u)
         \/ SetLoginExpiration(a, family, u)
         \/ Disable(a, family, u) \/ Enable(a, family, u)
         \/ DeleteAccount(a, family, u) \/ BeginReset(a, family, u)
         \/ \E open \in BOOLEAN : SetRegistration(a, family, open)
  BY DEF AdminStep
<1>3. CASE ChangeRole(a, family, u) \/ RevokeLogins(a, family, u) \/ Disable(a, family, u)
  <2>1. /\ DOMAIN accounts' = DOMAIN accounts
        /\ \A x \in DOMAIN accounts \ {u} : accounts'[x] = accounts[x]
        /\ tokens' = RevokeTokens(UsableOf(u))
    BY <1>3 DEF ChangeRole, RevokeLogins, Disable
  <2>. QED
    BY <2>1, RevokingKeepsFit
<1>4. CASE SetLoginExpiration(a, family, u)
  <2>1. /\ DOMAIN tokens' = DOMAIN tokens
        /\ \A t \in DOMAIN tokens :
              tokens'[t] = IF t \in UsableOf(u)
                           THEN [tokens[t] EXCEPT !.expiry = IF ~accounts[u].never
                                                             THEN "persistent"
                                                             ELSE "running"]
                           ELSE tokens[t]
    BY <1>4 DEF SetLoginExpiration
  <2>2. \A t \in DOMAIN tokens :
              /\ tokens'[t].user = tokens[t].user
              /\ tokens'[t].family = tokens[t].family
              /\ tokens'[t].version = tokens[t].version
              /\ Usable(t)' => Usable(t)
    <3>1. \A t \in DOMAIN tokens : tokens[t] \in TokenRow
      BY <1>1 DEF LoginTypeOK, IsTable
    <3>. QED
      BY <2>1, <3>1 DEF TokenRow, Usable, UsableOf
  <2>3. /\ DOMAIN accounts' = DOMAIN accounts
        /\ \A x \in DOMAIN accounts : /\ accounts'[x].status = accounts[x].status
                                      /\ accounts'[x].mustChange = accounts[x].mustChange
                                      /\ accounts'[x].version = accounts[x].version
    <3>. DEFINE never == ~accounts[u].never
    <3>1. accounts' = [accounts EXCEPT ![u] = [accounts[u] EXCEPT !.never = never]]
      BY <1>4 DEF SetLoginExpiration
    <3>2. \A x \in DOMAIN accounts : accounts[x] \in AccountRow
      BY <1>1, AccountRows
    <3>. HIDE DEF never
    <3>. QED
      BY <3>1, <3>2 DEF AccountRow
  <2>4. KeepsBut({})
    BY <2>3 DEF KeepsBut, MaySignIn
  <2>. QED
    BY <2>1, <2>2, <2>4, EndingKeepsFit
<1>5. CASE Enable(a, family, u)
  <2>1. /\ UNCHANGED tokens /\ ~MaySignIn(u)
        /\ DOMAIN accounts' = DOMAIN accounts
        /\ \A x \in DOMAIN accounts \ {u} : accounts'[x] = accounts[x]
    BY <1>5 DEF Enable, MaySignIn
  <2>2. KeepsBut({u})
    BY <2>1 DEF KeepsBut, MaySignIn
  <2>3. \A t \in DOMAIN tokens' : Usable(t)' => Usable(t) /\ tokens[t].user \notin {u}
    BY <2>1 DEF Usable, LoginsFitAccounts
  <2>. QED
    BY <2>1, <2>2, <2>3, EndingKeepsFit
<1>6. CASE DeleteAccount(a, family, u)
  <2>. DEFINE kept == {t \in DOMAIN tokens : tokens[t].user # u}
  <2>1. /\ tokens' = Restrict(tokens, kept)
        /\ DOMAIN accounts' = DOMAIN accounts
        /\ \A x \in DOMAIN accounts \ {u} : accounts'[x] = accounts[x]
    BY <1>6 DEF DeleteAccount
  <2>2. \A t \in DOMAIN tokens' : /\ t \in DOMAIN tokens /\ tokens[t].user # u
                                  /\ tokens'[t] = tokens[t]
    BY <2>1 DEF Restrict
  <2>3. \A t \in DOMAIN tokens' : Usable(t)' => Usable(t) /\ tokens[t].user \notin {u}
    BY <2>2 DEF Usable
  <2>4. KeepsBut({u})
    BY <2>1 DEF KeepsBut, MaySignIn
  <2>. QED
    BY <2>2, <2>3, <2>4, EndingKeepsFit
<1>7. CASE BeginReset(a, family, u) \/ \E open \in BOOLEAN : SetRegistration(a, family, open)
  BY <1>7 DEF BeginReset, SetRegistration, LoginsFitAccounts, MaySignIn, Usable
<1>. QED
  BY <1>2, <1>3, <1>4, <1>5, <1>6, <1>7

\* A login is in a family of its own, and u's other logins go when its row changes.
LEMMA SigningInKeepsFit ==
    ASSUME LoginInv, LoginsFitAccounts, NEW u \in User, NEW version \in Nat,
           NEW Changed, NEW table, IsTable(table, 1..issued, TokenRow),
           SignIn(table, u, version),
           \A t \in DOMAIN table :
              /\ t \in DOMAIN tokens
              /\ table[t].user = tokens[t].user
              /\ table[t].family = tokens[t].family
              /\ table[t].version = tokens[t].version
              /\ table[t].expiry = tokens[t].expiry
              /\ tokens[t].revoked => table[t].revoked,
           MaySignIn(u)', accounts'[u].version = version,
           \A t \in DOMAIN table : tokens[t].user \in Changed => table[t].revoked,
           KeepsBut(Changed)
    PROVE  LoginsFitAccounts'
<1>1. PICK family \in Nat : family = issued + 1 /\ Issue(table, u, version, family)
  BY DEF SignIn, LoginInv, LoginTypeOK
<1>2. StartsFrom(table, family, Changed)
  BY <1>1 DEF StartsFrom, Usable, LoginInv, LoginTypeOK
<1>. QED
  BY <1>1, <1>2, IssuingKeepsFit

\* The tables a login may start from.
LEMMA LoginTables ==
    ASSUME LoginInv, NEW S
    PROVE  \A table \in {tokens, RevokeTokens(S)} :
              /\ IsTable(table, 1..issued, TokenRow)
              /\ \A t \in DOMAIN table :
                    /\ t \in DOMAIN tokens
                    /\ table[t].user = tokens[t].user
                    /\ table[t].family = tokens[t].family
                    /\ table[t].version = tokens[t].version
                    /\ table[t].expiry = tokens[t].expiry
                    /\ tokens[t].revoked => table[t].revoked
BY RevokedRows DEF LoginInv, LoginTypeOK

\* Registering, signing in and completing a reset.
LEMMA AccountStepKeepsFit ==
    ASSUME LoginInv, LoginsFitAccounts, AccountStep
    PROVE  LoginsFitAccounts'
<1>1. LoginTypeOK
  BY DEF LoginInv
<1>2. PICK u \in User :
         Bootstrap(u) \/ Register(u) \/ Login(u) \/ CompletePasswordChange(u)
  BY DEF AccountStep
<1>3. CASE Bootstrap(u) \/ Register(u)
  <2>1. /\ u \notin DOMAIN accounts
        /\ \E role : accounts' = Put(accounts, u, NewAccount(role))
        /\ SignIn(tokens, u, 1)
    BY <1>3 DEF Bootstrap, Register, NoRows
  <2>2. MaySignIn(u)' /\ accounts'[u].version = 1 /\ KeepsBut({})
    BY <2>1 DEF Put, MaySignIn, NewAccount, KeepsBut
  <2>3. IsTable(tokens, 1..issued, TokenRow)
    BY <1>1 DEF LoginTypeOK
  <2>. QED
    BY <2>1, <2>2, <2>3, SigningInKeepsFit
<1>4. CASE Login(u)
  <2>1. /\ MaySignIn(u) /\ UNCHANGED accounts
        /\ SignIn(tokens, u, accounts[u].version)
    BY <1>4 DEF Login, MayLogIn
  <2>2. accounts[u].version \in Nat
    BY <1>1, <2>1, AccountRows DEF MaySignIn, AccountRow
  <2>3. MaySignIn(u)' /\ KeepsBut({})
    BY <2>1 DEF MaySignIn, KeepsBut
  <2>. DEFINE version == accounts[u].version
  <2>4. /\ version \in Nat /\ SignIn(tokens, u, version)
        /\ accounts'[u].version = version
    BY <2>1, <2>2
  <2>. HIDE DEF version
  <2>. QED
    BY <2>1, <2>3, <2>4, SigningInKeepsFit, LoginTables
<1>5. CASE CompletePasswordChange(u)
  <2>. DEFINE row == [accounts[u] EXCEPT !.mustChange = FALSE, !.version = @ + 1]
              table == RevokeTokens(UnrevokedOf(u))
              version == accounts[u].version + 1
  <2>1. /\ u \in DOMAIN accounts /\ accounts[u].status = "active"
        /\ accounts' = [accounts EXCEPT ![u] = row]
        /\ SignIn(table, u, version)
    BY <1>5 DEF CompletePasswordChange
  <2>2. accounts[u] \in AccountRow /\ row \in AccountRow
    BY <1>1, <2>1, AccountRows
  <2>3. /\ row.status = "active" /\ row.mustChange = FALSE /\ row.version = version
        /\ version \in Nat
    BY <2>1, <2>2 DEF AccountRow
  <2>4. \A t \in DOMAIN table : table[t].revoked \/ tokens[t].user # u
    BY <1>1, RevokedRows DEF UnrevokedOf
  <2>. HIDE DEF row, table, version
  <2>5. /\ DOMAIN accounts' = DOMAIN accounts /\ accounts'[u] = row
        /\ \A x \in DOMAIN accounts \ {u} : accounts'[x] = accounts[x]
    BY <2>1
  <2>6. MaySignIn(u)' /\ accounts'[u].version = version /\ KeepsBut({u})
    BY <2>1, <2>3, <2>5 DEF MaySignIn, KeepsBut
  <2>7. \A t \in DOMAIN table : tokens[t].user \in {u} => table[t].revoked
    BY <2>4
  <2>8. /\ IsTable(table, 1..issued, TokenRow)
        /\ \A t \in DOMAIN table :
              /\ t \in DOMAIN tokens
              /\ table[t].user = tokens[t].user
              /\ table[t].family = tokens[t].family
              /\ table[t].version = tokens[t].version
              /\ table[t].expiry = tokens[t].expiry
              /\ tokens[t].revoked => table[t].revoked
    BY LoginTables DEF table
  <2>. QED
    BY <2>1, <2>3, <2>5, <2>6, <2>7, <2>8, SigningInKeepsFit
<1>. QED
  BY <1>2, <1>3, <1>4, <1>5

\* A token is replaced within its family.
LEMMA RotateKeepsFit ==
    ASSUME LoginInv, LoginsFitAccounts, NEW t \in DOMAIN tokens, Rotate(t)
    PROVE  LoginsFitAccounts'
<1>. DEFINE old == [tokens[t] EXCEPT !.revoked = TRUE, !.recent = TRUE,
                                     !.next = issued + 1, !.expiry = "running"]
            table == Put(tokens, t, old)
<1>1. /\ LoginTypeOK /\ issued \in Nat
      /\ \A x \in DOMAIN tokens : tokens[x] \in TokenRow
  BY DEF LoginInv, LoginTypeOK, IsTable
<1>2. old \in TokenRow /\ old.revoked
      /\ old.user = tokens[t].user /\ old.version = tokens[t].version
      /\ old.family = tokens[t].family
  <2>. DEFINE next == issued + 1
  <2>1. next \in Nat
    BY <1>1
  <2>2. old = [tokens[t] EXCEPT !.revoked = TRUE, !.recent = TRUE,
                                !.next = next, !.expiry = "running"]
    OBVIOUS
  <2>. HIDE DEF next, old
  <2>. QED
    BY <1>1, <2>1, <2>2 DEF TokenRow
<1>3. Issue(table, old.user, old.version, old.family)
  BY DEF Rotate
<1>. HIDE DEF old
<1>4. PICK u \in User, version \in Nat, family \in Nat :
         /\ u = tokens[t].user /\ version = tokens[t].version
         /\ family = tokens[t].family /\ Issue(table, u, version, family)
  BY <1>1, <1>2, <1>3 DEF TokenRow
<1>5. /\ UNCHANGED accounts /\ Usable(t) /\ MaySignIn(u)
      /\ accounts[u].version = version
  BY <1>4 DEF Rotate, Rotatable, RefreshAllowed, Usable
<1>6. /\ DOMAIN table = DOMAIN tokens /\ table[t] = old
      /\ \A x \in DOMAIN tokens \ {t} : table[x] = tokens[x]
  BY DEF Put
<1>7. IsTable(table, 1..issued, TokenRow)
  BY <1>1, <1>2, PutIsTable DEF LoginTypeOK, IsTable
<1>8. StartsFrom(table, family, {})
  <2>. HIDE DEF table
  <2>. QED
    BY <1>2, <1>4, <1>5, <1>6 DEF StartsFrom, LoginsFitAccounts, Usable
<1>9. KeepsBut({}) /\ MaySignIn(u)' /\ accounts'[u].version = version
  BY <1>5 DEF KeepsBut, MaySignIn
<1>. HIDE DEF table
<1>. QED
  BY <1>4, <1>7, <1>8, <1>9, IssuingKeepsFit

\* What ends logins, and nothing else.
LEMMA LoginStepKeepsFit ==
    ASSUME LoginInv, LoginsFitAccounts, AnyLoginStep
    PROVE  LoginsFitAccounts'
<1>1. ASSUME NEW u, NEW family, RevokeDevice(u, family)
      PROVE  LoginsFitAccounts'
  BY <1>1, RevokingKeepsFit DEF RevokeDevice
<1>2. ASSUME NEW u, NEW family, ChangePassword(u, family)
      PROVE  LoginsFitAccounts'
  <2>1. /\ DOMAIN accounts' = DOMAIN accounts
        /\ \A x \in DOMAIN accounts \ {u} : accounts'[x] = accounts[x]
        /\ tokens' = RevokeTokens(UsableOf(u))
    BY <1>2 DEF ChangePassword
  <2>. QED
    BY <2>1, RevokingKeepsFit
<1>3. ASSUME NEW t \in DOMAIN tokens, RevokeReused(t) \/ Logout(t)
      PROVE  LoginsFitAccounts'
  <2>1. UNCHANGED accounts /\ \E S : tokens' = RevokeTokens(S)
    BY <1>3 DEF RevokeReused, Logout
  <2>. QED
    BY <2>1, RevokingKeepsFit
<1>. QED
  BY <1>1, <1>2, <1>3, RotateKeepsFit DEF AnyLoginStep

\* Every other step of the server ends logins at most.
LEMMA NextKeepsFit ==
    ASSUME LoginInv, LoginsFitAccounts, [Next]_vars
    PROVE  LoginsFitAccounts'
<1>1. CASE ResetStep
  <2>1. PICK r \in resets : FinishReset(r) \/ AbandonReset(r)
    BY <1>1 DEF ResetStep
  <2>2. CASE FinishReset(r)
    <3>1. /\ DOMAIN accounts' = DOMAIN accounts
          /\ \A x \in DOMAIN accounts \ {r.user} : accounts'[x] = accounts[x]
          /\ tokens' = RevokeTokens(UsableOf(r.user))
      BY <2>2 DEF FinishReset
    <3>. QED
      BY <3>1, RevokingKeepsFit
  <2>3. CASE AbandonReset(r)
    BY <2>3 DEF AbandonReset, LoginsFitAccounts, MaySignIn, Usable
  <2>. QED
    BY <2>1, <2>2, <2>3
<1>2. CASE TimeStep
  <2>1. PICK t \in DOMAIN tokens : GraceEnds(t) \/ TokenExpires(t)
    BY <1>2 DEF TimeStep
  <2>2. /\ UNCHANGED accounts
        /\ \/ tokens' = [tokens EXCEPT ![t].recent = FALSE]
           \/ tokens' = [tokens EXCEPT ![t].expiry = "passed", ![t].recent = FALSE]
    BY <2>1 DEF GraceEnds, TokenExpires
  <2>3. \A x \in DOMAIN tokens : tokens[x] \in TokenRow
    BY DEF LoginInv, LoginTypeOK, IsTable
  <2>4. /\ DOMAIN tokens' = DOMAIN tokens
        /\ \A x \in DOMAIN tokens :
              /\ tokens'[x].user = tokens[x].user
              /\ tokens'[x].family = tokens[x].family
              /\ tokens'[x].version = tokens[x].version
              /\ Usable(x)' => Usable(x)
    BY <2>2, <2>3 DEF TokenRow, Usable
  <2>5. KeepsBut({})
    BY <2>2 DEF KeepsBut, MaySignIn
  <2>. QED
    BY <2>4, <2>5, EndingKeepsFit
<1>3. CASE SocketStep \/ UNCHANGED loginVars
  <2>1. UNCHANGED <<accounts, tokens>>
    BY <1>3 DEF SocketStep, IssueTicket, TicketExpires, Connect, Disconnect,
       Heartbeat, StopAndStart, loginVars
  <2>. QED
    BY <2>1 DEF LoginsFitAccounts, MaySignIn, Usable
<1>. QED
  BY <1>1, <1>2, <1>3, AdminStepKeepsFit, AccountStepKeepsFit, LoginStepKeepsFit,
     StepOfServer

\* No order of disabling, resets, role changes, password changes and rotations
\* leaves a login behind that its account does not allow (rotateRefreshToken,
\* updateUserPassword, the commands of admin-governance-v1).
THEOREM WorkingLoginsFit == Spec => []LoginsFitAccounts
<1>1. Init => LoginsFitAccounts
  BY DEF Init, LoginInit, LoginsFitAccounts, NoRows
<1>2. LoginInv /\ LoginsFitAccounts /\ [Next]_vars => LoginsFitAccounts'
  BY NextKeepsFit
<1>. QED
  BY <1>1, <1>2, LoginInvariant, PTL DEF Spec

-----------------------------------------------------------------------------
(* Ended logins *)

\* Every login that works after a step worked before it, or is new.
NoneComesBack ==
    \A t \in DOMAIN tokens' : Usable(t)' =>
        \/ tokens'[t].family \notin 1..issued
        \/ \E x \in DOMAIN tokens : /\ Usable(x)
                                    /\ tokens[x].user = tokens'[t].user
                                    /\ tokens[x].family = tokens'[t].family

\* A step that issues no token.
OnlyEnds ==
    \A t \in DOMAIN tokens' :
        /\ t \in DOMAIN tokens
        /\ tokens'[t].user = tokens[t].user
        /\ tokens'[t].family = tokens[t].family
        /\ Usable(t)' => Usable(t)

\* Such a step brings no login back.
LEMMA EndingBringsNoneBack == OnlyEnds => NoneComesBack
BY DEF OnlyEnds, NoneComesBack

\* Nor does one that revokes, or leaves the table alone.
LEMMA RevokingEnds ==
    ASSUME LoginInv, NEW S, tokens' = RevokeTokens(S) \/ UNCHANGED tokens
    PROVE  OnlyEnds
<1>1. CASE tokens' = RevokeTokens(S)
  <2>1. /\ DOMAIN tokens' = DOMAIN tokens
        /\ \A t \in DOMAIN tokens :
              /\ tokens'[t].user = tokens[t].user
              /\ tokens'[t].family = tokens[t].family
              /\ tokens'[t].expiry = tokens[t].expiry
              /\ tokens'[t].revoked <=> (tokens[t].revoked \/ t \in S)
    BY <1>1, RevokedRows DEF LoginInv
  <2>. QED
    BY <2>1 DEF OnlyEnds, Usable
<1>2. CASE UNCHANGED tokens
  BY <1>2 DEF OnlyEnds, Usable
<1>. QED
  BY <1>1, <1>2

\* The administrator's commands.
LEMMA AdminStepEnds ==
    ASSUME LoginInv, AdminStep
    PROVE  OnlyEnds
<1>1. PICK a \in User, u \in User, family \in 1..issued :
         \/ ChangeRole(a, family, u) \/ RevokeLogins(a, family, u)
         \/ SetLoginExpiration(a, family, u)
         \/ Disable(a, family, u) \/ Enable(a, family, u)
         \/ DeleteAccount(a, family, u) \/ BeginReset(a, family, u)
         \/ \E open \in BOOLEAN : SetRegistration(a, family, open)
  BY DEF AdminStep
<1>2. CASE SetLoginExpiration(a, family, u)
  <2>1. /\ DOMAIN tokens' = DOMAIN tokens
        /\ \A t \in DOMAIN tokens :
              tokens'[t] = IF t \in UsableOf(u)
                           THEN [tokens[t] EXCEPT !.expiry = IF ~accounts[u].never
                                                             THEN "persistent"
                                                             ELSE "running"]
                           ELSE tokens[t]
    BY <1>2 DEF SetLoginExpiration
  <2>2. \A t \in DOMAIN tokens : tokens[t] \in TokenRow
    BY DEF LoginInv, LoginTypeOK, IsTable
  <2>. QED
    BY <2>1, <2>2 DEF TokenRow, Usable, UsableOf, OnlyEnds
<1>3. CASE DeleteAccount(a, family, u)
  BY <1>3 DEF DeleteAccount, Restrict, OnlyEnds, Usable
<1>4. CASE tokens' = RevokeTokens(UsableOf(u)) \/ UNCHANGED tokens
  BY <1>4, RevokingEnds
<1>. QED
  BY <1>1, <1>2, <1>3, <1>4
     DEF ChangeRole, RevokeLogins, Disable, Enable, BeginReset, SetRegistration

\* A token of a new family, or one that replaces a token that works.
LEMMA IssuingBringsNoneBack ==
    ASSUME LoginInv, NEW table, IsTable(table, 1..issued, TokenRow),
           NEW u \in User, NEW version \in Nat, NEW family \in Nat,
           Issue(table, u, version, family),
           \A t \in DOMAIN table :
              /\ t \in DOMAIN tokens
              /\ table[t].user = tokens[t].user
              /\ table[t].family = tokens[t].family
              /\ table[t].expiry # "passed" /\ ~table[t].revoked => Usable(t),
           \/ family = issued + 1
           \/ \E x \in DOMAIN tokens : /\ Usable(x) /\ tokens[x].user = u
                                       /\ tokens[x].family = family
    PROVE  NoneComesBack
<1>1. issued \in Nat
  BY DEF LoginInv, LoginTypeOK
<1>2. /\ \A t \in DOMAIN tokens' :
            t = issued + 1 \/ (t \in DOMAIN table /\ table[t].expiry # "passed")
      /\ tokens'[issued + 1].user = u
      /\ tokens'[issued + 1].family = family
      /\ \A t \in DOMAIN table : t \in DOMAIN tokens' => tokens'[t] = table[t]
  BY <1>1, IssuedRows
<1>3. ASSUME NEW t \in DOMAIN tokens', Usable(t)', t # issued + 1
      PROVE  /\ t \in DOMAIN tokens /\ Usable(t)
             /\ tokens[t].user = tokens'[t].user
             /\ tokens[t].family = tokens'[t].family
  BY <1>2, <1>3 DEF Usable
<1>. QED
  BY <1>1, <1>2, <1>3 DEF NoneComesBack

\* Registering, signing in and completing a reset.
LEMMA AccountStepBringsNoneBack ==
    ASSUME LoginInv, AccountStep
    PROVE  NoneComesBack
<1>1. LoginTypeOK
  BY DEF LoginInv
<1>2. PICK u \in User :
         Bootstrap(u) \/ Register(u) \/ Login(u) \/ CompletePasswordChange(u)
  BY DEF AccountStep
<1>3. PICK version \in Nat, family \in Nat, S \in SUBSET DOMAIN tokens :
         /\ family = issued + 1
         /\ \/ Issue(tokens, u, version, family)
            \/ Issue(RevokeTokens(S), u, version, family)
  <2>1. issued + 1 \in Nat
    BY <1>1 DEF LoginTypeOK
  <2>2. CASE Bootstrap(u) \/ Register(u)
    BY <2>1, <2>2 DEF Bootstrap, Register, SignIn
  <2>3. CASE Login(u)
    <3>1. accounts[u].version \in Nat
      BY <1>1, <2>3, AccountRows DEF Login, MayLogIn, MaySignIn, AccountRow
    <3>. QED
      BY <2>1, <2>3, <3>1 DEF Login, SignIn
  <2>4. CASE CompletePasswordChange(u)
    <3>1. u \in DOMAIN accounts
      BY <2>4 DEF CompletePasswordChange
    <3>2. accounts[u].version + 1 \in Nat
      BY <1>1, <3>1, AccountRows DEF AccountRow
    <3>. QED
      BY <2>1, <2>4, <3>2 DEF CompletePasswordChange, SignIn, UnrevokedOf
  <2>. QED
    BY <1>2, <2>2, <2>3, <2>4
<1>4. \A table \in {tokens, RevokeTokens(S)} :
         /\ IsTable(table, 1..issued, TokenRow)
         /\ \A t \in DOMAIN table :
               /\ t \in DOMAIN tokens
               /\ table[t].user = tokens[t].user
               /\ table[t].family = tokens[t].family
               /\ table[t].expiry # "passed" /\ ~table[t].revoked => Usable(t)
  BY LoginTables DEF Usable
<1>. QED
  BY <1>3, <1>4, IssuingBringsNoneBack

\* A token is replaced only while it works.
LEMMA RotateBringsNoneBack ==
    ASSUME LoginInv, NEW t \in DOMAIN tokens, Rotate(t)
    PROVE  NoneComesBack
<1>. DEFINE old == [tokens[t] EXCEPT !.revoked = TRUE, !.recent = TRUE,
                                     !.next = issued + 1, !.expiry = "running"]
            table == Put(tokens, t, old)
<1>1. /\ LoginTypeOK /\ issued \in Nat
      /\ \A x \in DOMAIN tokens : tokens[x] \in TokenRow
  BY DEF LoginInv, LoginTypeOK, IsTable
<1>2. old \in TokenRow /\ old.revoked
      /\ old.user = tokens[t].user /\ old.version = tokens[t].version
      /\ old.family = tokens[t].family
  <2>. DEFINE next == issued + 1
  <2>1. next \in Nat
    BY <1>1
  <2>2. old = [tokens[t] EXCEPT !.revoked = TRUE, !.recent = TRUE,
                                !.next = next, !.expiry = "running"]
    OBVIOUS
  <2>. HIDE DEF next, old
  <2>. QED
    BY <1>1, <2>1, <2>2 DEF TokenRow
<1>3. Issue(table, old.user, old.version, old.family) /\ Usable(t)
  BY DEF Rotate, Rotatable, RefreshAllowed, Usable
<1>. HIDE DEF old
<1>4. PICK u \in User, version \in Nat, family \in Nat :
         /\ u = tokens[t].user /\ family = tokens[t].family
         /\ Issue(table, u, version, family)
  BY <1>1, <1>2, <1>3 DEF TokenRow
<1>5. /\ DOMAIN table = DOMAIN tokens /\ table[t] = old
      /\ \A x \in DOMAIN tokens \ {t} : table[x] = tokens[x]
  BY DEF Put
<1>6. IsTable(table, 1..issued, TokenRow)
  BY <1>1, <1>2, PutIsTable DEF LoginTypeOK, IsTable
<1>. HIDE DEF table
<1>7. \A x \in DOMAIN table :
         /\ x \in DOMAIN tokens
         /\ table[x].user = tokens[x].user
         /\ table[x].family = tokens[x].family
         /\ table[x].expiry # "passed" /\ ~table[x].revoked => Usable(x)
  BY <1>2, <1>3, <1>5 DEF Usable
<1>. QED
  BY <1>3, <1>4, <1>6, <1>7, IssuingBringsNoneBack

\* Every other step ends logins at most.
LEMMA NextBringsNoneBack ==
    ASSUME LoginInv, [Next]_vars
    PROVE  NoneComesBack
<1>1. CASE OnlyEnds
  BY <1>1, EndingBringsNoneBack
<1>2. CASE AnyLoginStep
  <2>1. ASSUME NEW S, tokens' = RevokeTokens(S)
        PROVE  NoneComesBack
    BY <1>1, <2>1, RevokingEnds
  <2>. QED
    BY <1>2, <2>1, RotateBringsNoneBack
       DEF AnyLoginStep, RevokeDevice, ChangePassword, RevokeReused, Logout
<1>3. CASE ResetStep
  BY <1>1, <1>3, RevokingEnds DEF ResetStep, FinishReset, AbandonReset
<1>4. CASE TimeStep
  <2>1. PICK t \in DOMAIN tokens : GraceEnds(t) \/ TokenExpires(t)
    BY <1>4 DEF TimeStep
  <2>2. \/ tokens' = [tokens EXCEPT ![t].recent = FALSE]
        \/ tokens' = [tokens EXCEPT ![t].expiry = "passed", ![t].recent = FALSE]
    BY <2>1 DEF GraceEnds, TokenExpires
  <2>3. \A x \in DOMAIN tokens : tokens[x] \in TokenRow
    BY DEF LoginInv, LoginTypeOK, IsTable
  <2>4. OnlyEnds
    BY <2>2, <2>3 DEF TokenRow, Usable, OnlyEnds
  <2>. QED
    BY <1>1, <2>4
<1>5. CASE SocketStep \/ UNCHANGED loginVars
  <2>1. UNCHANGED tokens
    BY <1>5 DEF SocketStep, IssueTicket, TicketExpires, Connect, Disconnect,
       Heartbeat, StopAndStart, loginVars
  <2>. QED
    BY <1>1, <2>1, RevokingEnds
<1>. QED
  BY <1>1, <1>2, <1>3, <1>4, <1>5, AdminStepEnds, AccountStepBringsNoneBack,
     StepOfServer

\* A login that was ended or ran out never works again (rotateRefreshToken
\* replaces only a token that works, within its family).
THEOREM EndedLoginsEndForGood == Spec => EndedLoginsStayEnded
<1>1. LoginInv /\ [Next]_vars =>
         [\A family \in 1..issued, u \in User :
             ~Live(u, family) => ~Live(u, family)']_vars
  BY NextBringsNoneBack DEF NoneComesBack, Live, Usable
<1>. QED
  BY <1>1, LoginInvariant, PTL DEF Spec, EndedLoginsStayEnded

-----------------------------------------------------------------------------
(* Sockets *)

\* Of one family all tokens are of one account, and while one of them works
\* the others were replaced, not revoked.
FamilyInv ==
    \A t, x \in DOMAIN tokens : tokens[x].family = tokens[t].family =>
        /\ tokens[x].user = tokens[t].user
        /\ Usable(t) /\ tokens[x].revoked => tokens[x].next # 0

\* Who holds a ticket or a socket is the account of its login.
Held(row) ==
    /\ row.family \in 1..issued
    /\ \A t \in DOMAIN tokens :
          tokens[t].family = row.family => tokens[t].user = row.user

HolderInv ==
    /\ \A c \in DOMAIN sockets : Held(sockets[c])
    /\ \A k \in DOMAIN tickets : Held(tickets[k])

SocketInv == FamilyInv /\ HolderInv /\ SocketsFollowLogins

\* A step that revokes the tokens of S and issues none.
Revokes(S) ==
    \A t \in DOMAIN tokens' :
        /\ t \in DOMAIN tokens
        /\ tokens'[t].user = tokens[t].user
        /\ tokens'[t].family = tokens[t].family
        /\ tokens'[t].next = tokens[t].next
        /\ Usable(t)' => Usable(t) /\ t \notin S
        /\ tokens'[t].revoked => tokens[t].revoked \/ t \in S

\* No token of a family keeps working when another is revoked.
WholeFamilies(S) ==
    \A x \in S, t \in DOMAIN tokens :
        /\ x \in DOMAIN tokens
        /\ Usable(t) /\ tokens[t].family = tokens[x].family => t \in S

\* The sockets of a step that opens none, and of no login it ends.
FewerSockets(S) ==
    \A c \in DOMAIN sockets' :
        /\ c \in DOMAIN sockets
        /\ sockets'[c] = sockets[c]
        /\ \A u : sockets[c].user = u /\ MaySignIn(u) => MaySignIn(u)'
        /\ \A t \in S : tokens[t].family # sockets[c].family

FewerTickets ==
    \A k \in DOMAIN tickets' : k \in DOMAIN tickets /\ tickets'[k] = tickets[k]

-----------------------------------------------------------------------------
\* A step that issues no token and opens no socket.
LEMMA EndingKeepsSockets ==
    ASSUME SocketInv, NEW S, Revokes(S), WholeFamilies(S), UNCHANGED issued,
           FewerSockets(S), FewerTickets
    PROVE  SocketInv'
<1>1. FamilyInv'
  BY DEF SocketInv, FamilyInv, Revokes, WholeFamilies
<1>2. HolderInv'
  BY DEF SocketInv, HolderInv, Held, Revokes, FewerSockets, FewerTickets
<1>3. SocketsFollowLogins'
  BY DEF SocketInv, SocketsFollowLogins, Revokes, FewerSockets
<1>. QED
  BY <1>1, <1>2, <1>3 DEF SocketInv

\* RevokeTokens, or nothing.
LEMMA RevokedTokens ==
    ASSUME LoginInv, NEW S, tokens' = RevokeTokens(S)
    PROVE  Revokes(S)
BY DEF LoginInv, LoginTypeOK, IsTable, TokenRow, RevokeTokens, Revokes, Usable

\* The hubs are told of an account, or the process stops before.
LEMMA CutUserSockets ==
    ASSUME LoginInv, SocketInv, NEW u, NEW waiting, CutUser(u, waiting),
           KeepsBut({u}), NEW S, \A t \in S : t \in DOMAIN tokens /\ tokens[t].user = u
    PROVE  FewerSockets(S) /\ FewerTickets
<1>1. /\ \A c \in DOMAIN sockets' : /\ c \in DOMAIN sockets /\ sockets'[c] = sockets[c]
                                    /\ sockets[c].user # u
      /\ FewerTickets
  BY DEF LoginInv, LoginTypeOK, IsTable, TicketRow, CutUser, Cut, Stopped, Restrict,
     NoRows, FewerTickets
<1>2. \A t \in S, c \in DOMAIN sockets' : tokens[t].family # sockets[c].family
  BY <1>1 DEF SocketInv, HolderInv, Held
<1>3. \A x : x # u /\ MaySignIn(x) => MaySignIn(x)'
  BY DEF KeepsBut
<1>. QED
  BY <1>1, <1>2, <1>3 DEF FewerSockets

\* The hubs are told of one login.
LEMMA CutFamilySockets ==
    ASSUME LoginInv, SocketInv, NEW u, NEW family, CutFamily(u, family),
           UNCHANGED accounts, NEW S,
           \A t \in S : /\ t \in DOMAIN tokens /\ tokens[t].user = u
                        /\ tokens[t].family = family
    PROVE  FewerSockets(S) /\ FewerTickets
<1>1. /\ \A c \in DOMAIN sockets' : /\ c \in DOMAIN sockets /\ sockets'[c] = sockets[c]
                                    /\ sockets[c].user # u \/ sockets[c].family # family
      /\ FewerTickets
  BY DEF CutFamily, Cut, Stopped, Restrict, NoRows, FewerTickets
<1>2. \A t \in S, c \in DOMAIN sockets' : tokens[t].family # sockets[c].family
  BY <1>1 DEF SocketInv, HolderInv, Held
<1>3. \A x : MaySignIn(x) => MaySignIn(x)'
  BY DEF MaySignIn
<1>. QED
  BY <1>1, <1>2, <1>3 DEF FewerSockets

\* A command that ends every login of an account.
LEMMA UserCommandKeepsSockets ==
    ASSUME LoginInv, SocketInv, NEW u, NEW waiting, CutUser(u, waiting), KeepsBut({u}),
           NEW S \in {UsableOf(u), UnrevokedOf(u)}, tokens' = RevokeTokens(S),
           UNCHANGED issued
    PROVE  SocketInv'
<1>1. /\ \A t \in S : t \in DOMAIN tokens /\ tokens[t].user = u
      /\ \A t \in DOMAIN tokens : Usable(t) /\ tokens[t].user = u => t \in S
  BY DEF UsableOf, UnrevokedOf, Usable
<1>2. WholeFamilies(S)
  BY <1>1 DEF WholeFamilies, SocketInv, FamilyInv
<1>. QED
  BY <1>1, <1>2, RevokedTokens, CutUserSockets, EndingKeepsSockets

\* A step that ends no login and opens no socket.
LEMMA QuietKeepsSockets ==
    ASSUME SocketInv, Revokes({}), UNCHANGED issued, FewerTickets,
           \A c \in DOMAIN sockets' : c \in DOMAIN sockets /\ sockets'[c] = sockets[c],
           \A c \in DOMAIN sockets' : \A u :
              sockets[c].user = u /\ MaySignIn(u) => MaySignIn(u)'
    PROVE  SocketInv'
<1>1. WholeFamilies({}) /\ FewerSockets({})
  BY DEF WholeFamilies, FewerSockets
<1>. QED
  BY <1>1, EndingKeepsSockets

\* A token is issued: of a family of its own, or in place of one that works.
LEMMA IssuingKeepsSockets ==
    ASSUME LoginInv, SocketInv, NEW table, IsTable(table, 1..issued, TokenRow),
           NEW u \in User, NEW version \in Nat, NEW family \in Nat,
           Issue(table, u, version, family),
           NEW S, WholeFamilies(S),
           \A t \in S, c \in DOMAIN sockets : tokens[t].family # sockets[c].family,
           \A t \in DOMAIN table :
              /\ t \in DOMAIN tokens
              /\ table[t].user = tokens[t].user
              /\ table[t].family = tokens[t].family
              /\ table[t].expiry # "passed" /\ ~table[t].revoked => Usable(t) /\ t \notin S
              /\ table[t].revoked => \/ tokens[t].revoked /\ table[t].next = tokens[t].next
                                     \/ t \in S
                                     \/ table[t].next # 0,
           \/ family = issued + 1
           \/ \E x \in DOMAIN tokens : /\ Usable(x) /\ x \notin S
                                       /\ tokens[x].user = u
                                       /\ tokens[x].family = family,
           \A x : MaySignIn(x) => MaySignIn(x)',
           UNCHANGED <<tickets, sockets>>
    PROVE  SocketInv'
<1>1. issued \in Nat
  BY DEF LoginInv, LoginTypeOK
<1>2. /\ issued' = issued + 1
      /\ \A t \in DOMAIN tokens' :
            t = issued + 1 \/ (t \in DOMAIN table /\ table[t].expiry # "passed")
      /\ tokens'[issued + 1].user = u
      /\ tokens'[issued + 1].family = family
      /\ ~tokens'[issued + 1].revoked
      /\ \A t \in DOMAIN table : t \in DOMAIN tokens' => tokens'[t] = table[t]
  BY <1>1, IssuedRows
<1>3. ASSUME NEW t \in DOMAIN tokens', t # issued + 1
      PROVE  /\ t \in DOMAIN tokens
             /\ tokens'[t].user = tokens[t].user
             /\ tokens'[t].family = tokens[t].family
             /\ tokens[t].family \in 1..issued
             /\ Usable(t)' => Usable(t) /\ t \notin S
             /\ tokens'[t].revoked /\ tokens'[t].next = 0 =>
                   (tokens[t].revoked /\ tokens[t].next = 0) \/ t \in S
  BY <1>2, <1>3 DEF Usable, LoginInv
<1>4. FamilyInv'
  <2>1. ASSUME NEW t \in DOMAIN tokens', NEW x \in DOMAIN tokens',
               tokens'[x].family = tokens'[t].family
        PROVE  tokens'[x].user = tokens'[t].user
    BY <1>1, <1>2, <1>3, <2>1 DEF SocketInv, FamilyInv
  <2>2. ASSUME NEW t \in DOMAIN tokens', NEW x \in DOMAIN tokens',
               tokens'[x].family = tokens'[t].family, Usable(t)',
               tokens'[x].revoked, tokens'[x].next = 0
        PROVE  FALSE
    <3>1. /\ x # issued + 1 /\ x \in DOMAIN tokens
          /\ (tokens[x].revoked /\ tokens[x].next = 0) \/ x \in S
      BY <1>2, <1>3, <2>2
    <3>2. PICK y \in DOMAIN tokens : /\ Usable(y) /\ y \notin S
                                     /\ tokens[y].family = tokens[x].family
      BY <1>1, <1>2, <1>3, <2>2, <3>1
    <3>. QED
      BY <3>1, <3>2 DEF SocketInv, FamilyInv, WholeFamilies
  <2>. QED
    BY <2>1, <2>2 DEF FamilyInv
<1>5. ASSUME NEW row, Held(row)
      PROVE  Held(row)'
  BY <1>1, <1>2, <1>3, <1>5 DEF Held
<1>6. HolderInv'
  BY <1>5 DEF SocketInv, HolderInv
<1>7. SocketsFollowLogins'
  <2>1. ASSUME NEW c \in DOMAIN sockets, NEW t \in DOMAIN tokens',
               tokens'[t].family = sockets[c].family, tokens'[t].revoked
        PROVE  tokens'[t].next # 0
    BY <1>2, <1>3, <2>1 DEF SocketInv, SocketsFollowLogins
  <2>. QED
    BY <2>1 DEF SocketInv, SocketsFollowLogins
<1>. QED
  BY <1>4, <1>6, <1>7 DEF SocketInv

-----------------------------------------------------------------------------
\* The administrator's commands.
LEMMA AdminStepKeepsSockets ==
    ASSUME LoginInv, SocketInv, AdminStep
    PROVE  SocketInv'
<1>1. LoginTypeOK
  BY DEF LoginInv
<1>2. PICK a \in User, u \in User, family \in 1..issued :
         \/ ChangeRole(a, family, u) \/ RevokeLogins(a, family, u)
         \/ SetLoginExpiration(a, family, u)
         \/ Disable(a, family, u) \/ Enable(a, family, u)
         \/ DeleteAccount(a, family, u) \/ BeginReset(a, family, u)
         \/ \E open \in BOOLEAN : SetRegistration(a, family, open)
  BY DEF AdminStep
<1>3. CASE ChangeRole(a, family, u) \/ RevokeLogins(a, family, u) \/ Disable(a, family, u)
  <2>1. /\ DOMAIN accounts' = DOMAIN accounts
        /\ \A x \in DOMAIN accounts \ {u} : accounts'[x] = accounts[x]
        /\ tokens' = RevokeTokens(UsableOf(u)) /\ CutUser(u, resets)
        /\ UNCHANGED issued
    BY <1>3 DEF ChangeRole, RevokeLogins, Disable
  <2>2. KeepsBut({u})
    BY <2>1 DEF KeepsBut, MaySignIn
  <2>. QED
    BY <2>1, <2>2, UserCommandKeepsSockets
<1>4. CASE SetLoginExpiration(a, family, u)
  <2>1. /\ DOMAIN tokens' = DOMAIN tokens
        /\ \A t \in DOMAIN tokens :
              tokens'[t] = IF t \in UsableOf(u)
                           THEN [tokens[t] EXCEPT !.expiry = IF ~accounts[u].never
                                                             THEN "persistent"
                                                             ELSE "running"]
                           ELSE tokens[t]
        /\ UNCHANGED <<issued, tickets, sockets>>
    BY <1>4 DEF SetLoginExpiration
  <2>2. Revokes({})
    <3>1. \A t \in DOMAIN tokens : tokens[t] \in TokenRow
      BY <1>1 DEF LoginTypeOK, IsTable
    <3>. QED
      BY <2>1, <3>1 DEF TokenRow, Usable, UsableOf, Revokes
  <2>3. /\ DOMAIN accounts' = DOMAIN accounts
        /\ \A x \in DOMAIN accounts : /\ accounts'[x].status = accounts[x].status
                                      /\ accounts'[x].mustChange = accounts[x].mustChange
    <3>. DEFINE never == ~accounts[u].never
    <3>1. accounts' = [accounts EXCEPT ![u] = [accounts[u] EXCEPT !.never = never]]
      BY <1>4 DEF SetLoginExpiration
    <3>2. \A x \in DOMAIN accounts : accounts[x] \in AccountRow
      BY <1>1, AccountRows
    <3>. HIDE DEF never
    <3>. QED
      BY <3>1, <3>2 DEF AccountRow
  <2>4. \A x : MaySignIn(x) => MaySignIn(x)'
    BY <2>3 DEF MaySignIn
  <2>. QED
    BY <2>1, <2>2, <2>4, QuietKeepsSockets DEF FewerTickets
<1>5. CASE Enable(a, family, u)
  <2>1. /\ UNCHANGED <<tokens, issued, tickets, sockets>> /\ ~MaySignIn(u)
        /\ DOMAIN accounts' = DOMAIN accounts
        /\ \A x \in DOMAIN accounts \ {u} : accounts'[x] = accounts[x]
    BY <1>5 DEF Enable, MaySignIn
  <2>2. \A x : MaySignIn(x) => MaySignIn(x)'
    BY <2>1 DEF MaySignIn
  <2>. QED
    BY <2>1, <2>2, QuietKeepsSockets DEF FewerTickets, Revokes, Usable
<1>6. CASE DeleteAccount(a, family, u)
  <2>1. /\ tokens' = Restrict(tokens, {t \in DOMAIN tokens : tokens[t].user # u})
        /\ DOMAIN accounts' = DOMAIN accounts
        /\ \A x \in DOMAIN accounts \ {u} : accounts'[x] = accounts[x]
        /\ CutUser(u, resets) /\ UNCHANGED issued
    BY <1>6 DEF DeleteAccount
  <2>2. KeepsBut({u})
    BY <2>1 DEF KeepsBut, MaySignIn
  <2>3. Revokes({}) /\ WholeFamilies({})
    BY <2>1 DEF Restrict, Revokes, WholeFamilies, Usable
  <2>. QED
    BY <2>1, <2>2, <2>3, CutUserSockets, EndingKeepsSockets
<1>7. CASE BeginReset(a, family, u) \/ \E open \in BOOLEAN : SetRegistration(a, family, open)
  <2>1. UNCHANGED <<accounts, tokens, issued, tickets, sockets>>
    BY <1>7 DEF BeginReset, SetRegistration
  <2>. QED
    BY <2>1, QuietKeepsSockets DEF FewerTickets, Revokes, Usable, MaySignIn
<1>. QED
  BY <1>2, <1>3, <1>4, <1>5, <1>6, <1>7

\* Registering, signing in and completing a reset.
LEMMA AccountStepKeepsSockets ==
    ASSUME LoginInv, SocketInv, AccountStep
    PROVE  SocketInv'
<1>1. LoginTypeOK
  BY DEF LoginInv
<1>2. PICK u \in User :
         Bootstrap(u) \/ Register(u) \/ Login(u) \/ CompletePasswordChange(u)
  BY DEF AccountStep
<1>3. PICK family \in Nat : family = issued + 1
  BY <1>1 DEF LoginTypeOK
<1>4. UNCHANGED <<tickets, sockets>>
  BY <1>2 DEF Bootstrap, Register, Login, CompletePasswordChange
<1>5. ASSUME NEW version \in Nat, Issue(tokens, u, version, family),
             \A x : MaySignIn(x) => MaySignIn(x)'
      PROVE  SocketInv'
  <2>1. /\ IsTable(tokens, 1..issued, TokenRow) /\ WholeFamilies({})
        /\ \A t \in DOMAIN tokens :
              tokens[t].expiry # "passed" /\ ~tokens[t].revoked => Usable(t)
    BY <1>1 DEF LoginTypeOK, WholeFamilies, Usable
  <2>2. \A t \in {}, c \in DOMAIN sockets : tokens[t].family # sockets[c].family
    OBVIOUS
  <2>. QED
    BY <1>3, <1>4, <1>5, <2>1, <2>2, IssuingKeepsSockets
<1>6. CASE Bootstrap(u) \/ Register(u)
  <2>1. /\ u \notin DOMAIN accounts
        /\ \E role : accounts' = Put(accounts, u, NewAccount(role))
        /\ Issue(tokens, u, 1, family)
    BY <1>3, <1>6 DEF Bootstrap, Register, NoRows, SignIn
  <2>2. \A x : MaySignIn(x) => MaySignIn(x)'
    BY <2>1 DEF Put, MaySignIn
  <2>. QED
    BY <1>5, <2>1, <2>2
<1>7. CASE Login(u)
  <2>1. /\ MaySignIn(u) /\ UNCHANGED accounts
        /\ Issue(tokens, u, accounts[u].version, family)
    BY <1>3, <1>7 DEF Login, MayLogIn, SignIn
  <2>2. accounts[u].version \in Nat
    BY <1>1, <2>1, AccountRows DEF MaySignIn, AccountRow
  <2>. QED
    BY <1>5, <2>1, <2>2 DEF MaySignIn
<1>8. CASE CompletePasswordChange(u)
  <2>. DEFINE S == UnrevokedOf(u)
              table == RevokeTokens(S)
              version == accounts[u].version + 1
  <2>1. /\ u \in DOMAIN accounts /\ ~MaySignIn(u)
        /\ DOMAIN accounts' = DOMAIN accounts
        /\ \A x \in DOMAIN accounts \ {u} : accounts'[x] = accounts[x]
        /\ Issue(table, u, version, family)
    BY <1>3, <1>8 DEF CompletePasswordChange, SignIn, MaySignIn
  <2>2. version \in Nat
    BY <1>1, <2>1, AccountRows DEF AccountRow
  <2>3. \A x : MaySignIn(x) => MaySignIn(x)'
    BY <2>1 DEF MaySignIn
  <2>4. /\ \A t \in S : t \in DOMAIN tokens /\ tokens[t].user = u
        /\ \A t \in DOMAIN tokens : Usable(t) /\ tokens[t].user = u => t \in S
    BY DEF UnrevokedOf, Usable
  <2>5. /\ IsTable(table, 1..issued, TokenRow)
        /\ \A t \in DOMAIN table :
              /\ t \in DOMAIN tokens
              /\ table[t].user = tokens[t].user
              /\ table[t].family = tokens[t].family
              /\ table[t].expiry # "passed" /\ ~table[t].revoked => Usable(t) /\ t \notin S
              /\ table[t].revoked => \/ tokens[t].revoked /\ table[t].next = tokens[t].next
                                     \/ t \in S
    <3>1. /\ DOMAIN table = DOMAIN tokens
          /\ \A t \in DOMAIN tokens \ S : table[t] = tokens[t]
      BY DEF RevokeTokens
    <3>. HIDE DEF S
    <3>. QED
      BY <1>1, <3>1, RevokedRows DEF Usable
  <2>. HIDE DEF S, table, version
  <2>6. WholeFamilies(S)
    BY <2>4 DEF WholeFamilies, SocketInv, FamilyInv
  <2>7. \A t \in S, c \in DOMAIN sockets : tokens[t].family # sockets[c].family
    BY <2>1, <2>4 DEF SocketInv, HolderInv, Held, SocketsFollowLogins
  <2>. QED
    BY <1>3, <1>4, <2>1, <2>2, <2>3, <2>5, <2>6, <2>7, IssuingKeepsSockets
<1>. QED
  BY <1>2, <1>6, <1>7, <1>8

\* A token is replaced within its family.
LEMMA RotateKeepsSockets ==
    ASSUME LoginInv, SocketInv, NEW t \in DOMAIN tokens, Rotate(t)
    PROVE  SocketInv'
<1>. DEFINE old == [tokens[t] EXCEPT !.revoked = TRUE, !.recent = TRUE,
                                     !.next = issued + 1, !.expiry = "running"]
            table == Put(tokens, t, old)
<1>1. /\ LoginTypeOK /\ issued \in Nat
      /\ \A x \in DOMAIN tokens : tokens[x] \in TokenRow
  BY DEF LoginInv, LoginTypeOK, IsTable
<1>2. old \in TokenRow /\ old.revoked /\ old.next # 0
      /\ old.user = tokens[t].user /\ old.family = tokens[t].family
  <2>. DEFINE next == issued + 1
  <2>1. next \in Nat \ {0}
    BY <1>1
  <2>2. old = [tokens[t] EXCEPT !.revoked = TRUE, !.recent = TRUE,
                                !.next = next, !.expiry = "running"]
    OBVIOUS
  <2>. HIDE DEF next, old
  <2>. QED
    BY <1>1, <2>1, <2>2 DEF TokenRow
<1>3. /\ Issue(table, old.user, old.version, old.family) /\ Usable(t)
      /\ UNCHANGED <<accounts, tickets, sockets>>
  BY DEF Rotate, Rotatable, RefreshAllowed, Usable
<1>. HIDE DEF old
<1>4. PICK u \in User, version \in Nat, family \in Nat :
         /\ u = tokens[t].user /\ family = tokens[t].family
         /\ Issue(table, u, version, family)
  BY <1>1, <1>2, <1>3 DEF TokenRow
<1>5. /\ DOMAIN table = DOMAIN tokens /\ table[t] = old
      /\ \A x \in DOMAIN tokens \ {t} : table[x] = tokens[x]
  BY DEF Put
<1>6. IsTable(table, 1..issued, TokenRow)
  BY <1>1, <1>2, PutIsTable DEF LoginTypeOK, IsTable
<1>. HIDE DEF table
<1>7. \A x \in DOMAIN table :
         /\ x \in DOMAIN tokens
         /\ table[x].user = tokens[x].user
         /\ table[x].family = tokens[x].family
         /\ table[x].expiry # "passed" /\ ~table[x].revoked => Usable(x)
         /\ table[x].revoked => \/ tokens[x].revoked /\ table[x].next = tokens[x].next
                                \/ table[x].next # 0
  BY <1>2, <1>3, <1>5 DEF Usable
<1>8. /\ WholeFamilies({}) /\ \A x : MaySignIn(x) => MaySignIn(x)'
      /\ \A x \in {}, c \in DOMAIN sockets : tokens[x].family # sockets[c].family
  BY <1>3 DEF WholeFamilies, MaySignIn
<1>. QED
  BY <1>3, <1>4, <1>6, <1>7, <1>8, IssuingKeepsSockets

\* Ending one login, or all of an account.
LEMMA LoginStepKeepsSockets ==
    ASSUME LoginInv, SocketInv, AnyLoginStep
    PROVE  SocketInv'
<1>1. ASSUME NEW u, NEW family, NEW S, tokens' = RevokeTokens(S), CutFamily(u, family),
             UNCHANGED <<accounts, issued>>,
             \A t \in S : /\ t \in DOMAIN tokens /\ tokens[t].user = u
                          /\ tokens[t].family = family,
             \A t \in DOMAIN tokens :
                Usable(t) /\ tokens[t].user = u /\ tokens[t].family = family => t \in S
      PROVE  SocketInv'
  <2>1. WholeFamilies(S)
    BY <1>1 DEF WholeFamilies, SocketInv, FamilyInv
  <2>. QED
    BY <1>1, <2>1, RevokedTokens, CutFamilySockets, EndingKeepsSockets
<1>2. ASSUME NEW u, NEW family, RevokeDevice(u, family)
      PROVE  SocketInv'
  <2>. DEFINE S == {x \in UsableOf(u) : tokens[x].family = family}
  <2>1. /\ tokens' = RevokeTokens(S) /\ CutFamily(u, family)
        /\ UNCHANGED <<accounts, issued>>
    BY <1>2 DEF RevokeDevice
  <2>2. /\ \A t \in S : /\ t \in DOMAIN tokens /\ tokens[t].user = u
                        /\ tokens[t].family = family
        /\ \A t \in DOMAIN tokens :
              Usable(t) /\ tokens[t].user = u /\ tokens[t].family = family => t \in S
    BY DEF UsableOf
  <2>. HIDE DEF S
  <2>. QED
    BY <1>1, <2>1, <2>2
<1>3. ASSUME NEW t \in DOMAIN tokens, Logout(t)
      PROVE  SocketInv'
  <2>1. PICK u, family : u = tokens[t].user /\ family = tokens[t].family
    OBVIOUS
  <2>. DEFINE S == {x \in UnrevokedOf(u) : tokens[x].family = family}
  <2>2. /\ tokens' = RevokeTokens(S) /\ CutFamily(u, family)
        /\ UNCHANGED <<accounts, issued>>
    BY <1>3, <2>1 DEF Logout
  <2>3. /\ \A x \in S : /\ x \in DOMAIN tokens /\ tokens[x].user = u
                        /\ tokens[x].family = family
        /\ \A x \in DOMAIN tokens :
              Usable(x) /\ tokens[x].user = u /\ tokens[x].family = family => x \in S
    BY DEF UnrevokedOf, Usable
  <2>. HIDE DEF S
  <2>. QED
    BY <1>1, <2>2, <2>3
<1>4. ASSUME NEW u, NEW family, ChangePassword(u, family)
      PROVE  SocketInv'
  <2>1. /\ DOMAIN accounts' = DOMAIN accounts
        /\ \A x \in DOMAIN accounts \ {u} : accounts'[x] = accounts[x]
        /\ tokens' = RevokeTokens(UsableOf(u)) /\ CutUser(u, resets)
        /\ UNCHANGED issued
    BY <1>4 DEF ChangePassword
  <2>2. KeepsBut({u})
    BY <2>1 DEF KeepsBut, MaySignIn
  <2>. QED
    BY <2>1, <2>2, UserCommandKeepsSockets
<1>5. ASSUME NEW t \in DOMAIN tokens, RevokeReused(t)
      PROVE  SocketInv'
  <2>1. PICK u : u = tokens[t].user
    OBVIOUS
  <2>2. /\ UNCHANGED <<accounts, issued>>
        /\ tokens' = RevokeTokens(UnrevokedOf(u)) /\ CutUser(u, resets)
    BY <1>5, <2>1 DEF RevokeReused
  <2>3. KeepsBut({u})
    BY <2>2 DEF KeepsBut, MaySignIn
  <2>. QED
    BY <2>2, <2>3, UserCommandKeepsSockets
<1>. QED
  BY <1>2, <1>3, <1>4, <1>5, RotateKeepsSockets DEF AnyLoginStep

\* Tickets and sockets; only Connect opens one.
LEMMA SocketStepKeepsSockets ==
    ASSUME LoginInv, SocketInv, SocketStep
    PROVE  SocketInv'
<1>1. UNCHANGED <<accounts, tokens, issued>>
  BY DEF SocketStep, IssueTicket, TicketExpires, Connect, Disconnect, Heartbeat,
     StopAndStart
<1>2. FamilyInv'
  BY <1>1 DEF SocketInv, FamilyInv, Usable
<1>3. ASSUME NEW row
      PROVE  Held(row)' <=> Held(row)
  BY <1>1 DEF Held
<1>4. ASSUME FewerTickets,
             \A c \in DOMAIN sockets' : c \in DOMAIN sockets /\ sockets'[c] = sockets[c]
      PROVE  SocketInv'
  BY <1>1, <1>4, QuietKeepsSockets DEF Revokes, Usable, MaySignIn
<1>5. ASSUME NEW u \in User, NEW family \in 1..issued, NEW k \in Ticket,
             NEW kind \in {"member", "social"}, IssueTicket(u, family, k, kind)
      PROVE  SocketInv'
  <2>. DEFINE row == [user |-> u, family |-> family, kind |-> kind]
  <2>1. Held(row)
    BY <1>5 DEF IssueTicket, Authenticated, SocketInv, FamilyInv, Held
  <2>2. tickets' = Put(tickets, k, row) /\ UNCHANGED sockets
    BY <1>5 DEF IssueTicket
  <2>. HIDE DEF row
  <2>3. HolderInv'
    BY <1>3, <2>1, <2>2 DEF SocketInv, HolderInv, Put
  <2>4. SocketsFollowLogins'
    BY <1>1, <2>2 DEF SocketInv, SocketsFollowLogins, MaySignIn
  <2>. QED
    BY <1>2, <2>3, <2>4 DEF SocketInv
<1>6. ASSUME NEW k \in Ticket, NEW c \in Socket, Connect(k, c)
      PROVE  SocketInv'
  <2>1. /\ k \in DOMAIN tickets /\ c \notin DOMAIN sockets
        /\ TicketStands(tickets[k])
        /\ tickets' = Without(tickets, {k}) /\ sockets' = Put(sockets, c, tickets[k])
    BY <1>6 DEF Connect
  <2>2. HolderInv'
    BY <1>3, <2>1 DEF SocketInv, HolderInv, Put, Without, Restrict
  <2>3. \A t \in DOMAIN tokens :
           tokens[t].family = tickets[k].family /\ tokens[t].revoked => tokens[t].next # 0
    BY <2>1 DEF TicketStands, Live, SocketInv, FamilyInv
  <2>4. SocketsFollowLogins'
    BY <1>1, <2>1, <2>3 DEF TicketStands, SocketInv, SocketsFollowLogins, Put, MaySignIn
  <2>. QED
    BY <1>2, <2>2, <2>4 DEF SocketInv
<1>7. CASE Heartbeat
  BY <1>4, <1>7 DEF Heartbeat, Without, Restrict, FewerTickets
<1>8. CASE StopAndStart
  BY <1>4, <1>8 DEF StopAndStart, Stopped, NoRows, Restrict, FewerTickets
<1>9. ASSUME NEW k, TicketExpires(k)
      PROVE  SocketInv'
  BY <1>4, <1>9 DEF TicketExpires, Without, Restrict, FewerTickets
<1>10. ASSUME NEW c, Disconnect(c)
       PROVE  SocketInv'
  BY <1>4, <1>10 DEF Disconnect, Without, Restrict, FewerTickets
<1>. QED
  BY <1>5, <1>6, <1>7, <1>8, <1>9, <1>10 DEF SocketStep

\* Every step of the server and the browser.
LEMMA NextKeepsSockets ==
    ASSUME LoginInv, SocketInv, [Next]_vars
    PROVE  SocketInv'
<1>1. CASE ResetStep
  <2>1. PICK r \in resets : FinishReset(r) \/ AbandonReset(r)
    BY <1>1 DEF ResetStep
  <2>2. CASE FinishReset(r)
    <3>1. PICK u : u = r.user
      OBVIOUS
    <3>2. /\ DOMAIN accounts' = DOMAIN accounts
          /\ \A x \in DOMAIN accounts \ {u} : accounts'[x] = accounts[x]
          /\ tokens' = RevokeTokens(UsableOf(u)) /\ CutUser(u, resets \ {r})
          /\ UNCHANGED issued
      BY <2>2, <3>1 DEF FinishReset
    <3>3. KeepsBut({u})
      BY <3>2 DEF KeepsBut, MaySignIn
    <3>. QED
      BY <3>2, <3>3, UserCommandKeepsSockets
  <2>3. CASE AbandonReset(r)
    <3>1. UNCHANGED <<accounts, tokens, issued, tickets, sockets>>
      BY <2>3 DEF AbandonReset
    <3>. QED
      BY <3>1, QuietKeepsSockets DEF FewerTickets, Revokes, Usable, MaySignIn
  <2>. QED
    BY <2>1, <2>2, <2>3
<1>2. CASE TimeStep
  <2>1. PICK t \in DOMAIN tokens : GraceEnds(t) \/ TokenExpires(t)
    BY <1>2 DEF TimeStep
  <2>2. /\ UNCHANGED <<accounts, issued, tickets, sockets>>
        /\ \/ tokens' = [tokens EXCEPT ![t].recent = FALSE]
           \/ tokens' = [tokens EXCEPT ![t].expiry = "passed", ![t].recent = FALSE]
    BY <2>1 DEF GraceEnds, TokenExpires
  <2>3. \A x \in DOMAIN tokens : tokens[x] \in TokenRow
    BY DEF LoginInv, LoginTypeOK, IsTable
  <2>4. Revokes({})
    BY <2>2, <2>3 DEF TokenRow, Usable, Revokes
  <2>. QED
    BY <2>2, <2>4, QuietKeepsSockets DEF FewerTickets, MaySignIn
<1>3. CASE UNCHANGED loginVars
  BY <1>3, QuietKeepsSockets DEF loginVars, FewerTickets, Revokes, Usable, MaySignIn
<1>. QED
  BY <1>1, <1>2, <1>3, AdminStepKeepsSockets, AccountStepKeepsSockets,
     LoginStepKeepsSockets, SocketStepKeepsSockets, StepOfServer

\* An open socket is of an account that may sign in and of a login nobody
\* ended, although the hubs are told after the commit and the process may stop
\* in between (revokeUser and revokeAuthSession of both hubs, the upgrades).
THEOREM SocketsAreOfLogins == Spec => []SocketsFollowLogins
<1>1. Init => SocketInv
  BY DEF Init, LoginInit, NoRows, SocketInv, FamilyInv, HolderInv, SocketsFollowLogins
<1>2. LoginInv /\ SocketInv /\ [Next]_vars => SocketInv'
  BY NextKeepsSockets
<1>3. SocketInv => SocketsFollowLogins
  BY DEF SocketInv
<1>. QED
  BY <1>1, <1>2, <1>3, LoginInvariant, PTL DEF Spec
=============================================================================
