---------------------------- MODULE SharingSafety ----------------------------
(***************************************************************************)
(* Types of the tables behind shares and friends, that a Session has no    *)
(* second owner and how it may lose its owner, that pending requests are   *)
(* between the present owner and a friend, and that what a share let in    *)
(* ends with the share, for any number of accounts, grants and passphrases.*)
(***************************************************************************)
EXTENDS Sharing, TableLemmas, FiniteSetTheorems, TLAPS

GrantTable(table) == \E n \in Nat : table \in [1..n -> GrantRow]

\* SharingTypeOK, with the ids of grants an interval that starts at 1.
TypeInv ==
    /\ disabled \subseteq User /\ owner \in User
    /\ phase \in {"active", "closed", "deleted"}
    /\ IsTable(members, User, MemberRow)
    /\ GrantTable(grants)
    /\ shareBlocks \subseteq User \X User /\ friendBlocks \subseteq User \X User
    /\ secret \in Secret \cup {NoSecret}
    /\ IsTable(friends, {{a, b} : a, b \in User}, FriendRow)
    /\ access \in AccessRow
    /\ IsTable(requests, User, RequestRow)

-----------------------------------------------------------------------------
(* The rows the handlers write *)

\* Ids of grants are 1, 2, ... as many as there are.
LEMMA GrantIds ==
    ASSUME NEW table, GrantTable(table)
    PROVE  /\ Cardinality(DOMAIN table) \in Nat
           /\ table \in [1..Cardinality(DOMAIN table) -> GrantRow]
<1>1. PICK n \in Nat : table \in [1..n -> GrantRow]
  BY DEF GrantTable
<1>2. Cardinality(1..n) = n
  BY FS_Interval
<1>. QED
  BY <1>1, <1>2

\* A grant is written, under its id or the next one.
LEMMA GrantWritten ==
    ASSUME NEW table, GrantTable(table), NEW row \in GrantRow
    PROVE  /\ \A g \in DOMAIN table : GrantTable([table EXCEPT ![g] = row])
           /\ GrantTable(Put(table, Cardinality(DOMAIN table) + 1, row))
<1>1. PICK n \in Nat : table \in [1..n -> GrantRow]
  BY DEF GrantTable
<1>2. Cardinality(DOMAIN table) = n
  BY <1>1, FS_Interval
<1>3. \A g \in DOMAIN table : GrantTable([table EXCEPT ![g] = row])
  BY <1>1 DEF GrantTable
<1>4. Put(table, n + 1, row) \in [1..(n + 1) -> GrantRow]
  BY <1>1 DEF Put
<1>. QED
  BY <1>2, <1>3, <1>4 DEF GrantTable

\* Fields that are changed alone.
LEMMA GrantRows ==
    ASSUME NEW row \in GrantRow
    PROVE  /\ \A status \in GrantStatus : [row EXCEPT !.status = status] \in GrantRow
           /\ \A scope \in Scope : [row EXCEPT !.scope = scope] \in GrantRow
           /\ \A status \in GrantStatus :
                 [row EXCEPT !.due = TRUE, !.status = status] \in GrantRow
BY ScopeAssumption DEF GrantRow

\* The sweep marks grants as expired.
LEMMA SweptTypes ==
    ASSUME TypeInv
    PROVE  GrantTable(SweptGrants) /\ DOMAIN SweptGrants = DOMAIN grants
<1>1. PICK n \in Nat : grants \in [1..n -> GrantRow]
  BY DEF TypeInv, GrantTable
<1>2. \A g \in DOMAIN grants : [grants[g] EXCEPT !.status = "expired"] \in GrantRow
  BY <1>1, GrantRows DEF GrantStatus
<1>3. SweptGrants \in [1..n -> GrantRow]
  BY <1>1, <1>2 DEF SweptGrants
<1>. QED
  BY <1>1, <1>3 DEF GrantTable

\* Taking memberships back only removes.
LEMMA RevokedMembers ==
    ASSUME NEW table, IsTable(table, User, MemberRow), NEW gs, NEW retained
    PROVE  LET new == RevokeShareMemberships(table, gs, retained)
           IN  /\ IsTable(new, User, MemberRow)
               /\ DOMAIN new = DOMAIN table
               /\ \A u \in DOMAIN table :
                     /\ new[u].role = table[u].role
                     /\ ~new[u].removed => ~table[u].removed
BY DEF RevokeShareMemberships, IsTable, MemberRow

\* A member is let in by a grant, a friend or an invite.
LEMMA EnteredMembers ==
    ASSUME NEW table, IsTable(table, User, MemberRow), NEW u \in User,
           NEW role \in Guest, NEW source \in {"invite", "friend", "account_share"},
           NEW g \in Nat
    PROVE  /\ IsTable(Enter(table, u, role, source, g), User, MemberRow)
           /\ DOMAIN Enter(table, u, role, source, g) = DOMAIN table \cup {u}
           /\ Enter(table, u, role, source, g)[u].role = role
           /\ \A x \in DOMAIN table \ {u} :
                 Enter(table, u, role, source, g)[x] = table[x]
<1>1. NewRow(role, source, g) \in MemberRow /\ NewRow(role, source, g).role = role
  BY DEF NewRow, MemberRow, Guest
<1>2. IsTable(Enter(table, u, role, source, g), User, MemberRow)
  BY <1>1, PutIsTable DEF Enter
<1>. QED
  BY <1>1, <1>2 DEF Enter, Put

\* A member's role is changed.
LEMMA RoleWritten ==
    ASSUME NEW table, IsTable(table, User, MemberRow), NEW u \in DOMAIN table,
           NEW role \in Guest \cup {"owner"}
    PROVE  /\ IsTable([table EXCEPT ![u].role = role], User, MemberRow)
           /\ DOMAIN [table EXCEPT ![u].role = role] = DOMAIN table
           /\ [table EXCEPT ![u].role = role][u].role = role
           /\ [table EXCEPT ![u].role = role][u].removed = table[u].removed
           /\ \A x \in DOMAIN table \ {u} :
                 [table EXCEPT ![u].role = role][x] = table[x]
<1>. DEFINE row == [table[u] EXCEPT !.role = role]
            next == [table EXCEPT ![u] = row]
<1>1. /\ row \in MemberRow /\ row.role = role
      /\ row.removed = table[u].removed
  BY DEF IsTable, MemberRow
<1>2. [table EXCEPT ![u].role = role] = next
  OBVIOUS
<1>. HIDE DEF row
<1>3. next[u] = row /\ \A x \in DOMAIN table \ {u} : next[x] = table[x]
  OBVIOUS
<1>4. IsTable(next, User, MemberRow) /\ DOMAIN next = DOMAIN table
  BY <1>1 DEF IsTable
<1>. HIDE DEF next
<1>. QED
  BY <1>1, <1>2, <1>3, <1>4

\* What a sweep, a revocation or both leave of the members.
Shrunk(table) ==
    /\ IsTable(table, User, MemberRow)
    /\ DOMAIN table = DOMAIN members
    /\ \A u \in DOMAIN members : /\ table[u].role = members[u].role
                                 /\ ~table[u].removed => ~members[u].removed

\* A sweep and a revocation shrink, also one after the other.
LEMMA ShrunkMembers ==
    ASSUME TypeInv, NEW gs, NEW retained
    PROVE  /\ Shrunk(members) /\ Shrunk(SweptMembers)
           /\ Shrunk(RevokeShareMemberships(members, gs, retained))
           /\ Shrunk(RevokeShareMemberships(SweptMembers, gs, retained))
<1>1. IsTable(members, User, MemberRow)
  BY DEF TypeInv
<1>2. Shrunk(members)
  BY <1>1 DEF Shrunk
<1>3. ASSUME NEW table, Shrunk(table), NEW which, NEW kept
      PROVE  Shrunk(RevokeShareMemberships(table, which, kept))
  BY <1>3, RevokedMembers DEF Shrunk
<1>. QED
  BY <1>2, <1>3 DEF SweptMembers

-----------------------------------------------------------------------------
(* Types *)

\* Shares of accounts.
LEMMA ShareStepKeepsTypes ==
    ASSUME TypeInv, ShareStep
    PROVE  TypeInv'
<1>1. /\ IsTable(members, User, MemberRow) /\ GrantTable(grants)
      /\ GrantTable(SweptGrants) /\ DOMAIN SweptGrants = DOMAIN grants
      /\ Shrunk(SweptMembers)
  BY SweptTypes, ShrunkMembers DEF TypeInv
<1>2. ASSUME GrantTable(grants'), IsTable(members', User, MemberRow),
             shareBlocks' \subseteq User \X User, secret' \in Secret \cup {NoSecret},
             UNCHANGED <<disabled, owner, phase, socialVars>>
      PROVE  TypeInv'
  BY <1>2 DEF TypeInv, socialVars
<1>3. /\ shareBlocks \subseteq User \X User /\ secret \in Secret \cup {NoSecret}
      /\ \A g \in DOMAIN grants : grants[g] \in GrantRow
      /\ \A g \in DOMAIN grants : SweptGrants[g] \in GrantRow
  BY <1>1 DEF TypeInv, GrantTable
<1>4. \A g \in DOMAIN grants : \A status \in GrantStatus :
         /\ GrantTable([grants EXCEPT ![g].status = status])
         /\ GrantTable([SweptGrants EXCEPT ![g].status = status])
         /\ GrantTable([grants EXCEPT ![g].due = TRUE, ![g].status = status])
  <2>. TAKE g \in DOMAIN grants
  <2>. TAKE status \in GrantStatus
  <2>. DEFINE one == [grants[g] EXCEPT !.status = status]
              two == [SweptGrants[g] EXCEPT !.status = status]
              three == [grants[g] EXCEPT !.due = TRUE, !.status = status]
  <2>1. one \in GrantRow /\ two \in GrantRow /\ three \in GrantRow
    BY <1>3, GrantRows
  <2>2. /\ [grants EXCEPT ![g].status = status] = [grants EXCEPT ![g] = one]
        /\ [SweptGrants EXCEPT ![g].status = status] = [SweptGrants EXCEPT ![g] = two]
        /\ [grants EXCEPT ![g].due = TRUE, ![g].status = status]
              = [grants EXCEPT ![g] = three]
    OBVIOUS
  <2>. HIDE DEF one, two, three
  <2>3. /\ GrantTable([grants EXCEPT ![g] = one])
        /\ GrantTable([grants EXCEPT ![g] = three])
    BY <1>1, <2>1, GrantWritten
  <2>4. g \in DOMAIN SweptGrants
    BY <1>1
  <2>5. GrantTable([SweptGrants EXCEPT ![g] = two])
    BY <1>1, <2>1, <2>4, GrantWritten
  <2>. QED
    BY <2>2, <2>3, <2>5
<1>5. CASE ExpireShareGrants
  BY <1>1, <1>2, <1>3, <1>5 DEF ExpireShareGrants, Shrunk
<1>6. ASSUME NEW g \in DOMAIN grants, GrantLapses(g)
      PROVE  TypeInv'
  <2>. DEFINE status == IF grants[g].status = "pending" THEN "expired"
                        ELSE grants[g].status
  <2>1. status \in GrantStatus
    BY <1>3 DEF GrantRow, GrantStatus
  <2>2. grants' = [grants EXCEPT ![g].due = TRUE, ![g].status = status]
    BY <1>6 DEF GrantLapses
  <2>. HIDE DEF status
  <2>. QED
    BY <1>1, <1>2, <1>3, <1>4, <1>6, <2>1, <2>2 DEF GrantLapses
<1>7. ASSUME NEW u \in User, NEW to \in User, NEW scope \in Scope,
             CreateShareRequest(u, to, scope)
      PROVE  TypeInv'
  <2>. DEFINE row == [from |-> u, to |-> to, scope |-> scope,
                      status |-> "pending", due |-> FALSE]
  <2>1. row \in GrantRow
    BY ScopeAssumption DEF GrantRow, GrantStatus
  <2>2. /\ grants' = Put(SweptGrants, Cardinality(DOMAIN grants) + 1, row)
        /\ members' = SweptMembers
        /\ UNCHANGED <<disabled, owner, phase, shareBlocks, secret, socialVars>>
    BY <1>7 DEF CreateShareRequest
  <2>. HIDE DEF row
  <2>3. GrantTable(grants')
    BY <1>1, <2>1, <2>2, GrantWritten
  <2>. QED
    BY <1>1, <1>2, <1>3, <2>2, <2>3 DEF Shrunk
<1>8. ASSUME NEW u \in User, NEW to \in User,
             BlockAccountShare(u, to) \/ UnblockAccountShare(u, to)
      PROVE  TypeInv'
  <2>1. GrantTable(grants')
    <3>1. CASE UnblockAccountShare(u, to)
      BY <1>1, <3>1 DEF UnblockAccountShare
    <3>2. CASE BlockAccountShare(u, to)
      <4>1. PICK n \in Nat : grants \in [1..n -> GrantRow]
        BY <1>1 DEF GrantTable
      <4>2. \A g \in DOMAIN grants :
               /\ [grants[g] EXCEPT !.status = "cancelled"] \in GrantRow
               /\ [grants[g] EXCEPT !.status = "revoked"] \in GrantRow
        BY <1>3, GrantRows DEF GrantStatus
      <4>3. grants' = [g \in DOMAIN grants |->
                          IF g \notin OpenPair(to, u) THEN grants[g]
                          ELSE [grants[g] EXCEPT
                                  !.status = IF grants[g].status = "pending"
                                             THEN "cancelled" ELSE "revoked"]]
        BY <3>2 DEF BlockAccountShare
      <4>4. grants' \in [1..n -> GrantRow]
        BY <4>1, <4>2, <4>3
      <4>. QED
        BY <4>4 DEF GrantTable
    <3>. QED
      BY <1>8, <3>1, <3>2
  <2>2. IsTable(members', User, MemberRow)
    BY <1>1, <1>8, ShrunkMembers DEF BlockAccountShare, UnblockAccountShare, Shrunk
  <2>3. shareBlocks' \subseteq User \X User
    BY <1>3, <1>8 DEF BlockAccountShare, UnblockAccountShare
  <2>. QED
    BY <1>2, <1>3, <1>8, <2>1, <2>2, <2>3 DEF BlockAccountShare, UnblockAccountShare
<1>9. ASSUME NEW u \in User, NEW g \in DOMAIN grants,
             \/ AcceptShareRequest(u, g) \/ RejectShareRequest(u, g)
             \/ CancelShareRequest(u, g) \/ RevokeShareGrant(u, g)
      PROVE  TypeInv'
  <2>1. GrantTable(grants')
    BY <1>4, <1>9 DEF AcceptShareRequest, RejectShareRequest, CancelShareRequest,
       RevokeShareGrant, GrantStatus
  <2>2. IsTable(members', User, MemberRow)
    BY <1>1, <1>9, ShrunkMembers DEF AcceptShareRequest, RejectShareRequest,
       CancelShareRequest, RevokeShareGrant, Shrunk
  <2>. QED
    BY <1>2, <1>3, <1>9, <2>1, <2>2 DEF AcceptShareRequest, RejectShareRequest,
       CancelShareRequest, RevokeShareGrant
<1>10. ASSUME NEW u \in User, NEW g \in DOMAIN grants, NEW scope \in Scope,
              UpdateShareGrant(u, g, scope)
       PROVE  TypeInv'
  <2>. DEFINE row == [SweptGrants[g] EXCEPT !.scope = scope]
  <2>1. row \in GrantRow
    BY <1>3, GrantRows
  <2>2. grants' = [SweptGrants EXCEPT ![g] = row]
    BY <1>10 DEF UpdateShareGrant
  <2>. HIDE DEF row
  <2>3. GrantTable(grants')
    BY <1>1, <2>1, <2>2, GrantWritten
  <2>4. IsTable(members', User, MemberRow)
    BY <1>1, <1>10, ShrunkMembers DEF UpdateShareGrant, Shrunk
  <2>. QED
    BY <1>2, <1>3, <1>10, <2>3, <2>4 DEF UpdateShareGrant
<1>11. ASSUME NEW u \in User, NEW s \in Secret \cup {NoSecret}, SetJoinPassphrase(u, s)
       PROVE  TypeInv'
  BY <1>1, <1>2, <1>3, <1>11 DEF SetJoinPassphrase
<1>12. ASSUME NEW u \in User, NEW s \in Secret, JoinSessionWithShare(u, s)
       PROVE  TypeInv'
  <2>1. PICK g \in DOMAIN grants : Joinable(grants[g].scope) /\ members' = JoinedWith(u, g)
    BY <1>12 DEF JoinSessionWithShare, GrantOf
  <2>2. grants[g].scope.joinAs \in Guest /\ g \in Nat
    BY <1>1, <1>3, <2>1 DEF Joinable, GrantRow, ScopeRow, GrantTable
  <2>. DEFINE role == grants[g].scope.joinAs
  <2>3. IsTable(members', User, MemberRow)
    <3>1. CASE u \in DOMAIN members /\ ~SweptMembers[u].removed
      <4>1. \E kept \in Guest \cup {"owner"} :
               members' = [SweptMembers EXCEPT ![u].role = kept]
        <5>1. SweptMembers[u].role \in Guest \cup {"owner"}
          BY <1>1, <3>1 DEF Shrunk, IsTable, MemberRow
        <5>2. members' = [SweptMembers EXCEPT ![u].role =
                 IF \/ SweptMembers[u].role = "owner"
                    \/ (SweptMembers[u].role = "editor" /\ role = "viewer")
                 THEN @ ELSE role]
          BY <2>1, <3>1 DEF JoinedWith
        <5>3. CASE \/ SweptMembers[u].role = "owner"
                   \/ (SweptMembers[u].role = "editor" /\ role = "viewer")
          <6>1. members' = [SweptMembers EXCEPT ![u].role = SweptMembers[u].role]
            BY <5>2, <5>3
          <6>. QED
            BY <5>1, <6>1
        <5>4. CASE ~ \/ SweptMembers[u].role = "owner"
                     \/ (SweptMembers[u].role = "editor" /\ role = "viewer")
          <6>1. members' = [SweptMembers EXCEPT ![u].role = role]
            BY <5>2, <5>4
          <6>. QED
            BY <2>2, <6>1
        <5>. QED
          BY <5>3, <5>4
      <4>2. u \in DOMAIN SweptMembers /\ IsTable(SweptMembers, User, MemberRow)
        BY <1>1, <3>1 DEF Shrunk
      <4>3. PICK kept \in Guest \cup {"owner"} :
               members' = [SweptMembers EXCEPT ![u].role = kept]
        BY <4>1
      <4>. QED
        BY <4>2, <4>3, RoleWritten
    <3>2. CASE ~(u \in DOMAIN members /\ ~SweptMembers[u].removed)
      <4>1. members' = Enter(SweptMembers, u, role, "account_share", g)
        BY <2>1, <3>2 DEF JoinedWith
      <4>2. IsTable(SweptMembers, User, MemberRow) /\ role \in Guest
        BY <1>1, <2>2 DEF Shrunk
      <4>. HIDE DEF role
      <4>3. IsTable(Enter(SweptMembers, u, role, "account_share", g), User, MemberRow)
        BY <2>2, <4>2, EnteredMembers
      <4>. QED
        BY <4>1, <4>3
    <3>. QED
      BY <3>1, <3>2
  <2>. QED
    BY <1>1, <1>2, <1>3, <1>12, <2>3 DEF JoinSessionWithShare
<1>. QED
  BY <1>5, <1>6, <1>7, <1>8, <1>9, <1>10, <1>11, <1>12 DEF ShareStep

Pair == {{a, b} : a, b \in User}

\* What a step about friends has to leave behind.
FriendTypes ==
    /\ IsTable(members, User, MemberRow)
    /\ friendBlocks \subseteq User \X User
    /\ IsTable(friends, Pair, FriendRow)
    /\ access \in AccessRow
    /\ IsTable(requests, User, RequestRow)

\* Friends.
LEMMA FriendStepKeepsTypes ==
    ASSUME TypeInv, FriendStep
    PROVE  TypeInv'
<1>1. FriendTypes
  BY DEF TypeInv, FriendTypes, Pair
<1>2. ASSUME FriendTypes', UNCHANGED <<disabled, owner, phase, shareVars>>
      PROVE  TypeInv'
  BY <1>2 DEF TypeInv, FriendTypes, Pair, shareVars
<1>3. \A u, other \in User : {u, other} \in Pair
  BY DEF Pair
<1>4. owner \in User
  BY DEF TypeInv
<1>5. ASSUME NEW u \in User, NEW other \in User, RequestFriend(u, other)
      PROVE  TypeInv'
  <2>1. [sender |-> u, status |-> "pending"] \in FriendRow
    BY DEF FriendRow
  <2>2. IsTable(friends', Pair, FriendRow)
    BY <1>1, <1>3, <1>5, <2>1, PutIsTable DEF RequestFriend, FriendTypes
  <2>. QED
    BY <1>1, <1>2, <1>5, <2>2 DEF RequestFriend, FriendTypes
<1>6. ASSUME NEW u \in User, NEW other \in User, AcceptFriend(u, other)
      PROVE  TypeInv'
  <2>. DEFINE pair == {u, other}
              row == [friends[pair] EXCEPT !.status = "accepted"]
  <2>1. pair \in DOMAIN friends /\ friends' = [friends EXCEPT ![pair] = row]
    BY <1>6 DEF AcceptFriend
  <2>2. row \in FriendRow
    BY <1>1, <2>1 DEF FriendTypes, IsTable, FriendRow
  <2>. HIDE DEF row, pair
  <2>3. IsTable(friends', Pair, FriendRow)
    BY <1>1, <2>1, <2>2 DEF FriendTypes, IsTable
  <2>. QED
    BY <1>1, <1>2, <1>6, <2>3 DEF AcceptFriend, FriendTypes
<1>7. ASSUME NEW pairs, NEW subjects
      PROVE  /\ IsTable(Without(friends, pairs), Pair, FriendRow)
             /\ IsTable(Without(requests, subjects), User, RequestRow)
  BY <1>1, WithoutIsTable DEF FriendTypes
<1>8. ASSUME NEW u \in User, NEW other \in User,
             \/ RemoveFriend(u, other) \/ BlockFriend(u, other)
             \/ UnblockFriend(u, other)
      PROVE  TypeInv'
  <2>1. CASE RemoveFriend(u, other)
    BY <1>1, <1>2, <1>7, <2>1 DEF RemoveFriend, Separated, FriendTypes
  <2>2. CASE BlockFriend(u, other)
    BY <1>1, <1>2, <1>7, <2>2 DEF BlockFriend, Separated, FriendTypes
  <2>3. CASE UnblockFriend(u, other)
    BY <1>1, <1>2, <2>3 DEF UnblockFriend, FriendTypes
  <2>. QED
    BY <1>8, <2>1, <2>2, <2>3
<1>9. ASSUME NEW pair, FriendRequestEnds(pair)
      PROVE  TypeInv'
  BY <1>1, <1>2, <1>7, <1>9 DEF FriendRequestEnds, FriendTypes
<1>10. ASSUME NEW s, SessionRequestEnds(s)
       PROVE  TypeInv'
  BY <1>1, <1>2, <1>7, <1>10 DEF SessionRequestEnds, FriendTypes
<1>11. ASSUME NEW u \in User, NEW visible \in BOOLEAN, NEW direct \in BOOLEAN,
              NEW role \in Guest, SessionAccess(u, visible, direct, role)
       PROVE  TypeInv'
  <2>1. access' \in AccessRow
    BY <1>11 DEF SessionAccess, AccessRow
  <2>. QED
    BY <1>1, <1>2, <1>7, <1>11, <2>1 DEF SessionAccess, FriendTypes
<1>12. ASSUME NEW u \in User, JoinFriendSession(u)
       PROVE  TypeInv'
  <2>1. access.role \in Guest
    BY <1>1 DEF FriendTypes, AccessRow
  <2>2. IsTable(members', User, MemberRow)
    BY <1>1, <1>12, <2>1, EnteredMembers DEF JoinFriendSession, FriendTypes
  <2>. QED
    BY <1>1, <1>2, <1>7, <1>12, <2>2 DEF JoinFriendSession, FriendTypes
<1>13. ASSUME NEW u \in User, NEW other \in User,
              NEW kind \in {"invitation", "application"}, NEW role \in Guest,
              RequestSession(u, other, kind, role)
       PROVE  TypeInv'
  <2>. DEFINE host == IF kind = "invitation" THEN u ELSE owner
              row == [host |-> host, kind |-> kind, role |-> role]
  <2>1. row \in RequestRow
    BY <1>4 DEF RequestRow
  <2>2. requests' = Put(requests, other, row)
    BY <1>13 DEF RequestSession
  <2>. HIDE DEF row
  <2>3. IsTable(requests', User, RequestRow)
    BY <1>1, <2>1, <2>2, PutIsTable DEF FriendTypes
  <2>. QED
    BY <1>1, <1>2, <1>13, <2>3 DEF RequestSession, FriendTypes
<1>14. ASSUME NEW s \in DOMAIN requests, AcceptSession(s)
       PROVE  TypeInv'
  <2>1. s \in User /\ requests[s].role \in Guest
    BY <1>1 DEF FriendTypes, IsTable, RequestRow
  <2>2. IsTable(members', User, MemberRow)
    BY <1>1, <1>14, <2>1, EnteredMembers DEF AcceptSession, FriendTypes
  <2>. QED
    BY <1>1, <1>2, <1>7, <1>14, <2>2 DEF AcceptSession, FriendTypes
<1>. QED
  BY <1>5, <1>6, <1>8, <1>9, <1>10, <1>11, <1>12, <1>13, <1>14 DEF FriendStep

\* The Session's own operations.
LEMMA SessionStepKeepsTypes ==
    ASSUME TypeInv, SessionStep
    PROVE  TypeInv'
<1>1. ASSUME IsTable(members', User, MemberRow),
             UNCHANGED <<disabled, owner, phase, shareVars, socialVars>>
      PROVE  TypeInv'
  BY <1>1 DEF TypeInv, shareVars, socialVars
<1>2. IsTable(members, User, MemberRow)
  BY DEF TypeInv
<1>3. ASSUME NEW u \in User, NEW role \in Guest, JoinByInvite(u, role)
      PROVE  TypeInv'
  <2>1. CASE u \in DOMAIN members
    <3>. DEFINE row == [members[u] EXCEPT !.removed = FALSE, !.role = role,
                                          !.by = "invite"]
    <3>1. row \in MemberRow
      BY <1>2, <2>1 DEF IsTable, MemberRow
    <3>2. members' = [members EXCEPT ![u] = row]
      BY <1>3, <2>1 DEF JoinByInvite
    <3>. HIDE DEF row
    <3>3. IsTable(members', User, MemberRow)
      BY <1>2, <2>1, <3>1, <3>2 DEF IsTable
    <3>. QED
      BY <1>1, <1>3, <3>3 DEF JoinByInvite
  <2>2. CASE u \notin DOMAIN members
    <3>1. IsTable(members', User, MemberRow)
      BY <1>2, <1>3, <2>2, EnteredMembers DEF JoinByInvite
    <3>. QED
      BY <1>1, <1>3, <3>1 DEF JoinByInvite
  <2>. QED
    BY <2>1, <2>2
<1>4. ASSUME NEW u \in User, MembershipEnds(u)
      PROVE  TypeInv'
  <2>1. IsTable(members', User, MemberRow)
    BY <1>2, <1>4 DEF MembershipEnds, IsMember, IsTable, MemberRow
  <2>. QED
    BY <1>1, <1>4, <2>1 DEF MembershipEnds
<1>5. ASSUME NEW u \in User, NEW target \in User, TransferOwnership(u, target)
      PROVE  TypeInv'
  <2>1. IsTable(members', User, MemberRow)
    <3>1. u \in DOMAIN members /\ target \in DOMAIN members
      BY <1>5 DEF TransferOwnership, IsOwner, IsMember
    <3>. DEFINE step == [members EXCEPT ![u].role = "editor"]
    <3>2. IsTable(step, User, MemberRow) /\ DOMAIN step = DOMAIN members
      BY <1>2, <3>1, RoleWritten DEF Guest
    <3>3. members' = [step EXCEPT ![target].role = "owner"]
      BY <1>5 DEF TransferOwnership
    <3>. HIDE DEF step
    <3>. QED
      BY <3>1, <3>2, <3>3, RoleWritten
  <2>2. Private \in AccessRow
    BY DEF Private, AccessRow, Guest
  <2>. QED
    BY <1>5, <2>1, <2>2, NoRowsIsTable DEF TransferOwnership, OwnerChanged, TypeInv,
       shareVars
<1>6. ASSUME NEW u \in User, NEW next \in {"active", "closed", "deleted"},
             SessionPhase(u, next)
      PROVE  TypeInv'
  BY <1>6 DEF SessionPhase, TypeInv, shareVars, socialVars
<1>7. ASSUME NEW u \in User, NEW off \in BOOLEAN, SetDisabled(u, off)
      PROVE  TypeInv'
  BY <1>7 DEF SetDisabled, TypeInv, shareVars, socialVars
<1>. QED
  BY <1>3, <1>4, <1>5, <1>6, <1>7 DEF SessionStep

\* Types of the tables, before the ids of grants are counted.
LEMMA TypesHold == Spec => []TypeInv
<1>1. Init => TypeInv
  <2>. SUFFICES ASSUME Init PROVE TypeInv
    OBVIOUS
  <2>1. owner \in User /\ NewRow("owner", "invite", 0) \in MemberRow
    BY DEF Init, SharingInit, NewRow, MemberRow
  <2>2. IsTable(NoRows, User, MemberRow)
    BY NoRowsIsTable
  <2>3. IsTable(members, User, MemberRow)
    BY <2>1, <2>2, PutIsTable DEF Init, SharingInit
  <2>4. GrantTable(grants)
    <3>1. NoRows \in [1..0 -> GrantRow]
      BY DEF NoRows
    <3>. QED
      BY <3>1 DEF Init, SharingInit, GrantTable
  <2>5. /\ IsTable(friends, {{a, b} : a, b \in User}, FriendRow)
        /\ IsTable(requests, User, RequestRow)
    BY NoRowsIsTable DEF Init, SharingInit
  <2>6. access \in AccessRow
    BY DEF Init, SharingInit, Private, AccessRow, Guest
  <2>. QED
    BY <2>1, <2>3, <2>4, <2>5, <2>6 DEF Init, SharingInit, TypeInv
<1>2. TypeInv /\ [Next]_vars => TypeInv'
  <2>1. CASE UNCHANGED vars
    BY <2>1 DEF vars, sharingVars, shareVars, socialVars, TypeInv
  <2>. QED
    BY <2>1, ShareStepKeepsTypes, FriendStepKeepsTypes, SessionStepKeepsTypes DEF Next
<1>. QED
  BY <1>1, <1>2, PTL DEF Spec

\* Every table keeps its type.
THEOREM SharingTypes == Spec => []SharingTypeOK
<1>1. TypeInv => SharingTypeOK
  BY GrantIds DEF TypeInv, SharingTypeOK
<1>. QED
  BY <1>1, TypesHold, PTL

-----------------------------------------------------------------------------
(* The owner *)

\* Nobody but the present owner is an active member with the owner's role.
\* (There may be none at all: that is what ExactlyOneOwner refutes.)
NoSecondOwner ==
    \A u \in DOMAIN members :
        ~members[u].removed /\ members[u].role = "owner" => u = owner

\* Shares let in guests and take members back, but make nobody an owner.
LEMMA ShareStepKeepsOwner ==
    ASSUME TypeInv, NoSecondOwner, ShareStep
    PROVE  NoSecondOwner' /\ UNCHANGED <<owner, phase, socialVars>>
<1>1. ASSUME Shrunk(members'), owner' = owner
      PROVE  NoSecondOwner'
  BY <1>1 DEF Shrunk, NoSecondOwner
<1>2. Shrunk(members) /\ Shrunk(SweptMembers)
  BY ShrunkMembers
<1>3. CASE \/ ExpireShareGrants
           \/ \E g \in DOMAIN grants : GrantLapses(g)
           \/ \E u, to \in User :
                 \/ \E scope \in Scope : CreateShareRequest(u, to, scope)
                 \/ UnblockAccountShare(u, to)
           \/ \E u \in User, g \in DOMAIN grants :
                 \/ AcceptShareRequest(u, g)
                 \/ RejectShareRequest(u, g)
                 \/ CancelShareRequest(u, g)
           \/ \E u \in User, s \in Secret \cup {NoSecret} : SetJoinPassphrase(u, s)
  BY <1>1, <1>2, <1>3 DEF ExpireShareGrants, GrantLapses, CreateShareRequest,
     UnblockAccountShare, AcceptShareRequest, RejectShareRequest, CancelShareRequest,
     SetJoinPassphrase
<1>4. ASSUME NEW u \in User, NEW g \in DOMAIN grants,
             \/ RevokeShareGrant(u, g)
             \/ \E scope \in Scope : UpdateShareGrant(u, g, scope)
      PROVE  NoSecondOwner' /\ UNCHANGED <<owner, phase, socialVars>>
  <2>1. CASE RevokeShareGrant(u, g)
    BY <1>1, <2>1, ShrunkMembers DEF RevokeShareGrant
  <2>2. ASSUME NEW scope \in Scope, UpdateShareGrant(u, g, scope)
        PROVE  NoSecondOwner' /\ UNCHANGED <<owner, phase, socialVars>>
    <3>1. PICK retained :
             members' = IF grants[g].status = "accepted"
                        THEN RevokeShareMemberships(SweptMembers, {g}, retained)
                        ELSE SweptMembers
      BY <2>2 DEF UpdateShareGrant
    <3>2. Shrunk(members')
      BY <1>2, <3>1, ShrunkMembers
    <3>. QED
      BY <1>1, <2>2, <3>2 DEF UpdateShareGrant
  <2>. QED
    BY <1>4, <2>1, <2>2
<1>5. ASSUME NEW u \in User, NEW to \in User, BlockAccountShare(u, to)
      PROVE  NoSecondOwner' /\ UNCHANGED <<owner, phase, socialVars>>
  BY <1>1, <1>5, ShrunkMembers DEF BlockAccountShare
<1>6. ASSUME NEW u \in User, NEW s \in Secret, JoinSessionWithShare(u, s)
      PROVE  NoSecondOwner' /\ UNCHANGED <<owner, phase, socialVars>>
  <2>1. PICK g \in DOMAIN grants : Joinable(grants[g].scope) /\ members' = JoinedWith(u, g)
    BY <1>6 DEF JoinSessionWithShare, GrantOf
  <2>2. owner' = owner /\ UNCHANGED <<phase, socialVars>>
    BY <1>6 DEF JoinSessionWithShare
  <2>. DEFINE role == grants[g].scope.joinAs
  <2>3. role \in Guest /\ g \in Nat
    BY <2>1 DEF TypeInv, Joinable, GrantRow, ScopeRow, GrantTable
  <2>. HIDE DEF role
  <2>4. \A x \in DOMAIN members' \ {u} :
           x \in DOMAIN members /\ members'[x] = SweptMembers[x]
    BY <1>2, <2>1 DEF JoinedWith, Enter, Put, Shrunk
  <2>5. u \in DOMAIN members' /\ members'[u].role = "owner" =>
           /\ u \in DOMAIN members /\ ~SweptMembers[u].removed
           /\ SweptMembers[u].role = "owner"
    <3>1. CASE u \in DOMAIN members /\ ~SweptMembers[u].removed
      <4>1. /\ u \in DOMAIN SweptMembers /\ IsTable(SweptMembers, User, MemberRow)
            /\ SweptMembers[u] \in MemberRow
        BY <1>2, <3>1 DEF Shrunk, IsTable
      <4>2. CASE SweptMembers[u].role = "owner"
        BY <3>1, <4>2
      <4>3. CASE SweptMembers[u].role # "owner"
        <5>1. members' = [SweptMembers EXCEPT ![u].role =
                 IF SweptMembers[u].role = "editor" /\ role = "viewer" THEN @ ELSE role]
          BY <2>1, <3>1, <4>3 DEF JoinedWith, role
        <5>2. members'[u].role # "owner"
          BY <2>3, <4>1, <4>3, <5>1 DEF MemberRow, Guest
        <5>. QED
          BY <5>2
      <4>. QED
        BY <4>2, <4>3
    <3>2. CASE ~(u \in DOMAIN members /\ ~SweptMembers[u].removed)
      <4>1. members' = Enter(SweptMembers, u, role, "account_share", g)
        BY <2>1, <3>2 DEF JoinedWith, role
      <4>2. IsTable(SweptMembers, User, MemberRow)
        BY <1>2 DEF Shrunk
      <4>3. members'[u].role = role
        BY <4>1 DEF Enter, Put, NewRow
      <4>. QED
        BY <2>3, <4>3 DEF Guest
    <3>. QED
      BY <3>1, <3>2
  <2>6. \A x \in DOMAIN members :
           ~SweptMembers[x].removed /\ SweptMembers[x].role = "owner" => x = owner
    BY <1>2 DEF Shrunk, NoSecondOwner
  <2>. QED
    BY <2>2, <2>4, <2>5, <2>6 DEF NoSecondOwner
<1>. QED
  BY <1>3, <1>4, <1>5, <1>6 DEF ShareStep

\* Enter makes nobody an owner.
LEMMA EnteringKeepsOwner ==
    ASSUME NoSecondOwner, IsTable(members, User, MemberRow), NEW u \in User,
           NEW role \in Guest, NEW source \in {"invite", "friend", "account_share"},
           NEW g \in Nat, members' = Enter(members, u, role, source, g), owner' = owner
    PROVE  NoSecondOwner'
<1>1. /\ DOMAIN members' = DOMAIN members \cup {u} /\ members'[u].role = role
      /\ \A x \in DOMAIN members \ {u} : members'[x] = members[x]
  BY DEF Enter, Put, NewRow
<1>. QED
  BY <1>1 DEF NoSecondOwner, Guest

\* Friends join as guests.
LEMMA FriendStepKeepsOwner ==
    ASSUME TypeInv, NoSecondOwner, FriendStep
    PROVE  NoSecondOwner' /\ UNCHANGED <<owner, phase>>
<1>1. ASSUME UNCHANGED <<owner, phase, members>>
      PROVE  NoSecondOwner' /\ UNCHANGED <<owner, phase>>
  BY <1>1 DEF NoSecondOwner
<1>2. IsTable(members, User, MemberRow)
  BY DEF TypeInv
<1>3. ASSUME NEW u \in User, JoinFriendSession(u)
      PROVE  NoSecondOwner' /\ UNCHANGED <<owner, phase>>
  <2>1. access.role \in Guest
    BY DEF TypeInv, AccessRow
  <2>. QED
    BY <1>2, <1>3, <2>1, EnteringKeepsOwner DEF JoinFriendSession
<1>4. ASSUME NEW s \in DOMAIN requests, AcceptSession(s)
      PROVE  NoSecondOwner' /\ UNCHANGED <<owner, phase>>
  <2>1. s \in User /\ requests[s].role \in Guest
    BY DEF TypeInv, IsTable, RequestRow
  <2>2. CASE IsMember(s)
    BY <1>1, <1>4, <2>2 DEF AcceptSession
  <2>3. CASE ~IsMember(s)
    BY <1>2, <1>4, <2>1, <2>3, EnteringKeepsOwner DEF AcceptSession
  <2>. QED
    BY <2>2, <2>3
<1>5. ASSUME NEW u \in User, NEW other \in User,
             \/ RequestFriend(u, other) \/ AcceptFriend(u, other)
             \/ RemoveFriend(u, other) \/ BlockFriend(u, other)
             \/ UnblockFriend(u, other)
             \/ \E kind \in {"invitation", "application"}, role \in Guest :
                   RequestSession(u, other, kind, role)
      PROVE  UNCHANGED <<owner, phase, members>>
  BY <1>5 DEF RequestFriend, AcceptFriend, RemoveFriend, BlockFriend, UnblockFriend,
     RequestSession
<1>6. ASSUME \/ \E pair \in DOMAIN friends : FriendRequestEnds(pair)
             \/ \E u \in User, visible, direct \in BOOLEAN, role \in Guest :
                   SessionAccess(u, visible, direct, role)
             \/ \E s \in DOMAIN requests : SessionRequestEnds(s)
      PROVE  UNCHANGED <<owner, phase, members>>
  BY <1>6 DEF FriendRequestEnds, SessionAccess, SessionRequestEnds
<1>. QED
  BY <1>1, <1>3, <1>4, <1>5, <1>6 DEF FriendStep

\* A transfer hands the role over, and returning members are guests.
LEMMA SessionStepKeepsOwner ==
    ASSUME TypeInv, NoSecondOwner, SessionStep
    PROVE  NoSecondOwner'
<1>1. IsTable(members, User, MemberRow)
  BY DEF TypeInv
<1>2. ASSUME NEW u \in User, NEW role \in Guest, JoinByInvite(u, role)
      PROVE  NoSecondOwner'
  <2>1. CASE u \in DOMAIN members
    <3>1. /\ DOMAIN members' = DOMAIN members /\ members'[u].role = role
          /\ \A x \in DOMAIN members \ {u} : members'[x] = members[x]
      <4>1. members[u] \in MemberRow
        BY <1>1, <2>1 DEF IsTable
      <4>. QED
        BY <1>1, <1>2, <2>1, <4>1 DEF JoinByInvite, IsTable, MemberRow
    <3>. QED
      BY <1>2, <3>1 DEF JoinByInvite, NoSecondOwner, Guest
  <2>2. CASE u \notin DOMAIN members
    BY <1>1, <1>2, <2>2, EnteringKeepsOwner DEF JoinByInvite
  <2>. QED
    BY <2>1, <2>2
<1>3. ASSUME NEW u \in User, MembershipEnds(u)
      PROVE  NoSecondOwner'
  <2>1. /\ u \in DOMAIN members /\ members[u].role # "owner"
        /\ members' = [members EXCEPT ![u].removed = TRUE] /\ owner' = owner
    BY <1>3 DEF MembershipEnds, IsMember
  <2>2. members[u] \in MemberRow
    BY <1>1, <2>1 DEF IsTable
  <2>3. /\ DOMAIN members' = DOMAIN members /\ members'[u].removed
        /\ \A x \in DOMAIN members \ {u} : members'[x] = members[x]
    BY <1>1, <2>1, <2>2 DEF IsTable, MemberRow
  <2>. QED
    BY <2>1, <2>3 DEF NoSecondOwner
<1>4. ASSUME NEW u \in User, NEW target \in User, TransferOwnership(u, target)
      PROVE  NoSecondOwner'
  <2>1. /\ u \in DOMAIN members /\ target \in DOMAIN members /\ u # target
        /\ u = owner /\ owner' = target
    BY <1>4 DEF TransferOwnership, IsOwner, IsMember, NoSecondOwner
  <2>. DEFINE step == [members EXCEPT ![u].role = "editor"]
  <2>2. /\ IsTable(step, User, MemberRow) /\ DOMAIN step = DOMAIN members
        /\ step[u].role = "editor"
        /\ \A x \in DOMAIN members \ {u} : step[x] = members[x]
    <3>1. "editor" \in Guest \cup {"owner"}
      BY DEF Guest
    <3>. QED
      BY <1>1, <2>1, <3>1, RoleWritten
  <2>3. members' = [step EXCEPT ![target].role = "owner"]
    BY <1>4 DEF TransferOwnership
  <2>. HIDE DEF step
  <2>4. /\ DOMAIN members' = DOMAIN step
        /\ \A x \in DOMAIN step \ {target} : members'[x] = step[x]
    BY <2>1, <2>2, <2>3, RoleWritten
  <2>. QED
    BY <2>1, <2>2, <2>4 DEF NoSecondOwner
<1>5. ASSUME NEW u \in User, NEW next \in {"active", "closed", "deleted"},
             SessionPhase(u, next)
      PROVE  NoSecondOwner'
  BY <1>5 DEF SessionPhase, NoSecondOwner
<1>6. ASSUME NEW u \in User, NEW off \in BOOLEAN, SetDisabled(u, off)
      PROVE  NoSecondOwner'
  BY <1>6 DEF SetDisabled, NoSecondOwner
<1>. QED
  BY <1>2, <1>3, <1>4, <1>5, <1>6 DEF SessionStep

\* A Session never has a second owner, whatever the order of joins by share,
\* friend or invite, removals and transfers.
THEOREM NoOtherOwner == Spec => []NoSecondOwner
<1>1. Init => NoSecondOwner
  BY RowsAfterPut DEF Init, SharingInit, NoSecondOwner, NoRows, Put
<1>2. TypeInv /\ NoSecondOwner /\ [Next]_vars => NoSecondOwner'
  <2>1. CASE UNCHANGED vars
    BY <2>1 DEF vars, sharingVars, NoSecondOwner
  <2>. QED
    BY <2>1, ShareStepKeepsOwner, FriendStepKeepsOwner, SessionStepKeepsOwner DEF Next
<1>. QED
  BY <1>1, <1>2, TypesHold, PTL DEF Spec

-----------------------------------------------------------------------------
(* How an owner goes *)

\* A membership whose source is a share names a grant to this account.
Sourced(rows, table) ==
    \A u \in DOMAIN rows : rows[u].source = "account_share" =>
        rows[u].grant \in DOMAIN table /\ table[rows[u].grant].to = u

SourcedInv == Sourced(members, grants)

\* Grants stay, and stay with the account they were given to.
GrantsStayTo(new) ==
    /\ DOMAIN grants \subseteq DOMAIN new
    /\ \A g \in DOMAIN grants : new[g].to = grants[g].to

\* What ends of grants leave of the members: rows as they were, some of which
\* are removed, and of those that a share let in only the ones whose grant was
\* accepted.
Taken(table) ==
    /\ DOMAIN table = DOMAIN members
    /\ \A u \in DOMAIN members :
          /\ table[u].role = members[u].role
          /\ table[u].source = members[u].source /\ table[u].grant = members[u].grant
          /\ ~table[u].removed => ~members[u].removed
          /\ table[u].removed => \/ members[u].removed
                                 \/ /\ members[u].source = "account_share"
                                    /\ grants[members[u].grant].status = "accepted"

\* Ends of accepted grants take nothing else, one after the other.
LEMMA TakenAgain ==
    ASSUME TypeInv, NEW table, Taken(table), IsTable(table, User, MemberRow),
           NEW gs, \A g \in gs : grants[g].status = "accepted", NEW retained
    PROVE  LET new == RevokeShareMemberships(table, gs, retained)
           IN  Taken(new) /\ IsTable(new, User, MemberRow)
<1> DEFINE new == RevokeShareMemberships(table, gs, retained)
<1>1. IsTable(new, User, MemberRow) /\ DOMAIN new = DOMAIN table
  BY RevokedMembers
<1>2. ASSUME NEW u \in DOMAIN table
      PROVE  /\ new[u].role = table[u].role /\ new[u].source = table[u].source
             /\ new[u].grant = table[u].grant
             /\ ~new[u].removed => ~table[u].removed
             /\ new[u].removed => \/ table[u].removed
                                  \/ /\ table[u].source = "account_share"
                                     /\ table[u].grant \in gs
  <2>1. table[u] \in MemberRow
    BY DEF IsTable
  <2> QED BY <2>1 DEF RevokeShareMemberships, MemberRow
<1> HIDE DEF new
<1>3. Taken(new)
  BY <1>1, <1>2 DEF Taken
<1> QED BY <1>1, <1>3 DEF new

\* Nothing ends, or the sweep ends what has lapsed.
LEMMA SweptAreTaken ==
    ASSUME TypeInv
    PROVE  /\ Taken(members) /\ Taken(SweptMembers)
           /\ IsTable(SweptMembers, User, MemberRow)
<1>1. Taken(members) /\ IsTable(members, User, MemberRow)
  BY DEF Taken, TypeInv
<1> QED BY <1>1, TakenAgain DEF SweptMembers, Lapsed

\* Grants end alone, or with those the sweep ends.
LEMMA TakenMembers ==
    ASSUME TypeInv, NEW gs, \A g \in gs : grants[g].status = "accepted", NEW retained
    PROVE  /\ Taken(RevokeShareMemberships(members, gs, retained))
           /\ Taken(RevokeShareMemberships(SweptMembers, gs, retained))
<1>1. IsTable(members, User, MemberRow)
  BY DEF TypeInv
<1> QED BY <1>1, SweptAreTaken, TakenAgain

\* A step on the grants takes back what an accepted grant let in, or lets one
\* account in that is not the owner.
LEMMA ShareStepTakes ==
    ASSUME TypeInv, ShareStep
    PROVE  \/ Taken(members')
           \/ \E u \in User : \E g \in GrantOf(u) \ Lapsed :
                 /\ Joinable(grants[g].scope) /\ owner # u
                 /\ members' = JoinedWith(u, g)
<1>1. Taken(members) /\ Taken(SweptMembers)
  BY SweptAreTaken
<1>2. CASE \/ ExpireShareGrants
           \/ \E g \in DOMAIN grants : GrantLapses(g)
           \/ \E u, to \in User :
                 \/ \E scope \in Scope : CreateShareRequest(u, to, scope)
                 \/ UnblockAccountShare(u, to)
           \/ \E u \in User, g \in DOMAIN grants :
                 \/ AcceptShareRequest(u, g)
                 \/ RejectShareRequest(u, g)
                 \/ CancelShareRequest(u, g)
           \/ \E u \in User, s \in Secret \cup {NoSecret} : SetJoinPassphrase(u, s)
  BY <1>1, <1>2 DEF ExpireShareGrants, GrantLapses, CreateShareRequest,
     UnblockAccountShare, AcceptShareRequest, RejectShareRequest, CancelShareRequest,
     SetJoinPassphrase
<1>3. ASSUME NEW u \in User, NEW g \in DOMAIN grants, RevokeShareGrant(u, g)
      PROVE  Taken(members')
  BY <1>3, TakenMembers DEF RevokeShareGrant
<1>4. ASSUME NEW u \in User, NEW g \in DOMAIN grants, NEW scope \in Scope,
             UpdateShareGrant(u, g, scope)
      PROVE  Taken(members')
  <2>1. PICK retained :
           members' = IF grants[g].status = "accepted"
                      THEN RevokeShareMemberships(SweptMembers, {g}, retained)
                      ELSE SweptMembers
    BY <1>4 DEF UpdateShareGrant
  <2> QED BY <1>1, <2>1, TakenMembers
<1>5. ASSUME NEW u \in User, NEW to \in User, BlockAccountShare(u, to)
      PROVE  Taken(members')
  BY <1>5, TakenMembers DEF BlockAccountShare
<1>6. ASSUME NEW u \in User, NEW s \in Secret, JoinSessionWithShare(u, s)
      PROVE  \E g \in GrantOf(u) \ Lapsed :
                /\ Joinable(grants[g].scope) /\ owner # u
                /\ members' = JoinedWith(u, g)
  BY <1>6 DEF JoinSessionWithShare
<1> QED BY <1>2, <1>3, <1>4, <1>5, <1>6 DEF ShareStep

\* Grants are neither deleted nor given to somebody else.
LEMMA GrantsStay ==
    ASSUME TypeInv, [Next]_vars
    PROVE  GrantsStayTo(grants')
<1>1. GrantTable(grants) /\ \A g \in DOMAIN grants : grants[g] \in GrantRow
  BY DEF TypeInv, GrantTable
<1>2. CASE UNCHANGED grants
  BY <1>2 DEF GrantsStayTo
<1>3. GrantsStayTo(SweptGrants)
  BY <1>1 DEF GrantsStayTo, SweptGrants, GrantRow
<1>4. CASE ShareStep
  <2>1. CASE \/ ExpireShareGrants \/ \E u \in User, s \in Secret : JoinSessionWithShare(u, s)
    BY <1>3, <2>1 DEF ExpireShareGrants, JoinSessionWithShare
  <2>2. ASSUME NEW g \in DOMAIN grants, GrantLapses(g) PROVE GrantsStayTo(grants')
    BY <1>1, <2>2 DEF GrantLapses, GrantsStayTo, GrantRow
  <2>3. ASSUME NEW u \in User, NEW to \in User, NEW scope \in Scope,
               CreateShareRequest(u, to, scope)
        PROVE  GrantsStayTo(grants')
    <3>1. PICK n \in Nat : grants \in [1..n -> GrantRow]
      BY <1>1 DEF GrantTable
    <3>2. Cardinality(DOMAIN grants) + 1 \notin DOMAIN grants
      <4>1. Cardinality(1..n) = n
        BY FS_Interval
      <4> QED BY <3>1, <4>1
    <3>3. DOMAIN SweptGrants = DOMAIN grants
      BY DEF SweptGrants
    <3> QED BY <1>3, <2>3, <3>2, <3>3 DEF CreateShareRequest, Put, GrantsStayTo
  <2>4. ASSUME NEW u \in User, NEW g \in DOMAIN grants,
               \/ AcceptShareRequest(u, g) \/ \E scope \in Scope : UpdateShareGrant(u, g, scope)
        PROVE  GrantsStayTo(grants')
    <3>1. DOMAIN SweptGrants = DOMAIN grants /\ SweptGrants[g] \in GrantRow
      BY SweptTypes DEF GrantTable
    <3>2. ASSUME NEW row \in GrantRow, row.to = SweptGrants[g].to,
                 grants' = [SweptGrants EXCEPT ![g] = row]
          PROVE  GrantsStayTo(grants')
      BY <1>3, <3>1, <3>2 DEF GrantsStayTo
    <3>3. CASE AcceptShareRequest(u, g)
      <4>1. grants' = [SweptGrants EXCEPT ![g] = [SweptGrants[g] EXCEPT !.status = "accepted"]]
        BY <3>3 DEF AcceptShareRequest
      <4>2. "accepted" \in GrantStatus
        BY DEF GrantStatus
      <4>3. /\ [SweptGrants[g] EXCEPT !.status = "accepted"] \in GrantRow
            /\ [SweptGrants[g] EXCEPT !.status = "accepted"].to = SweptGrants[g].to
        BY <3>1, <4>2 DEF GrantRow
      <4> QED BY <3>2, <4>1, <4>3
    <3>4. ASSUME NEW scope \in Scope, UpdateShareGrant(u, g, scope) PROVE GrantsStayTo(grants')
      <4>1. grants' = [SweptGrants EXCEPT ![g] = [SweptGrants[g] EXCEPT !.scope = scope]]
        BY <3>4 DEF UpdateShareGrant
      <4>2. /\ [SweptGrants[g] EXCEPT !.scope = scope] \in GrantRow
            /\ [SweptGrants[g] EXCEPT !.scope = scope].to = SweptGrants[g].to
        BY <3>1, ScopeAssumption DEF GrantRow
      <4> QED BY <3>2, <4>1, <4>2
    <3> QED BY <2>4, <3>3, <3>4
  <2>5. ASSUME NEW u \in User, NEW g \in DOMAIN grants,
               RejectShareRequest(u, g) \/ CancelShareRequest(u, g) \/ RevokeShareGrant(u, g)
        PROVE  GrantsStayTo(grants')
    BY <1>1, <2>5 DEF RejectShareRequest, CancelShareRequest, RevokeShareGrant, GrantsStayTo,
       GrantRow
  <2>6. ASSUME NEW u \in User, NEW to \in User, BlockAccountShare(u, to)
        PROVE  GrantsStayTo(grants')
    BY <1>1, <2>6 DEF BlockAccountShare, GrantsStayTo, GrantRow
  <2>7. CASE \/ \E u, to \in User : UnblockAccountShare(u, to)
             \/ \E u \in User, s \in Secret \cup {NoSecret} : SetJoinPassphrase(u, s)
    BY <1>2, <2>7 DEF UnblockAccountShare, SetJoinPassphrase
  <2> QED BY <1>4, <2>1, <2>2, <2>3, <2>4, <2>5, <2>6, <2>7 DEF ShareStep
<1>5. CASE FriendStep
  <2>1. ASSUME NEW u \in User, NEW other \in User,
               \/ RequestFriend(u, other) \/ AcceptFriend(u, other)
               \/ RemoveFriend(u, other) \/ BlockFriend(u, other)
               \/ UnblockFriend(u, other)
               \/ \E kind \in {"invitation", "application"}, role \in Guest :
                     RequestSession(u, other, kind, role)
        PROVE  UNCHANGED grants
    BY <2>1 DEF RequestFriend, AcceptFriend, RemoveFriend, BlockFriend, UnblockFriend,
       RequestSession, shareVars
  <2>2. ASSUME \/ \E pair \in DOMAIN friends : FriendRequestEnds(pair)
               \/ \E u \in User, visible, direct \in BOOLEAN, role \in Guest :
                     SessionAccess(u, visible, direct, role)
               \/ \E u \in User : JoinFriendSession(u)
               \/ \E s \in DOMAIN requests : AcceptSession(s) \/ SessionRequestEnds(s)
        PROVE  UNCHANGED grants
    BY <2>2 DEF FriendRequestEnds, SessionAccess, JoinFriendSession, AcceptSession,
       SessionRequestEnds, shareVars
  <2> QED BY <1>2, <1>5, <2>1, <2>2 DEF FriendStep
<1>6. CASE SessionStep \/ UNCHANGED vars
  BY <1>2, <1>6 DEF SessionStep, JoinByInvite, MembershipEnds, TransferOwnership, SessionPhase,
     SetDisabled, vars, sharingVars, shareVars
<1> QED BY <1>4, <1>5, <1>6 DEF Next

\* Rows of members that name their grants go on naming them.
LEMMA StillSourced ==
    ASSUME SourcedInv, NEW rows, Taken(rows), NEW table, GrantsStayTo(table)
    PROVE  Sourced(rows, table)
BY DEF SourcedInv, Sourced, Taken, GrantsStayTo

\* Who joins by a share or otherwise names the grant, if any.
LEMMA EnteredSourced ==
    ASSUME NEW rows, NEW table, Sourced(rows, table), NEW u, NEW role, NEW source, NEW g,
           source = "account_share" => g \in DOMAIN table /\ table[g].to = u
    PROVE  Sourced(Enter(rows, u, role, source, g), table)
BY DEF Sourced, Enter, Put, NewRow

\* A change of roles or of the removal alone.
LEMMA SourcesUntouched ==
    ASSUME NEW rows, NEW table, Sourced(rows, table), NEW new, DOMAIN new = DOMAIN rows,
           \A u \in DOMAIN rows : new[u].source = rows[u].source /\ new[u].grant = rows[u].grant
    PROVE  Sourced(new, table)
BY DEF Sourced

\* A membership whose source is a share names a grant to this account in every
\* state.
LEMMA SourcesKept ==
    ASSUME TypeInv, SourcedInv, [Next]_vars
    PROVE  SourcedInv'
<1>1. GrantsStayTo(grants')
  BY GrantsStay
<1>2. /\ IsTable(members, User, MemberRow)
      /\ \A u \in DOMAIN members : members[u] \in MemberRow
  BY DEF TypeInv, IsTable
<1>3. Taken(members) /\ Taken(SweptMembers) /\ IsTable(SweptMembers, User, MemberRow)
  BY SweptAreTaken
<1>4. Sourced(members, grants') /\ Sourced(SweptMembers, grants')
  BY <1>1, <1>3, StillSourced
<1>5. SUFFICES Sourced(members', grants')
  BY DEF SourcedInv
<1>6. CASE UNCHANGED members
  BY <1>4, <1>6
<1>7. CASE ShareStep
  <2>1. CASE Taken(members')
    BY <1>1, <2>1, StillSourced
  <2>2. ASSUME NEW u \in User, NEW g \in GrantOf(u) \ Lapsed, members' = JoinedWith(u, g)
        PROVE  Sourced(members', grants')
    <3>1. g \in DOMAIN grants' /\ grants'[g].to = u
      BY <1>1, <2>2 DEF GrantsStayTo, GrantOf
    <3>2. CASE u \in DOMAIN members /\ ~SweptMembers[u].removed
      <4>1. SweptMembers[u] \in MemberRow /\ DOMAIN SweptMembers = DOMAIN members
        BY <1>3, <3>2 DEF IsTable, Taken
      <4>2. PICK role : members' = [SweptMembers EXCEPT ![u].role = role]
        BY <2>2, <3>2 DEF JoinedWith
      <4>3. /\ DOMAIN members' = DOMAIN SweptMembers
            /\ \A x \in DOMAIN SweptMembers : /\ members'[x].source = SweptMembers[x].source
                                              /\ members'[x].grant = SweptMembers[x].grant
        BY <1>3, <3>2, <4>1, <4>2 DEF MemberRow, IsTable
      <4> QED BY <1>4, <4>3, SourcesUntouched
    <3>3. CASE ~(u \in DOMAIN members /\ ~SweptMembers[u].removed)
      BY <1>4, <2>2, <3>1, <3>3, EnteredSourced DEF JoinedWith
    <3> QED BY <3>2, <3>3
  <2> QED BY <1>7, <2>1, <2>2, ShareStepTakes
<1>8. CASE FriendStep
  <2>1. ASSUME NEW u \in User, JoinFriendSession(u)
        PROVE  Sourced(members', grants')
    BY <1>4, <2>1, EnteredSourced DEF JoinFriendSession
  <2>2. ASSUME NEW s \in DOMAIN requests, AcceptSession(s)
        PROVE  Sourced(members', grants')
    BY <1>4, <2>2, EnteredSourced DEF AcceptSession
  <2>3. ASSUME NEW u \in User, NEW other \in User,
               \/ RequestFriend(u, other) \/ AcceptFriend(u, other)
               \/ RemoveFriend(u, other) \/ BlockFriend(u, other)
               \/ UnblockFriend(u, other)
               \/ \E kind \in {"invitation", "application"}, role \in Guest :
                     RequestSession(u, other, kind, role)
        PROVE  UNCHANGED members
    BY <2>3 DEF RequestFriend, AcceptFriend, RemoveFriend, BlockFriend, UnblockFriend,
       RequestSession
  <2>4. ASSUME \/ \E pair \in DOMAIN friends : FriendRequestEnds(pair)
               \/ \E u \in User, visible, direct \in BOOLEAN, role \in Guest :
                     SessionAccess(u, visible, direct, role)
               \/ \E s \in DOMAIN requests : SessionRequestEnds(s)
        PROVE  UNCHANGED members
    BY <2>4 DEF FriendRequestEnds, SessionAccess, SessionRequestEnds
  <2> QED BY <1>6, <1>8, <2>1, <2>2, <2>3, <2>4 DEF FriendStep
<1>9. CASE SessionStep
  <2>1. ASSUME NEW u \in User, NEW role \in Guest, JoinByInvite(u, role)
        PROVE  Sourced(members', grants')
    <3>1. CASE u \in DOMAIN members
      <4>1. members' = [members EXCEPT ![u].removed = FALSE, ![u].role = role,
                                       ![u].by = "invite"]
        BY <2>1, <3>1 DEF JoinByInvite
      <4>2. /\ DOMAIN members' = DOMAIN members
            /\ \A x \in DOMAIN members : /\ members'[x].source = members[x].source
                                         /\ members'[x].grant = members[x].grant
        BY <1>2, <3>1, <4>1 DEF MemberRow, IsTable
      <4> QED BY <1>4, <4>2, SourcesUntouched
    <3>2. CASE u \notin DOMAIN members
      BY <1>4, <2>1, <3>2, EnteredSourced DEF JoinByInvite
    <3> QED BY <3>1, <3>2
  <2>2. ASSUME NEW u \in User, MembershipEnds(u)
        PROVE  Sourced(members', grants')
    <3>1. members' = [members EXCEPT ![u].removed = TRUE] /\ u \in DOMAIN members
      BY <2>2 DEF MembershipEnds, IsMember
    <3>2. /\ DOMAIN members' = DOMAIN members
          /\ \A x \in DOMAIN members : /\ members'[x].source = members[x].source
                                       /\ members'[x].grant = members[x].grant
      BY <1>2, <3>1 DEF MemberRow, IsTable
    <3> QED BY <1>4, <3>2, SourcesUntouched
  <2>3. ASSUME NEW u \in User, NEW target \in User, TransferOwnership(u, target)
        PROVE  Sourced(members', grants')
    <3>1. /\ members' = [members EXCEPT ![u].role = "editor", ![target].role = "owner"]
          /\ u \in DOMAIN members /\ target \in DOMAIN members /\ u # target
      BY <2>3 DEF TransferOwnership, IsOwner, IsMember
    <3>2. /\ DOMAIN members' = DOMAIN members
          /\ members'[u] = [members[u] EXCEPT !.role = "editor"]
          /\ members'[target] = [members[target] EXCEPT !.role = "owner"]
          /\ \A x \in DOMAIN members \ {u, target} : members'[x] = members[x]
      BY <1>2, <3>1 DEF IsTable
    <3>3. \A x \in DOMAIN members : /\ members'[x].source = members[x].source
                                    /\ members'[x].grant = members[x].grant
      BY <1>2, <3>1, <3>2 DEF MemberRow
    <3> QED BY <1>4, <3>2, <3>3, SourcesUntouched
  <2>4. CASE \/ \E u \in User, next \in {"active", "closed", "deleted"} : SessionPhase(u, next)
             \/ \E u \in User, off \in BOOLEAN : SetDisabled(u, off)
    BY <1>6, <2>4 DEF SessionPhase, SetDisabled
  <2> QED BY <1>9, <2>1, <2>2, <2>3, <2>4 DEF SessionStep
<1>10. CASE UNCHANGED vars
  BY <1>6, <1>10 DEF vars, sharingVars
<1> QED BY <1>7, <1>8, <1>9, <1>10 DEF Next

\* A grant took account u in and is accepted.
LetInBy(u) ==
    LET g == members[u].grant
    IN  /\ members[u].source = "account_share"
        /\ g \in DOMAIN grants
        /\ grants[g].status = "accepted" /\ grants[g].to = u

\* Who is an owner and is still a member with this role of a Session that is there
\* remains an owner.
LEMMA StaysOwner ==
    ASSUME NEW u, IsOwner(u), phase' = phase, u \in DOMAIN members',
           members'[u].role = members[u].role, ~members'[u].removed
    PROVE  IsOwner(u)'
BY DEF IsOwner, IsMember

\* A row that stays as it is.
LEMMA OthersStayOwner ==
    ASSUME NEW u, IsOwner(u), phase' = phase, u \in DOMAIN members',
           members'[u] = members[u]
    PROVE  IsOwner(u)'
BY DEF IsOwner, IsMember

\* An end of grants takes an owner only with the grant; a share lets others in.
LEMMA SharesTakeOwners ==
    ASSUME TypeInv, NoSecondOwner, SourcedInv, ShareStep,
           NEW u \in User, IsOwner(u), ~IsOwner(u)'
    PROVE  LetInBy(u)
<1>1. phase' = phase
  BY ShareStepKeepsOwner
<1>2. u \in DOMAIN members /\ ~members[u].removed /\ members[u].role = "owner" /\ u = owner
  BY DEF IsOwner, IsMember, NoSecondOwner
<1>3. ASSUME NEW table, Taken(table), table[u].removed PROVE LetInBy(u)
  BY <1>2, <1>3 DEF Taken, LetInBy, SourcedInv, Sourced
<1>4. CASE Taken(members')
  <2>1. members'[u].removed
    BY <1>1, <1>2, <1>4, StaysOwner DEF Taken
  <2> QED BY <1>3, <1>4, <2>1
<1>5. ASSUME NEW x \in User, NEW g \in GrantOf(x) \ Lapsed, owner # x, members' = JoinedWith(x, g)
      PROVE  LetInBy(u)
  <2>1. Taken(SweptMembers)
    BY SweptAreTaken
  <2>2. u \in DOMAIN members' /\ members'[u] = SweptMembers[u]
    BY <1>2, <1>5, <2>1 DEF JoinedWith, Enter, Put, Taken
  <2>3. SweptMembers[u].removed
    BY <1>1, <1>2, <2>1, <2>2, StaysOwner DEF Taken
  <2> QED BY <1>3, <2>1, <2>3
<1> QED BY <1>4, <1>5, ShareStepTakes

\* Friends come beside the owner.
LEMMA FriendsLeaveOwners ==
    ASSUME TypeInv, FriendStep, NEW u \in User, IsOwner(u)
    PROVE  IsOwner(u)'
<1>1. u \in DOMAIN members /\ IsMember(u)
  BY DEF IsOwner, IsMember
<1>2. ASSUME NEW x \in User, JoinFriendSession(x) PROVE IsOwner(u)'
  <2>1. x # u /\ phase' = phase
    BY <1>1, <1>2 DEF JoinFriendSession
  <2>2. u \in DOMAIN members' /\ members'[u] = members[u]
    BY <1>1, <1>2, <2>1 DEF JoinFriendSession, Enter, Put
  <2> QED BY <2>1, <2>2, OthersStayOwner
<1>3. ASSUME NEW s \in DOMAIN requests, AcceptSession(s) PROVE IsOwner(u)'
  <2>1. phase' = phase
    BY <1>3 DEF AcceptSession
  <2>2. u \in DOMAIN members' /\ members'[u] = members[u]
    BY <1>1, <1>3 DEF AcceptSession, Enter, Put
  <2> QED BY <2>1, <2>2, OthersStayOwner
<1>4. ASSUME NEW x \in User, NEW other \in User,
             \/ RequestFriend(x, other) \/ AcceptFriend(x, other)
             \/ RemoveFriend(x, other) \/ BlockFriend(x, other)
             \/ UnblockFriend(x, other)
             \/ \E kind \in {"invitation", "application"}, role \in Guest :
                   RequestSession(x, other, kind, role)
      PROVE  UNCHANGED <<members, phase>>
  BY <1>4 DEF RequestFriend, AcceptFriend, RemoveFriend, BlockFriend, UnblockFriend,
     RequestSession
<1>5. ASSUME \/ \E pair \in DOMAIN friends : FriendRequestEnds(pair)
             \/ \E x \in User, visible, direct \in BOOLEAN, role \in Guest :
                   SessionAccess(x, visible, direct, role)
             \/ \E s \in DOMAIN requests : SessionRequestEnds(s)
      PROVE  UNCHANGED <<members, phase>>
  BY <1>5 DEF FriendRequestEnds, SessionAccess, SessionRequestEnds
<1>6. CASE UNCHANGED <<members, phase>>
  BY <1>1, <1>6, OthersStayOwner
<1> QED BY <1>2, <1>3, <1>4, <1>5, <1>6 DEF FriendStep

\* The Session's own operations hand the role over or leave it.
LEMMA SessionLeavesOwners ==
    ASSUME TypeInv, NoSecondOwner, SessionStep, NEW u \in User, IsOwner(u), ~IsOwner(u)'
    PROVE  phase' = "deleted" \/ (owner' # u /\ IsOwner(owner)')
<1>1. /\ IsTable(members, User, MemberRow) /\ members[u] \in MemberRow
      /\ u \in DOMAIN members /\ IsMember(u) /\ members[u].role = "owner" /\ u = owner
      /\ phase # "deleted"
  BY DEF IsOwner, IsMember, NoSecondOwner, TypeInv, IsTable
<1>2. ASSUME NEW x \in User, NEW role \in Guest, JoinByInvite(x, role) PROVE FALSE
  <2>1. x # u /\ phase' = phase
    BY <1>1, <1>2 DEF JoinByInvite
  <2>2. u \in DOMAIN members' /\ members'[u] = members[u]
    BY <1>1, <1>2, <2>1 DEF JoinByInvite, Enter, Put
  <2> QED BY <2>1, <2>2, OthersStayOwner
<1>3. ASSUME NEW x \in User, MembershipEnds(x) PROVE FALSE
  <2>1. x # u /\ phase' = phase
    BY <1>1, <1>3 DEF MembershipEnds
  <2>2. u \in DOMAIN members' /\ members'[u] = members[u]
    BY <1>1, <1>3, <2>1 DEF MembershipEnds
  <2> QED BY <2>1, <2>2, OthersStayOwner
<1>4. ASSUME NEW x \in User, NEW target \in User, TransferOwnership(x, target)
      PROVE  owner' # u /\ IsOwner(owner)'
  <2>1. /\ x = u /\ target # u /\ owner' = target /\ phase' = phase
        /\ target \in DOMAIN members /\ ~members[target].removed
    BY <1>1, <1>4 DEF TransferOwnership, IsOwner, IsMember, NoSecondOwner
  <2>2. members[target] \in MemberRow
    BY <1>1, <2>1 DEF IsTable
  <2>3. /\ target \in DOMAIN members'
        /\ members'[target] = [members[target] EXCEPT !.role = "owner"]
    BY <1>1, <1>4, <2>1 DEF TransferOwnership, IsTable
  <2>4. members'[target].role = "owner" /\ ~members'[target].removed
    BY <2>1, <2>2, <2>3 DEF MemberRow
  <2> QED BY <1>1, <2>1, <2>3, <2>4 DEF IsOwner, IsMember
<1>5. ASSUME NEW x \in User, NEW next \in {"active", "closed", "deleted"}, SessionPhase(x, next)
      PROVE  phase' = "deleted"
  <2>1. phase' = next /\ members' = members
    BY <1>5 DEF SessionPhase
  <2> QED BY <1>1, <2>1 DEF IsOwner, IsMember
<1>6. ASSUME NEW x \in User, NEW off \in BOOLEAN, SetDisabled(x, off) PROVE FALSE
  <2>1. UNCHANGED <<members, phase>>
    BY <1>6 DEF SetDisabled
  <2> QED BY <1>1, <2>1, OthersStayOwner
<1> QED BY <1>2, <1>3, <1>4, <1>5, <1>6 DEF SessionStep

\* An owner goes with the Session, by a transfer, or with the accepted grant that
\* let this owner in: the one way in which a Session loses its last owner.
THEOREM OwnersGoWithTheirGrant == Spec => OwnersGoOnlyWithTheirGrant
<1>1. Init => SourcedInv
  BY DEF Init, SharingInit, SourcedInv, Sourced, NoRows, Put, NewRow
<1>2. TypeInv /\ SourcedInv /\ [Next]_vars => SourcedInv'
  BY SourcesKept
<1>3. TypeInv /\ NoSecondOwner /\ SourcedInv /\ [Next]_vars =>
        [\A u \in User : IsOwner(u) /\ ~IsOwner(u)' =>
            \/ phase' = "deleted"
            \/ owner' # u /\ IsOwner(owner)'
            \/ LET g == members[u].grant
               IN  /\ members[u].source = "account_share"
                   /\ g \in DOMAIN grants
                   /\ grants[g].status = "accepted" /\ grants[g].to = u]_vars
  <2> SUFFICES ASSUME TypeInv, NoSecondOwner, SourcedInv, Next,
                      NEW u \in User, IsOwner(u), ~IsOwner(u)'
               PROVE  \/ phase' = "deleted"
                      \/ owner' # u /\ IsOwner(owner)'
                      \/ LetInBy(u)
    BY DEF LetInBy
  <2> QED BY SharesTakeOwners, FriendsLeaveOwners, SessionLeavesOwners DEF Next
<1> QED BY <1>1, <1>2, <1>3, TypesHold, NoOtherOwner, PTL DEF Spec, OwnersGoOnlyWithTheirGrant

-----------------------------------------------------------------------------
(* Pending requests *)

\* BlockedPair after the step.
NextBlocked(a, b) == <<a, b>> \in friendBlocks' \/ <<b, a>> \in friendBlocks'

\* What a pending request rests on is not taken away.
Undisturbed(s, host, kind) ==
    /\ {s, host} \in DOMAIN friends =>
          {s, host} \in DOMAIN friends' /\ friends'[{s, host}] = friends[{s, host}]
    /\ ~BlockedPair(s, host) => ~NextBlocked(s, host)
    /\ kind = "application" /\ access.visible => access'.visible

\* A block concerns the two it is between.
LEMMA OthersNotBlocked ==
    ASSUME NEW a, NEW b, NEW u, NEW other, {a, b} # {u, other},
           friendBlocks' \subseteq friendBlocks \cup {<<u, other>>}
    PROVE  ~BlockedPair(a, b) => ~NextBlocked(a, b)
<1>1. <<a, b>> # <<u, other>> /\ <<b, a>> # <<u, other>>
  OBVIOUS
<1>. QED
  BY <1>1 DEF BlockedPair, NextBlocked

\* A request whose pair, visibility and owner are untouched stays current.
LEMMA RequestsLeft ==
    ASSUME RequestsAreCurrent, owner' = owner,
           DOMAIN requests' \subseteq DOMAIN requests,
           \A s \in DOMAIN requests' :
               /\ requests'[s] = requests[s]
               /\ Undisturbed(s, requests[s].host, requests[s].kind)
    PROVE  RequestsAreCurrent'
<1>. SUFFICES ASSUME NEW s \in DOMAIN requests'
              PROVE  LET r == requests'[s]
                     IN  /\ r.host = owner'
                         /\ ~NextBlocked(s, r.host)
                         /\ {s, r.host} \in DOMAIN friends'
                         /\ friends'[{s, r.host}].status = "accepted"
                         /\ r.kind = "application" => access'.visible
  BY DEF RequestsAreCurrent, BlockedPair, NextBlocked
<1>1. s \in DOMAIN requests /\ requests'[s] = requests[s]
  OBVIOUS
<1>2. /\ requests[s].host = owner
      /\ ~BlockedPair(s, requests[s].host)
      /\ {s, requests[s].host} \in DOMAIN friends
      /\ friends[{s, requests[s].host}].status = "accepted"
      /\ requests[s].kind = "application" => access.visible
  BY <1>1 DEF RequestsAreCurrent
<1>. QED
  BY <1>1, <1>2 DEF Undisturbed

\* Ending a friendship, blocking and hiding withdraw what they make stale.
LEMMA FriendStepKeepsRequests ==
    ASSUME TypeInv, NoSecondOwner, RequestsAreCurrent, FriendStep
    PROVE  RequestsAreCurrent'
<1>1. owner' = owner
  BY FriendStepKeepsOwner
<1>2. ASSUME NEW keys
      PROVE  /\ DOMAIN Without(requests, keys) = DOMAIN requests \ keys
             /\ \A s \in DOMAIN requests \ keys : Without(requests, keys)[s] = requests[s]
  BY RowsAfterWithout
<1>3. ASSUME NEW keys, requests' = Without(requests, keys),
             UNCHANGED <<friends, friendBlocks, access>>
      PROVE  RequestsAreCurrent'
  BY <1>1, <1>2, <1>3, RequestsLeft DEF BlockedPair, NextBlocked, Undisturbed
<1>4. ASSUME NEW u \in User, NEW other \in User, RequestFriend(u, other)
      PROVE  RequestsAreCurrent'
  <2>. DEFINE row == [sender |-> u, status |-> "pending"]
  <2>1. /\ {u, other} \notin DOMAIN friends
        /\ friends' = Put(friends, {u, other}, row)
        /\ UNCHANGED <<friendBlocks, access, requests>>
    BY <1>4 DEF RequestFriend
  <2>. HIDE DEF row
  <2>2. \A pair \in DOMAIN friends :
           pair \in DOMAIN friends' /\ friends'[pair] = friends[pair]
    BY <2>1 DEF Put
  <2>. QED
    BY <1>1, <2>1, <2>2, RequestsLeft DEF BlockedPair, NextBlocked, Undisturbed
<1>5. ASSUME NEW u \in User, NEW other \in User, AcceptFriend(u, other)
      PROVE  RequestsAreCurrent'
  <2>. DEFINE pair == {u, other}
  <2>1. /\ pair \in DOMAIN friends
        /\ friends[pair].status = "pending"
        /\ friends' = [friends EXCEPT ![pair].status = "accepted"]
        /\ UNCHANGED <<friendBlocks, access, requests>>
    BY <1>5 DEF AcceptFriend
  <2>. HIDE DEF pair
  <2>2. \A p \in DOMAIN friends \ {pair} :
           p \in DOMAIN friends' /\ friends'[p] = friends[p]
    BY <2>1
  <2>3. \A s \in DOMAIN requests : {s, requests[s].host} # pair
    BY <2>1 DEF RequestsAreCurrent
  <2>. QED
    BY <1>1, <2>1, <2>2, <2>3, RequestsLeft DEF BlockedPair, NextBlocked, Undisturbed
<1>6. ASSUME NEW pair \in DOMAIN friends, FriendRequestEnds(pair)
      PROVE  RequestsAreCurrent'
  <2>1. /\ friends[pair].status = "pending"
        /\ friends' = Without(friends, {pair})
        /\ UNCHANGED <<friendBlocks, access, requests>>
    BY <1>6 DEF FriendRequestEnds
  <2>2. \A p \in DOMAIN friends \ {pair} :
           p \in DOMAIN friends' /\ friends'[p] = friends[p]
    BY <2>1, RowsAfterWithout
  <2>3. \A s \in DOMAIN requests : {s, requests[s].host} # pair
    BY <2>1 DEF RequestsAreCurrent
  <2>. QED
    BY <1>1, <2>1, <2>2, <2>3, RequestsLeft DEF BlockedPair, NextBlocked, Undisturbed
<1>7. ASSUME NEW u \in User, NEW other \in User, Separated(u, other),
             access' = access, friendBlocks' \subseteq friendBlocks \cup {<<u, other>>}
      PROVE  RequestsAreCurrent'
  <2>1. \A p \in DOMAIN friends \ {{u, other}} :
           p \in DOMAIN friends' /\ friends'[p] = friends[p]
    BY <1>7, RowsAfterWithout DEF Separated
  <2>2. /\ DOMAIN requests' = DOMAIN requests \ RequestsBetween(u, other)
        /\ \A s \in DOMAIN requests' : requests'[s] = requests[s]
    BY <1>2, <1>7 DEF Separated
  <2>3. \A s \in DOMAIN requests' : {s, requests[s].host} # {u, other}
    BY <2>2 DEF RequestsBetween
  <2>4. ASSUME NEW s \in DOMAIN requests'
        PROVE  Undisturbed(s, requests[s].host, requests[s].kind)
    <3>. DEFINE host == requests[s].host
    <3>1. {s, host} # {u, other}
      BY <2>3
    <3>. HIDE DEF host
    <3>2. ~BlockedPair(s, host) => ~NextBlocked(s, host)
      BY <1>7, <3>1, OthersNotBlocked
    <3>3. Undisturbed(s, host, requests[s].kind)
      BY <1>7, <2>1, <3>1, <3>2 DEF Undisturbed
    <3>. QED
      BY <3>3 DEF host
  <2>. QED
    BY <1>1, <2>2, <2>4, RequestsLeft
<1>8. ASSUME NEW u \in User, NEW other \in User,
             RemoveFriend(u, other) \/ BlockFriend(u, other)
      PROVE  RequestsAreCurrent'
  BY <1>7, <1>8 DEF RemoveFriend, BlockFriend
<1>9. ASSUME NEW u \in User, NEW other \in User, UnblockFriend(u, other)
      PROVE  RequestsAreCurrent'
  BY <1>1, <1>9, RequestsLeft DEF UnblockFriend, BlockedPair, NextBlocked, Undisturbed
<1>10. ASSUME NEW u \in User, NEW visible \in BOOLEAN, NEW direct \in BOOLEAN,
              NEW role \in Guest, SessionAccess(u, visible, direct, role)
       PROVE  RequestsAreCurrent'
  <2>1. /\ access'.visible = visible
        /\ requests' = Without(requests, Withdrawn(visible))
        /\ UNCHANGED <<friends, friendBlocks>>
    BY <1>10 DEF SessionAccess
  <2>2. /\ DOMAIN requests' = DOMAIN requests \ Withdrawn(visible)
        /\ \A s \in DOMAIN requests' : requests'[s] = requests[s]
    BY <1>2, <2>1
  <2>3. ASSUME NEW s \in DOMAIN requests', requests[s].kind = "application"
        PROVE  access'.visible
    <3>1. s \in DOMAIN requests /\ s \notin Withdrawn(visible)
      BY <2>2
    <3>2. visible
      BY <2>3, <3>1 DEF Withdrawn
    <3>. QED
      BY <2>1, <3>2
  <2>4. ASSUME NEW s \in DOMAIN requests'
        PROVE  Undisturbed(s, requests[s].host, requests[s].kind)
    BY <2>1, <2>3 DEF Undisturbed, BlockedPair, NextBlocked
  <2>. QED
    BY <1>1, <2>2, <2>4, RequestsLeft
<1>11. ASSUME NEW u \in User, NEW other \in User,
              NEW kind \in {"invitation", "application"}, NEW role \in Guest,
              RequestSession(u, other, kind, role)
       PROVE  RequestsAreCurrent'
  <2>. DEFINE host == IF kind = "invitation" THEN u ELSE owner
              row == [host |-> host, kind |-> kind, role |-> role]
  <2>1. /\ requests' = Put(requests, other, row) /\ AreFriends(host, other)
        /\ UNCHANGED <<friends, friendBlocks, access>>
        /\ IF kind = "invitation" THEN IsOwner(u) ELSE access.visible /\ u = other
    BY <1>11 DEF RequestSession
  <2>2. host = owner
    BY <2>1 DEF IsOwner, IsMember, NoSecondOwner
  <2>3. row.host = host /\ row.kind = kind
    OBVIOUS
  <2>. HIDE DEF row, host
  <2>4. /\ ~BlockedPair(other, host) /\ {other, host} = {host, other}
        /\ {host, other} \in DOMAIN friends
        /\ friends[{host, other}].status = "accepted"
    BY <2>1 DEF AreFriends, BlockedPair
  <2>5. /\ requests'[other] = row /\ DOMAIN requests' = DOMAIN requests \cup {other}
        /\ \A s \in DOMAIN requests \ {other} : requests'[s] = requests[s]
    BY <2>1 DEF Put
  <2>6. row.kind = "application" => access.visible
    BY <2>1, <2>3
  <2>. DEFINE IsCurrent(s, r) ==
                 /\ r.host = owner /\ ~BlockedPair(s, r.host)
                 /\ {s, r.host} \in DOMAIN friends
                 /\ friends[{s, r.host}].status = "accepted"
                 /\ r.kind = "application" => access.visible
  <2>7. IsCurrent(other, row)
    BY <2>2, <2>3, <2>4, <2>6
  <2>8. \A s \in DOMAIN requests : IsCurrent(s, requests[s])
    BY DEF RequestsAreCurrent
  <2>. HIDE DEF IsCurrent
  <2>9. \A s \in DOMAIN requests' : IsCurrent(s, requests'[s])
    BY <2>5, <2>7, <2>8
  <2>. QED
    BY <1>1, <2>1, <2>9 DEF RequestsAreCurrent, BlockedPair, IsCurrent
<1>12. ASSUME \/ \E u \in User : JoinFriendSession(u)
              \/ \E s \in DOMAIN requests : AcceptSession(s) \/ SessionRequestEnds(s)
       PROVE  RequestsAreCurrent'
  BY <1>3, <1>12 DEF JoinFriendSession, AcceptSession, SessionRequestEnds
<1>. QED
  BY <1>4, <1>5, <1>6, <1>8, <1>9, <1>10, <1>11, <1>12 DEF FriendStep

\* Pending requests are between the present owner and a friend.
THEOREM RequestsStayCurrent == Spec => []RequestsAreCurrent
<1>1. Init => RequestsAreCurrent
  BY DEF Init, SharingInit, RequestsAreCurrent, NoRows
<1>2. TypeInv /\ NoSecondOwner /\ RequestsAreCurrent /\ [Next]_vars => RequestsAreCurrent'
  <2>. SUFFICES ASSUME TypeInv, NoSecondOwner, RequestsAreCurrent, [Next]_vars
                PROVE  RequestsAreCurrent'
    OBVIOUS
  <2>1. ASSUME UNCHANGED <<owner, socialVars>> PROVE RequestsAreCurrent'
    BY <2>1 DEF socialVars, RequestsAreCurrent, BlockedPair
  <2>2. CASE UNCHANGED vars
    BY <2>1, <2>2 DEF vars, sharingVars
  <2>3. CASE ShareStep
    BY <2>1, <2>3, ShareStepKeepsOwner
  <2>4. CASE FriendStep
    BY <2>4, FriendStepKeepsRequests
  <2>5. CASE SessionStep
    <3>1. CASE \E u, target \in User : TransferOwnership(u, target)
      BY <3>1 DEF TransferOwnership, OwnerChanged, RequestsAreCurrent, NoRows
    <3>2. CASE \/ \E u \in User, role \in Guest : JoinByInvite(u, role)
               \/ \E u \in User : MembershipEnds(u)
               \/ \E u \in User, next \in {"active", "closed", "deleted"} :
                     SessionPhase(u, next)
               \/ \E u \in User, off \in BOOLEAN : SetDisabled(u, off)
      BY <2>1, <3>2 DEF JoinByInvite, MembershipEnds, SessionPhase, SetDisabled
    <3>. QED
      BY <2>5, <3>1, <3>2 DEF SessionStep
  <2>. QED
    BY <2>2, <2>3, <2>4, <2>5 DEF Next
<1>. QED
  BY <1>1, <1>2, TypesHold, NoOtherOwner, PTL DEF Spec

-----------------------------------------------------------------------------
(* Shares end with their grant *)

\* A present membership that a share let in names, as its source, a grant that
\* is accepted and still lets in.
Backed(row, table) ==
    ~row.removed /\ row.by = "account_share" =>
        /\ row.source = "account_share"
        /\ row.grant \in DOMAIN table
        /\ table[row.grant].status = "accepted"
        /\ Joinable(table[row.grant].scope)

AllBacked(rows, table) == \A u \in DOMAIN rows : Backed(rows[u], table)

\* A block ended what the blocked account shared, and lets nothing new in.
BlocksInv == \A g \in DOMAIN grants : Open(g) => ~Blocks(grants[g].to, grants[g].from)

GuestsInv == AllBacked(members, grants) /\ BlocksInv

\* Accepted grants but those of gs stay accepted, with their scope.
Keeps(old, new, gs) ==
    \A g \in DOMAIN old \ gs : old[g].status = "accepted" =>
        /\ g \in DOMAIN new
        /\ new[g].status = "accepted" /\ new[g].scope = old[g].scope

\* Memberships are as good as before when no grant is lost.
LEMMA StillBacked ==
    ASSUME NEW rows, NEW old, NEW new, AllBacked(rows, old), Keeps(old, new, {})
    PROVE  AllBacked(rows, new)
BY DEF AllBacked, Backed, Keeps

\* Who a lost grant let in goes, unless what is left of the grant retains it.
LEMMA TakenBack ==
    ASSUME NEW rows, IsTable(rows, User, MemberRow), NEW old, NEW new, NEW gs,
           AllBacked(rows, old), Keeps(old, new, gs), NEW retained,
           \A u \in retained, g \in gs :
              u \in DOMAIN rows /\ rows[u].grant = g /\ g \in DOMAIN old
                 /\ old[g].status = "accepted" =>
                 /\ g \in DOMAIN new
                 /\ new[g].status = "accepted" /\ Joinable(new[g].scope)
    PROVE  AllBacked(RevokeShareMemberships(rows, gs, retained), new)
<1>. DEFINE next == RevokeShareMemberships(rows, gs, retained)
<1>1. /\ DOMAIN next = DOMAIN rows
      /\ \A u \in DOMAIN rows : ~next[u].removed =>
            /\ next[u] = rows[u]
            /\ ~(/\ rows[u].source = "account_share" /\ rows[u].grant \in gs
                 /\ u \notin retained)
  BY DEF RevokeShareMemberships, IsTable, MemberRow
<1>. HIDE DEF next
<1>2. ASSUME NEW u \in DOMAIN rows, ~next[u].removed, rows[u].by = "account_share"
      PROVE  /\ rows[u].source = "account_share"
             /\ rows[u].grant \in DOMAIN new
             /\ new[rows[u].grant].status = "accepted"
             /\ Joinable(new[rows[u].grant].scope)
  <2>1. /\ rows[u].source = "account_share"
        /\ rows[u].grant \in DOMAIN old
        /\ old[rows[u].grant].status = "accepted"
        /\ Joinable(old[rows[u].grant].scope)
    BY <1>1, <1>2 DEF AllBacked, Backed
  <2>2. CASE rows[u].grant \notin gs
    BY <2>1, <2>2 DEF Keeps
  <2>3. CASE rows[u].grant \in gs
    BY <1>1, <1>2, <2>1, <2>3
  <2>. QED
    BY <2>1, <2>2, <2>3
<1>. QED
  BY <1>1, <1>2 DEF AllBacked, Backed, next

\* expireShareGrants
LEMMA SweepLeavesBacked ==
    ASSUME TypeInv, AllBacked(members, grants)
    PROVE  /\ AllBacked(SweptMembers, SweptGrants)
           /\ IsTable(SweptMembers, User, MemberRow)
           /\ DOMAIN SweptGrants = DOMAIN grants
           /\ \A g \in DOMAIN grants \ Lapsed : SweptGrants[g] = grants[g]
           /\ \A g \in DOMAIN grants :
                 /\ SweptGrants[g].from = grants[g].from
                 /\ SweptGrants[g].to = grants[g].to
                 /\ SweptGrants[g].status \in {"pending", "accepted"} =>
                       SweptGrants[g] = grants[g]
<1>1. /\ IsTable(members, User, MemberRow)
      /\ \A g \in DOMAIN grants : grants[g] \in GrantRow
      /\ DOMAIN SweptGrants = DOMAIN grants
  BY SweptTypes DEF TypeInv, GrantTable
<1>2. /\ \A g \in DOMAIN grants \ Lapsed : SweptGrants[g] = grants[g]
      /\ \A g \in DOMAIN grants :
            g \in Lapsed => SweptGrants[g] = [grants[g] EXCEPT !.status = "expired"]
  BY DEF SweptGrants
<1>3. \A g \in DOMAIN grants :
         /\ SweptGrants[g].from = grants[g].from
         /\ SweptGrants[g].to = grants[g].to
         /\ SweptGrants[g].status \in {"pending", "accepted"} => SweptGrants[g] = grants[g]
  <2>. TAKE g \in DOMAIN grants
  <2>1. CASE g \in Lapsed
    <3>1. SweptGrants[g] = [grants[g] EXCEPT !.status = "expired"] /\ grants[g] \in GrantRow
      BY <1>1, <1>2, <2>1
    <3>. QED
      BY <3>1 DEF GrantRow
  <2>2. CASE g \notin Lapsed
    BY <1>2, <2>2
  <2>. QED
    BY <2>1, <2>2
<1>4. Keeps(grants, SweptGrants, Lapsed)
  BY <1>1, <1>2 DEF Keeps
<1>5. AllBacked(SweptMembers, SweptGrants)
  BY <1>1, <1>4, TakenBack DEF SweptMembers
<1>6. IsTable(SweptMembers, User, MemberRow)
  BY ShrunkMembers DEF Shrunk
<1>. QED
  BY <1>1, <1>2, <1>3, <1>5, <1>6

\* A step after which no other grant is open between the same accounts, and
\* that blocks nobody.
LEMMA NobodyNewBlocked ==
    ASSUME BlocksInv, shareBlocks' \subseteq shareBlocks,
           \A g \in DOMAIN grants' : grants'[g].status \in {"pending", "accepted"} =>
              /\ g \in DOMAIN grants /\ Open(g)
              /\ grants'[g].from = grants[g].from /\ grants'[g].to = grants[g].to
    PROVE  BlocksInv'
BY DEF BlocksInv, Open, Blocks

\* A change of a grant's status alone.
LEMMA StatusWritten ==
    ASSUME NEW table, GrantTable(table), NEW g \in DOMAIN table, NEW status \in GrantStatus
    PROVE  LET new == [table EXCEPT ![g].status = status]
           IN  /\ DOMAIN new = DOMAIN table
               /\ new[g].status = status /\ new[g].scope = table[g].scope
               /\ new[g].from = table[g].from /\ new[g].to = table[g].to
               /\ \A x \in DOMAIN table \ {g} : new[x] = table[x]
<1>1. table[g] \in GrantRow
  BY DEF GrantTable
<1>. QED
  BY <1>1 DEF GrantTable, GrantRow

\* The sweep, and what becomes of requests that are not accepted.
LEMMA QuietShareSteps ==
    ASSUME TypeInv, GuestsInv, NEW u \in User, NEW g \in DOMAIN grants,
           \/ ExpireShareGrants \/ GrantLapses(g)
           \/ RejectShareRequest(u, g) \/ CancelShareRequest(u, g)
    PROVE  GuestsInv'
<1>1. AllBacked(members, grants) /\ BlocksInv /\ GrantTable(grants)
  BY DEF GuestsInv, TypeInv
<1>2. CASE ExpireShareGrants
  <2>1. /\ members' = SweptMembers /\ grants' = SweptGrants
        /\ shareBlocks' = shareBlocks
    BY <1>2 DEF ExpireShareGrants
  <2>2. AllBacked(members', grants')
    BY <1>1, <2>1, SweepLeavesBacked
  <2>3. BlocksInv'
    BY <1>1, <2>1, SweepLeavesBacked, NobodyNewBlocked DEF Open
  <2>. QED
    BY <2>2, <2>3 DEF GuestsInv
<1>3. CASE RejectShareRequest(u, g) \/ CancelShareRequest(u, g)
  <2>1. PICK status \in {"rejected", "cancelled"} :
           grants' = [grants EXCEPT ![g].status = status]
    BY <1>3 DEF RejectShareRequest, CancelShareRequest
  <2>2. /\ grants[g].status = "pending"
        /\ UNCHANGED <<members, shareBlocks>>
    BY <1>3 DEF RejectShareRequest, CancelShareRequest
  <2>3. /\ DOMAIN grants' = DOMAIN grants /\ grants'[g].status = status
        /\ \A x \in DOMAIN grants \ {g} : grants'[x] = grants[x]
    <3>1. status \in GrantStatus
      BY DEF GrantStatus
    <3>. QED
      BY <1>1, <2>1, <3>1, StatusWritten
  <2>4. Keeps(grants, grants', {})
    BY <2>2, <2>3 DEF Keeps
  <2>5. BlocksInv'
    BY <1>1, <2>2, <2>3, NobodyNewBlocked DEF Open
  <2>. QED
    BY <1>1, <2>2, <2>4, <2>5, StillBacked DEF GuestsInv
<1>4. CASE GrantLapses(g)
  <2>1. /\ DOMAIN grants' = DOMAIN grants
        /\ UNCHANGED <<members, shareBlocks>>
        /\ grants'[g] = [grants[g] EXCEPT
              !.due = TRUE,
              !.status = IF grants[g].status = "pending" THEN "expired"
                                                         ELSE grants[g].status]
        /\ \A x \in DOMAIN grants \ {g} : grants'[x] = grants[x]
    BY <1>1, <1>4 DEF GrantLapses, GrantTable
  <2>2. grants[g] \in GrantRow
    BY <1>1 DEF GrantTable
  <2>3. /\ grants'[g].from = grants[g].from /\ grants'[g].to = grants[g].to
        /\ grants'[g].scope = grants[g].scope
        /\ grants'[g].status = IF grants[g].status = "pending" THEN "expired"
                                                               ELSE grants[g].status
    BY <2>1, <2>2 DEF GrantRow
  <2>4. Keeps(grants, grants', {})
    BY <2>1, <2>3 DEF Keeps
  <2>5. BlocksInv'
    BY <1>1, <2>1, <2>3, NobodyNewBlocked DEF Open
  <2>. QED
    BY <1>1, <2>1, <2>4, <2>5, StillBacked DEF GuestsInv
<1>. QED
  BY <1>2, <1>3, <1>4

\* A new request, or an old one that is accepted.
LEMMA RequestingKeepsGuests ==
    ASSUME TypeInv, GuestsInv, NEW u \in User,
           \/ \E to \in User, scope \in Scope : CreateShareRequest(u, to, scope)
           \/ \E g \in DOMAIN grants : AcceptShareRequest(u, g)
    PROVE  GuestsInv'
<1>1. /\ AllBacked(members, grants) /\ BlocksInv
      /\ GrantTable(grants) /\ GrantTable(SweptGrants)
      /\ DOMAIN SweptGrants = DOMAIN grants
      /\ AllBacked(SweptMembers, SweptGrants)
  BY SweepLeavesBacked, SweptTypes DEF GuestsInv, TypeInv
<1>2. ASSUME NEW to \in User, NEW scope \in Scope, CreateShareRequest(u, to, scope)
      PROVE  GuestsInv'
  <2>. PICK id : id = Cardinality(DOMAIN grants) + 1
    OBVIOUS
  <2>. PICK row : row = [from |-> u, to |-> to, scope |-> scope,
                         status |-> "pending", due |-> FALSE]
    OBVIOUS
  <2>1. /\ grants' = Put(SweptGrants, id, row) /\ members' = SweptMembers
        /\ shareBlocks' = shareBlocks /\ ~Blocks(to, u)
    BY <1>2 DEF CreateShareRequest
  <2>2. id \notin DOMAIN SweptGrants
    BY <1>1, GrantIds
  <2>3. /\ DOMAIN grants' = DOMAIN SweptGrants \cup {id} /\ grants'[id] = row
        /\ \A x \in DOMAIN SweptGrants : grants'[x] = SweptGrants[x]
    BY <2>1, <2>2 DEF Put
  <2>4. Keeps(SweptGrants, grants', {})
    BY <2>3 DEF Keeps
  <2>5. BlocksInv'
    <3>1. row.from = u /\ row.to = to
      OBVIOUS
    <3>2. ASSUME NEW g \in DOMAIN grants', grants'[g].status \in {"pending", "accepted"}
          PROVE  <<grants'[g].to, grants'[g].from>> \notin shareBlocks
      <4>1. CASE g = id
        BY <2>1, <2>3, <3>1, <4>1 DEF Blocks
      <4>2. CASE g # id
        BY <1>1, <2>3, <3>2, <4>2, SweepLeavesBacked DEF BlocksInv, Open, Blocks
      <4>. QED
        BY <4>1, <4>2
    <3>. QED
      BY <2>1, <3>2 DEF BlocksInv, Open, Blocks
  <2>. QED
    BY <1>1, <2>1, <2>4, <2>5, StillBacked DEF GuestsInv
<1>3. ASSUME NEW g \in DOMAIN grants, AcceptShareRequest(u, g)
      PROVE  GuestsInv'
  <2>1. /\ grants' = [SweptGrants EXCEPT ![g].status = "accepted"]
        /\ members' = SweptMembers /\ shareBlocks' = shareBlocks
        /\ grants[g].status = "pending"
    BY <1>3 DEF AcceptShareRequest
  <2>2. /\ DOMAIN grants' = DOMAIN SweptGrants
        /\ grants'[g].status = "accepted" /\ grants'[g].scope = SweptGrants[g].scope
        /\ grants'[g].from = SweptGrants[g].from /\ grants'[g].to = SweptGrants[g].to
        /\ \A x \in DOMAIN SweptGrants \ {g} : grants'[x] = SweptGrants[x]
    <3>1. "accepted" \in GrantStatus
      BY DEF GrantStatus
    <3>. QED
      BY <1>1, <2>1, <3>1, StatusWritten
  <2>3. Keeps(SweptGrants, grants', {})
    BY <2>2 DEF Keeps
  <2>4. \A x \in DOMAIN grants' : grants'[x].status \in {"pending", "accepted"} =>
           /\ x \in DOMAIN grants /\ Open(x)
           /\ grants'[x].from = grants[x].from /\ grants'[x].to = grants[x].to
    BY <1>1, <2>1, <2>2, SweepLeavesBacked DEF Open
  <2>. QED
    BY <1>1, <2>1, <2>3, <2>4, StillBacked, NobodyNewBlocked DEF GuestsInv
<1>. QED
  BY <1>2, <1>3

\* Revoking, narrowing and blocking.
LEMMA RevokingKeepsGuests ==
    ASSUME TypeInv, GuestsInv, NEW u \in User, NEW g \in DOMAIN grants,
           \/ RevokeShareGrant(u, g)
           \/ \E scope \in Scope : UpdateShareGrant(u, g, scope)
    PROVE  GuestsInv'
<1>1. /\ AllBacked(members, grants) /\ BlocksInv
      /\ GrantTable(grants) /\ GrantTable(SweptGrants)
      /\ DOMAIN SweptGrants = DOMAIN grants
      /\ AllBacked(SweptMembers, SweptGrants)
      /\ IsTable(members, User, MemberRow) /\ IsTable(SweptMembers, User, MemberRow)
  BY SweepLeavesBacked, SweptTypes DEF GuestsInv, TypeInv
<1>2. CASE RevokeShareGrant(u, g)
  <2>1. /\ grants' = [grants EXCEPT ![g].status = "revoked"]
        /\ members' = RevokeShareMemberships(members, {g}, {})
        /\ shareBlocks' = shareBlocks
    BY <1>2 DEF RevokeShareGrant
  <2>2. /\ DOMAIN grants' = DOMAIN grants /\ grants'[g].status = "revoked"
        /\ \A x \in DOMAIN grants \ {g} : grants'[x] = grants[x]
    <3>1. "revoked" \in GrantStatus
      BY DEF GrantStatus
    <3>. QED
      BY <1>1, <2>1, <3>1, StatusWritten
  <2>3. Keeps(grants, grants', {g})
    BY <2>2 DEF Keeps
  <2>4. AllBacked(members', grants')
    BY <1>1, <2>1, <2>3, TakenBack
  <2>5. BlocksInv'
    BY <1>1, <2>1, <2>2, NobodyNewBlocked DEF Open
  <2>. QED
    BY <2>4, <2>5 DEF GuestsInv
<1>3. ASSUME NEW scope \in Scope, UpdateShareGrant(u, g, scope)
      PROVE  GuestsInv'
  <2>. PICK retained : retained = {x \in DOMAIN members : Retained(u, scope, SweptMembers[x])}
    OBVIOUS
  <2>1. /\ g \notin Lapsed /\ shareBlocks' = shareBlocks
        /\ grants' = [SweptGrants EXCEPT ![g].scope = scope]
        /\ members' = IF grants[g].status = "accepted"
                      THEN RevokeShareMemberships(SweptMembers, {g}, retained)
                      ELSE SweptMembers
    BY <1>3 DEF UpdateShareGrant
  <2>2. SweptGrants[g] = grants[g] /\ grants[g] \in GrantRow
    BY <1>1, <2>1, SweepLeavesBacked DEF GrantTable
  <2>3. /\ DOMAIN grants' = DOMAIN SweptGrants
        /\ grants'[g] = [SweptGrants[g] EXCEPT !.scope = scope]
        /\ \A x \in DOMAIN SweptGrants \ {g} : grants'[x] = SweptGrants[x]
    BY <1>1, <2>1 DEF GrantTable
  <2>4. /\ grants'[g].scope = scope /\ grants'[g].status = grants[g].status
        /\ grants'[g].from = grants[g].from /\ grants'[g].to = grants[g].to
    BY <2>2, <2>3 DEF GrantRow
  <2>5. Keeps(SweptGrants, grants', {g})
    BY <2>3 DEF Keeps
  <2>6. CASE grants[g].status = "accepted"
    <3>1. ASSUME NEW x \in retained
          PROVE  Joinable(scope)
      <4>1. Retained(u, scope, SweptMembers[x])
        OBVIOUS
      <4>. QED
        BY <4>1 DEF Retained, Joinable
    <3>. PICK new : new = grants'
      OBVIOUS
    <3>2. \A x \in retained, h \in {g} :
             h \in DOMAIN new /\ new[h].status = "accepted" /\ Joinable(new[h].scope)
      BY <1>1, <2>3, <2>4, <2>6, <3>1
    <3>3. Keeps(SweptGrants, new, {g})
      BY <2>5
    <3>4. AllBacked(RevokeShareMemberships(SweptMembers, {g}, retained), new)
      BY <1>1, <3>2, <3>3, TakenBack
    <3>5. AllBacked(members, grants)'
      BY <2>1, <2>6, <3>4
    <3>. QED
      BY <1>1, <2>1, <2>3, <2>4, <2>6, <3>5, SweepLeavesBacked, NobodyNewBlocked
         DEF GuestsInv, Open
  <2>7. CASE grants[g].status # "accepted"
    <3>1. Keeps(SweptGrants, grants', {})
      BY <2>2, <2>3, <2>7 DEF Keeps
    <3>. QED
      BY <1>1, <2>1, <2>3, <2>4, <2>7, <3>1, StillBacked, SweepLeavesBacked,
         NobodyNewBlocked DEF GuestsInv, Open
  <2>. QED
    BY <2>6, <2>7
<1>. QED
  BY <1>2, <1>3

\* Blocking closes what is open from the blocked account.
LEMMA BlockingKeepsGuests ==
    ASSUME TypeInv, GuestsInv, NEW u \in User, NEW target \in User,
           BlockAccountShare(u, target)
    PROVE  GuestsInv'
<1>. PICK inbound : inbound = OpenPair(target, u)
  OBVIOUS
<1>. PICK gs : gs = {g \in inbound : grants[g].status = "accepted"}
  OBVIOUS
<1>1. /\ AllBacked(members, grants) /\ BlocksInv
      /\ IsTable(members, User, MemberRow)
      /\ \A g \in DOMAIN grants : grants[g] \in GrantRow
  BY DEF GuestsInv, TypeInv, GrantTable
<1>2. /\ members' = RevokeShareMemberships(members, gs, {})
      /\ shareBlocks' = shareBlocks \cup {<<u, target>>}
      /\ grants' = [g \in DOMAIN grants |->
            IF g \notin inbound THEN grants[g]
            ELSE [grants[g] EXCEPT !.status = IF grants[g].status = "pending"
                                              THEN "cancelled" ELSE "revoked"]]
  BY DEF BlockAccountShare
<1>3. /\ DOMAIN grants' = DOMAIN grants
      /\ \A g \in DOMAIN grants \ inbound : grants'[g] = grants[g]
      /\ \A g \in DOMAIN grants : g \in inbound =>
            /\ grants'[g].status \in {"cancelled", "revoked"}
            /\ grants'[g].from = grants[g].from /\ grants'[g].to = grants[g].to
  BY <1>1, <1>2 DEF GrantRow
<1>4. Keeps(grants, grants', gs)
  <2>1. \A g \in DOMAIN grants \ gs : grants[g].status = "accepted" => g \notin inbound
    OBVIOUS
  <2>. QED
    BY <1>3, <2>1 DEF Keeps
<1>5. AllBacked(members', grants')
  BY <1>1, <1>2, <1>4, TakenBack
<1>6. BlocksInv'
  <2>1. ASSUME NEW g \in DOMAIN grants', grants'[g].status \in {"pending", "accepted"}
        PROVE  <<grants'[g].to, grants'[g].from>> \notin shareBlocks'
    <3>1. g \in DOMAIN grants /\ g \notin inbound /\ grants'[g] = grants[g]
      BY <1>3, <2>1
    <3>2. <<grants[g].to, grants[g].from>> \notin shareBlocks
      BY <1>1, <2>1, <3>1 DEF BlocksInv, Open, Blocks
    <3>3. ~(grants[g].from = target /\ grants[g].to = u)
      BY <2>1, <3>1 DEF OpenPair, Open
    <3>. QED
      BY <1>2, <3>1, <3>2, <3>3
  <2>. QED
    BY <2>1 DEF BlocksInv, Open, Blocks
<1>. QED
  BY <1>5, <1>6 DEF GuestsInv

\* A row that joins with a passphrase names the grant it used.
LEMMA JoiningKeepsGuests ==
    ASSUME TypeInv, GuestsInv, NEW u \in User, NEW s \in Secret,
           JoinSessionWithShare(u, s)
    PROVE  GuestsInv'
<1>1. /\ AllBacked(SweptMembers, SweptGrants) /\ BlocksInv
      /\ IsTable(SweptMembers, User, MemberRow)
      /\ DOMAIN SweptGrants = DOMAIN grants
      /\ DOMAIN SweptMembers = DOMAIN members
  BY SweepLeavesBacked, ShrunkMembers DEF GuestsInv, Shrunk
<1>2. PICK g \in GrantOf(u) \ Lapsed :
         Joinable(grants[g].scope) /\ members' = JoinedWith(u, g)
  BY DEF JoinSessionWithShare
<1>3. grants' = SweptGrants /\ shareBlocks' = shareBlocks
  BY DEF JoinSessionWithShare
<1>4. /\ g \in DOMAIN grants /\ SweptGrants[g] = grants[g]
      /\ grants[g].status = "accepted"
  BY <1>2, SweepLeavesBacked DEF GrantOf, GuestsInv
<1>5. CASE u \in DOMAIN members /\ ~SweptMembers[u].removed
  <2>1. /\ DOMAIN members' = DOMAIN members
        /\ \A x \in DOMAIN members \ {u} : members'[x] = SweptMembers[x]
        /\ \E role : members'[u] = [SweptMembers[u] EXCEPT !.role = role]
    BY <1>1, <1>2, <1>5 DEF JoinedWith, IsTable
  <2>2. SweptMembers[u] \in MemberRow
    BY <1>1, <1>5 DEF IsTable
  <2>3. /\ members'[u].removed = SweptMembers[u].removed
        /\ members'[u].by = SweptMembers[u].by
        /\ members'[u].source = SweptMembers[u].source
        /\ members'[u].grant = SweptMembers[u].grant
    BY <2>1, <2>2 DEF MemberRow
  <2>4. Backed(SweptMembers[u], SweptGrants) => Backed(members'[u], SweptGrants)
    BY <2>3 DEF Backed
  <2>5. AllBacked(members', SweptGrants)
    BY <1>1, <1>5, <2>1, <2>4 DEF AllBacked
  <2>. QED
    BY <1>1, <1>3, <2>5, SweepLeavesBacked, NobodyNewBlocked DEF GuestsInv, Open
<1>6. CASE ~(u \in DOMAIN members /\ ~SweptMembers[u].removed)
  <2>. PICK row : row = NewRow(grants[g].scope.joinAs, "account_share", g)
    OBVIOUS
  <2>1. members' = Put(SweptMembers, u, row)
    BY <1>2, <1>6 DEF JoinedWith, Enter
  <2>2. Backed(row, SweptGrants)
    BY <1>1, <1>2, <1>4 DEF Backed, NewRow
  <2>3. /\ DOMAIN members' = DOMAIN SweptMembers \cup {u} /\ members'[u] = row
        /\ \A x \in DOMAIN SweptMembers \ {u} : members'[x] = SweptMembers[x]
    BY <2>1 DEF Put
  <2>4. AllBacked(members', SweptGrants)
    BY <1>1, <2>2, <2>3 DEF AllBacked
  <2>. QED
    BY <1>1, <1>3, <2>4, SweepLeavesBacked, NobodyNewBlocked DEF GuestsInv, Open
<1>. QED
  BY <1>5, <1>6

\* Shares.
LEMMA ShareStepKeepsGuests ==
    ASSUME TypeInv, GuestsInv, ShareStep
    PROVE  GuestsInv'
<1>1. CASE \E u \in User, g \in DOMAIN grants :
              \/ GrantLapses(g)
              \/ AcceptShareRequest(u, g) \/ RejectShareRequest(u, g)
              \/ CancelShareRequest(u, g) \/ RevokeShareGrant(u, g)
              \/ \E scope \in Scope : UpdateShareGrant(u, g, scope)
  BY <1>1, QuietShareSteps, RequestingKeepsGuests, RevokingKeepsGuests
<1>2. CASE \E u, to \in User :
              \/ \E scope \in Scope : CreateShareRequest(u, to, scope)
              \/ BlockAccountShare(u, to)
  BY <1>2, RequestingKeepsGuests, BlockingKeepsGuests
<1>3. CASE \E u \in User, s \in Secret : JoinSessionWithShare(u, s)
  BY <1>3, JoiningKeepsGuests
<1>4. CASE \/ ExpireShareGrants
           \/ \E u, to \in User : UnblockAccountShare(u, to)
           \/ \E u \in User, s \in Secret \cup {NoSecret} : SetJoinPassphrase(u, s)
  <2>1. CASE ExpireShareGrants
    <3>1. owner \in User /\ \E g : g \in DOMAIN grants
      BY <2>1 DEF TypeInv, ExpireShareGrants, Lapsed
    <3>. QED
      BY <2>1, <3>1, QuietShareSteps
  <2>2. CASE \/ \E u, to \in User : UnblockAccountShare(u, to)
             \/ \E u \in User, s \in Secret \cup {NoSecret} : SetJoinPassphrase(u, s)
    <3>1. UNCHANGED <<members, grants>> /\ shareBlocks' \subseteq shareBlocks
      BY <2>2 DEF SetJoinPassphrase, UnblockAccountShare
    <3>2. BlocksInv'
      BY <3>1, NobodyNewBlocked DEF GuestsInv, Open
    <3>. QED
      BY <3>1, <3>2 DEF GuestsInv
  <2>. QED
    BY <1>4, <2>1, <2>2
<1>. QED
  BY <1>1, <1>2, <1>3, <1>4 DEF ShareStep, TypeInv

\* Friends and invites let in without a share, and take no grant away.
LEMMA OtherStepKeepsGuests ==
    ASSUME TypeInv, GuestsInv, FriendStep \/ SessionStep
    PROVE  GuestsInv'
<1>1. /\ AllBacked(members, grants) /\ BlocksInv
      /\ \A u \in DOMAIN members : members[u] \in MemberRow
  BY DEF GuestsInv, TypeInv, IsTable
<1>2. UNCHANGED shareVars
  <2>1. CASE FriendStep
    <3>1. ASSUME \E u, other, kind, role :
                    \/ RequestFriend(u, other) \/ AcceptFriend(u, other)
                    \/ RemoveFriend(u, other) \/ BlockFriend(u, other)
                    \/ UnblockFriend(u, other) \/ RequestSession(u, other, kind, role)
          PROVE  UNCHANGED shareVars
      BY <3>1 DEF RequestFriend, AcceptFriend, RemoveFriend, BlockFriend, UnblockFriend,
         RequestSession
    <3>2. ASSUME \E s, u, visible, direct, role :
                    \/ FriendRequestEnds(s) \/ SessionAccess(u, visible, direct, role)
                    \/ JoinFriendSession(u) \/ AcceptSession(s) \/ SessionRequestEnds(s)
          PROVE  UNCHANGED shareVars
      BY <3>2 DEF FriendRequestEnds, SessionAccess, JoinFriendSession, AcceptSession,
         SessionRequestEnds
    <3>. QED
      BY <2>1, <3>1, <3>2 DEF FriendStep
  <2>2. CASE SessionStep
    BY <2>2 DEF SessionStep, JoinByInvite, MembershipEnds, TransferOwnership,
       SessionPhase, SetDisabled
  <2>. QED
    BY <2>1, <2>2
<1>3. ASSUME \A u \in DOMAIN members' :
                \/ members'[u].by # "account_share"
                \/ members'[u].removed
                \/ /\ u \in DOMAIN members
                   /\ members'[u].removed = members[u].removed
                   /\ members'[u].by = members[u].by
                   /\ members'[u].source = members[u].source
                   /\ members'[u].grant = members[u].grant
      PROVE  GuestsInv'
  <2>1. AllBacked(members', grants)
    BY <1>1, <1>3 DEF AllBacked, Backed
  <2>. QED
    BY <1>1, <1>2, <2>1 DEF GuestsInv, shareVars, BlocksInv, Open, Blocks
<1>4. CASE UNCHANGED members
  BY <1>3, <1>4
<1>5. ASSUME NEW u, NEW role, NEW source \in {"friend", "invite"},
             members' = Enter(members, u, role, source, 0)
      PROVE  GuestsInv'
  <2>1. /\ DOMAIN members' = DOMAIN members \cup {u}
        /\ members'[u].by = source
        /\ \A x \in DOMAIN members \ {u} : members'[x] = members[x]
    BY <1>5 DEF Enter, Put, NewRow
  <2>. QED
    BY <1>3, <2>1
<1>6. CASE FriendStep
  <2>1. ASSUME \E u, other, kind, role :
                  \/ RequestFriend(u, other) \/ AcceptFriend(u, other)
                  \/ RemoveFriend(u, other) \/ BlockFriend(u, other)
                  \/ UnblockFriend(u, other) \/ RequestSession(u, other, kind, role)
        PROVE  GuestsInv'
    BY <1>4, <2>1 DEF RequestFriend, AcceptFriend, RemoveFriend, BlockFriend,
       UnblockFriend, RequestSession
  <2>2. ASSUME \E s, u, visible, direct, role :
                  \/ FriendRequestEnds(s) \/ SessionAccess(u, visible, direct, role)
                  \/ SessionRequestEnds(s)
        PROVE  GuestsInv'
    BY <1>4, <2>2 DEF FriendRequestEnds, SessionAccess, SessionRequestEnds
  <2>3. ASSUME \E s, u : JoinFriendSession(u) \/ AcceptSession(s)
        PROVE  GuestsInv'
    BY <1>4, <1>5, <2>3 DEF JoinFriendSession, AcceptSession
  <2>. QED
    BY <1>6, <2>1, <2>2, <2>3 DEF FriendStep
<1>7. ASSUME NEW u \in User, NEW role \in Guest, JoinByInvite(u, role)
      PROVE  GuestsInv'
  <2>1. CASE u \in DOMAIN members
    <3>1. /\ DOMAIN members' = DOMAIN members
          /\ members'[u].by = "invite"
          /\ \A x \in DOMAIN members \ {u} : members'[x] = members[x]
      BY <1>1, <1>7, <2>1 DEF JoinByInvite, MemberRow
    <3>. QED
      BY <1>3, <3>1
  <2>2. CASE u \notin DOMAIN members
    BY <1>5, <1>7, <2>2 DEF JoinByInvite
  <2>. QED
    BY <2>1, <2>2
<1>8. ASSUME NEW u \in User, MembershipEnds(u)
      PROVE  GuestsInv'
  <2>1. /\ u \in DOMAIN members /\ DOMAIN members' = DOMAIN members
        /\ members'[u].removed
        /\ \A x \in DOMAIN members \ {u} : members'[x] = members[x]
    BY <1>1, <1>8 DEF MembershipEnds, IsMember, MemberRow
  <2>. QED
    BY <1>3, <2>1
<1>9. ASSUME NEW u \in User, NEW target \in User, TransferOwnership(u, target)
      PROVE  GuestsInv'
  <2>1. /\ u \in DOMAIN members /\ target \in DOMAIN members /\ u # target
        /\ members' = [members EXCEPT ![u].role = "editor", ![target].role = "owner"]
    BY <1>9 DEF TransferOwnership, IsOwner, IsMember
  <2>2. /\ DOMAIN members' = DOMAIN members
        /\ members'[u] = [members[u] EXCEPT !.role = "editor"]
        /\ members'[target] = [members[target] EXCEPT !.role = "owner"]
        /\ \A x \in DOMAIN members \ {u, target} : members'[x] = members[x]
    BY <2>1
  <2>3. members[u] \in MemberRow /\ members[target] \in MemberRow
    BY <1>1, <2>1
  <2>4. \A x \in {u, target} :
           /\ members'[x].removed = members[x].removed
           /\ members'[x].by = members[x].by
           /\ members'[x].source = members[x].source
           /\ members'[x].grant = members[x].grant
    BY <2>2, <2>3 DEF MemberRow
  <2>. QED
    BY <1>3, <2>2, <2>4
<1>10. CASE \/ \E u \in User, next \in {"active", "closed", "deleted"} :
                  SessionPhase(u, next)
            \/ \E u \in User, off \in BOOLEAN : SetDisabled(u, off)
  BY <1>4, <1>10 DEF SessionPhase, SetDisabled
<1>. QED
  BY <1>6, <1>7, <1>8, <1>9, <1>10 DEF SessionStep

\* Whoever is a member because of a share has a grant that is accepted and
\* still lets in (revokeShareMemberships and expireShareGrants run in the
\* transaction that ends the grant), and nobody writes records of an owner it
\* has blocked, since blocking ends the open grants.
THEOREM SharesEnd == Spec => []SharesEndWithTheirGrant
<1>1. Init => GuestsInv
  BY DEF Init, SharingInit, GuestsInv, AllBacked, Backed, BlocksInv, NoRows, Put, NewRow
<1>2. TypeInv /\ GuestsInv /\ [Next]_vars => GuestsInv'
  <2>1. CASE UNCHANGED vars
    BY <2>1 DEF vars, sharingVars, shareVars, GuestsInv, AllBacked, Backed, BlocksInv,
       Open, Blocks
  <2>. QED
    BY <2>1, ShareStepKeepsGuests, OtherStepKeepsGuests DEF Next
<1>3. GuestsInv => SharesEndWithTheirGrant
  BY DEF GuestsInv, AllBacked, Backed, BlocksInv, Open, SharesEndWithTheirGrant,
     IsMember, MayWriteShared, SharedTo
<1>. QED
  BY <1>1, <1>2, <1>3, TypesHold, PTL DEF Spec
=============================================================================
