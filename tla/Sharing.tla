------------------------------ MODULE Sharing -------------------------------
(***************************************************************************)
(* Account shares and friendships together, beside the Session's own       *)
(* operations on its members and its owner.                                *)
(***************************************************************************)
EXTENDS AccountShares, Friendships

vars == sharingVars

\* Redeeming an invite, or being added by an administrator.  A removed row
\* comes back with the join_source and the grant it had.
JoinByInvite(u, role) ==
    /\ Enabled(u) /\ phase # "deleted" /\ ~IsMember(u)
    /\ members' = IF u \in DOMAIN members
                  THEN [members EXCEPT ![u].removed = FALSE, ![u].role = role,
                                       ![u].by = "invite"]
                  ELSE Enter(members, u, role, "invite", 0)
    /\ UNCHANGED <<disabled, owner, phase, shareVars, socialVars>>

\* Mutant: the role is not looked at.
MembershipOfAnyoneEnds(u) ==
    /\ IsMember(u) /\ phase # "deleted"
    /\ members' = [members EXCEPT ![u].removed = TRUE]
    /\ UNCHANGED <<disabled, owner, phase, shareVars, socialVars>>

\* A member leaves or is removed; neither can be the owner.
MembershipEnds(u) ==
    /\ IsMember(u) /\ members[u].role # "owner" /\ phase # "deleted"
    /\ members' = [members EXCEPT ![u].removed = TRUE]
    /\ UNCHANGED <<disabled, owner, phase, shareVars, socialVars>>

\* Mutant: the trigger is missing.
OwnerChangedKeepsRequests == UNCHANGED <<access, requests>>

\* trg_session_friend_owner_changed
OwnerChanged ==
    /\ access' = Private
    /\ requests' = NoRows

\* POST /:id/transfer-ownership by the owner, also of a closed Session.
TransferOwnership(u, target) ==
    /\ Enabled(u) /\ IsOwner(u) /\ u # target /\ IsMember(target)
    /\ members' = [members EXCEPT ![u].role = "editor", ![target].role = "owner"]
    /\ owner' = target
    /\ OwnerChanged
    /\ UNCHANGED <<disabled, phase, shareVars, friends, friendBlocks>>

\* Closing, reopening and deleting by the owner.
SessionPhase(u, next) ==
    /\ Enabled(u) /\ IsOwner(u)
    /\ <<phase, next>> \in {<<"active", "closed">>, <<"closed", "active">>,
                            <<"closed", "deleted">>}
    /\ phase' = next
    /\ UNCHANGED <<disabled, owner, members, shareVars, socialVars>>

\* An administrator disables or enables an account.
SetDisabled(u, off) ==
    /\ disabled' = IF off THEN disabled \cup {u} ELSE disabled \ {u}
    /\ disabled' # disabled
    /\ UNCHANGED <<owner, phase, members, shareVars, socialVars>>

-----------------------------------------------------------------------------
ShareStep ==
    \/ ExpireShareGrants
    \/ \E g \in DOMAIN grants : GrantLapses(g)
    \/ \E u, to \in User :
          \/ \E scope \in Scope : CreateShareRequest(u, to, scope)
          \/ BlockAccountShare(u, to)
          \/ UnblockAccountShare(u, to)
    \/ \E u \in User, g \in DOMAIN grants :
          \/ AcceptShareRequest(u, g)
          \/ RejectShareRequest(u, g)
          \/ CancelShareRequest(u, g)
          \/ RevokeShareGrant(u, g)
          \/ \E scope \in Scope : UpdateShareGrant(u, g, scope)
    \/ \E u \in User :
          \/ \E s \in Secret \cup {NoSecret} : SetJoinPassphrase(u, s)
          \/ \E s \in Secret : JoinSessionWithShare(u, s)

FriendStep ==
    \/ \E u, other \in User :
          \/ RequestFriend(u, other)
          \/ AcceptFriend(u, other)
          \/ RemoveFriend(u, other)
          \/ BlockFriend(u, other)
          \/ UnblockFriend(u, other)
          \/ \E kind \in {"invitation", "application"}, role \in Guest :
                RequestSession(u, other, kind, role)
    \/ \E pair \in DOMAIN friends : FriendRequestEnds(pair)
    \/ \E u \in User, visible, direct \in BOOLEAN, role \in Guest :
          SessionAccess(u, visible, direct, role)
    \/ \E u \in User : JoinFriendSession(u)
    \/ \E s \in DOMAIN requests : AcceptSession(s) \/ SessionRequestEnds(s)

SessionStep ==
    \/ \E u \in User, role \in Guest : JoinByInvite(u, role)
    \/ \E u \in User : MembershipEnds(u)
    \/ \E u, target \in User : TransferOwnership(u, target)
    \/ \E u \in User, next \in {"active", "closed", "deleted"} : SessionPhase(u, next)
    \/ \E u \in User, off \in BOOLEAN : SetDisabled(u, off)

Init == SharingInit

Next == ShareStep \/ FriendStep \/ SessionStep

Spec == Init /\ [][Next]_vars

-----------------------------------------------------------------------------
(* Properties *)

\* Whoever is a member because of a share has a grant that is accepted and
\* still gives this: revoking, expiry, narrowing and blocking each take back
\* what was let in, whatever joins, removals and transfers came before.  And
\* nobody writes records of an owner it has blocked.
SharesEndWithTheirGrant ==
    /\ \A u \in DOMAIN members :
          IsMember(u) /\ members[u].by = "account_share" =>
              /\ grants[members[u].grant].status = "accepted"
              /\ Joinable(grants[members[u].grant].scope)
    /\ \A u \in User : MayWriteShared(u) => ~Blocks(u, owner)

\* A pending request to take part is between the present owner and a friend,
\* and an application is for a Session that friends can see: ending the
\* friendship, blocking, a new owner and hiding the Session withdraw it.
RequestsAreCurrent ==
    \A s \in DOMAIN requests :
        LET r == requests[s]
        IN  /\ r.host = owner
            /\ ~BlockedPair(s, r.host)
            /\ {s, r.host} \in DOMAIN friends
            /\ friends[{s, r.host}].status = "accepted"
            /\ r.kind = "application" => access.visible

\* An owner goes in three ways: the Session is deleted, somebody else becomes
\* its owner, or the accepted grant that once let this owner in is taken back.
\* No join, removal, block or end of a share takes an owner away otherwise.
OwnersGoOnlyWithTheirGrant ==
    [][\A u \in User : IsOwner(u) /\ ~IsOwner(u)' =>
          \/ phase' = "deleted"
          \/ owner' # u /\ IsOwner(owner)'
          \/ LET g == members[u].grant
             IN  /\ members[u].source = "account_share"
                 /\ g \in DOMAIN grants
                 /\ grants[g].status = "accepted" /\ grants[g].to = u]_vars

\* A Session that is not deleted has exactly one owner
\* (docs/superpowers/specs/2026-07-11-collaboration-v1-design.md:108).  It has
\* none once a share let an account in, the account was made the owner and the
\* share ended.
ExactlyOneOwner ==
    phase # "deleted" =>
        Cardinality({u \in DOMAIN members : IsMember(u) /\ members[u].role = "owner"}) = 1
=============================================================================
