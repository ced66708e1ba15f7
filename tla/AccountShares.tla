---------------------------- MODULE AccountShares ---------------------------
(***************************************************************************)
(* Account shares: one account lets another read, and perhaps edit, its    *)
(* Sessions, and join them with a passphrase.                              *)
(*                                                                         *)
(* account-share/service.ts, selection.ts, passphrase.ts, catalog.ts and   *)
(* the routers account-session-shares-v1.ts and session-join-share-v1.ts.  *)
(***************************************************************************)
EXTENDS SharingStore

Blocks(blocker, blocked) == <<blocker, blocked>> \in shareBlocks

Open(g) == grants[g].status \in {"pending", "accepted"}

\* findOpenPair
OpenPair(from, to) ==
    {g \in DOMAIN grants : Open(g) /\ grants[g].from = from /\ grants[g].to = to}

PendingFor(u) ==
    {g \in DOMAIN grants : grants[g].status = "pending" /\ grants[g].to = u}

\* grantSelectsSession for the Session as a collaboration row.
Selects(scope) == scope.all \/ "collaboration" \in scope.selected

\* parseShareScope, and what create and update refuse: nothing shared, deleting
\* without editing, writing in somebody else's Sessions, a selection outside
\* the sources, or of a Session that is not from's own.
ValidScope(from, scope) ==
    /\ scope.personal \/ scope.owned \/ scope.editor
    /\ scope.delete => scope.edit
    /\ scope.edit => ~scope.editor
    /\ scope.all <=> scope.selected = {}
    /\ "personal" \in scope.selected => scope.personal
    /\ "collaboration" \in scope.selected =>
          scope.owned /\ owner = from /\ phase # "deleted"

Lapsed == {g \in DOMAIN grants : grants[g].status = "accepted" /\ grants[g].due}

\* Mutant: the expiry marks the grant and leaves the members.
SweptMembersStay == members

\* expireShareGrants, the transaction most handlers begin with.
SweptMembers == RevokeShareMemberships(members, Lapsed, {})

SweptGrants ==
    [g \in DOMAIN grants |->
        IF g \in Lapsed THEN [grants[g] EXCEPT !.status = "expired"] ELSE grants[g]]

\* GET /session-shares and /shared-sessions, the heartbeat of the social hub,
\* and any handler below that is refused after it swept.
ExpireShareGrants ==
    /\ Lapsed # {}
    /\ members' = SweptMembers
    /\ grants' = SweptGrants
    /\ UNCHANGED <<disabled, owner, phase, shareBlocks, secret, socialVars>>

\* expires_at passes.  A pending grant is then as good as expired, since every
\* handler that could accept it sweeps first.
GrantLapses(g) ==
    /\ Open(g) /\ ~grants[g].due
    /\ grants' = [grants EXCEPT ![g].due = TRUE,
                                ![g].status = IF @ = "pending" THEN "expired" ELSE @]
    /\ UNCHANGED <<disabled, owner, phase, members, shareBlocks, secret, socialVars>>

\* POST /session-shares; an open grant of the pair is returned or in the way.
CreateShareRequest(u, to, scope) ==
    LET id == Cardinality(DOMAIN grants) + 1
    IN  /\ Enabled(u) /\ Enabled(to) /\ u # to
        /\ ~Blocks(u, to) /\ ~Blocks(to, u)
        /\ ValidScope(u, scope)
        /\ OpenPair(u, to) \subseteq Lapsed
        /\ Cardinality(PendingFor(to)) < MaxPending
        /\ members' = SweptMembers
        /\ grants' = Put(SweptGrants, id, [from |-> u, to |-> to, scope |-> scope,
                                           status |-> "pending", due |-> FALSE])
        /\ UNCHANGED <<disabled, owner, phase, shareBlocks, secret, socialVars>>

\* POST /session-shares/:id/accept; blocks are not looked at again.
AcceptShareRequest(u, g) ==
    /\ Enabled(u)
    /\ grants[g].to = u /\ grants[g].status = "pending"
    /\ members' = SweptMembers
    /\ grants' = [SweptGrants EXCEPT ![g].status = "accepted"]
    /\ UNCHANGED <<disabled, owner, phase, shareBlocks, secret, socialVars>>

\* POST /session-shares/:id/reject by the one, /cancel by the other.
RejectShareRequest(u, g) ==
    /\ Enabled(u)
    /\ grants[g].to = u /\ grants[g].status = "pending"
    /\ grants' = [grants EXCEPT ![g].status = "rejected"]
    /\ UNCHANGED <<disabled, owner, phase, members, shareBlocks, secret, socialVars>>

CancelShareRequest(u, g) ==
    /\ Enabled(u)
    /\ grants[g].from = u /\ grants[g].status = "pending"
    /\ grants' = [grants EXCEPT ![g].status = "cancelled"]
    /\ UNCHANGED <<disabled, owner, phase, members, shareBlocks, secret, socialVars>>

\* POST /session-shares/:id/revoke
RevokeShareGrant(u, g) ==
    /\ Enabled(u)
    /\ grants[g].from = u /\ grants[g].status = "accepted"
    /\ members' = RevokeShareMemberships(members, {g}, {})
    /\ grants' = [grants EXCEPT ![g].status = "revoked"]
    /\ UNCHANGED <<disabled, owner, phase, shareBlocks, secret, socialVars>>

\* Mutant: the selection is not compared.
RetainedUnselected(from, scope, row) ==
    /\ scope.owned
    /\ scope.joinAs = "editor" \/ (scope.joinAs = "viewer" /\ row.role = "viewer")
    /\ owner = from /\ phase # "deleted"

\* A membership that the narrowed grant would still give.
Retained(from, scope, row) ==
    /\ scope.owned
    /\ scope.joinAs = "editor" \/ (scope.joinAs = "viewer" /\ row.role = "viewer")
    /\ Selects(scope)
    /\ owner = from /\ phase # "deleted"

\* PATCH /session-shares/:id
UpdateShareGrant(u, g, scope) ==
    LET retained == {x \in DOMAIN members : Retained(u, scope, SweptMembers[x])}
    IN  /\ Enabled(u)
        /\ grants[g].from = u /\ Open(g) /\ g \notin Lapsed
        /\ ValidScope(u, scope)
        /\ grants' = [SweptGrants EXCEPT ![g].scope = scope]
        /\ members' = IF grants[g].status = "accepted"
                      THEN RevokeShareMemberships(SweptMembers, {g}, retained)
                      ELSE SweptMembers
        /\ UNCHANGED <<disabled, owner, phase, shareBlocks, secret, socialVars>>

\* PUT /session-share-blocks/:username ends what the blocked account shares.
BlockAccountShare(u, target) ==
    LET inbound == OpenPair(target, u)
    IN  /\ Enabled(u) /\ Enabled(target) /\ u # target
        /\ shareBlocks' = shareBlocks \cup {<<u, target>>}
        /\ members' = RevokeShareMemberships(
               members, {g \in inbound : grants[g].status = "accepted"}, {})
        /\ grants' = [g \in DOMAIN grants |->
               IF g \notin inbound THEN grants[g]
               ELSE [grants[g] EXCEPT !.status = IF @ = "pending" THEN "cancelled"
                                                                  ELSE "revoked"]]
        /\ UNCHANGED <<disabled, owner, phase, secret, socialVars>>

UnblockAccountShare(u, target) ==
    /\ Enabled(u) /\ Enabled(target)
    /\ <<u, target>> \in shareBlocks
    /\ shareBlocks' = shareBlocks \ {<<u, target>>}
    /\ UNCHANGED <<disabled, owner, phase, members, grants, secret, socialVars>>

-----------------------------------------------------------------------------
(* account-share/passphrase.ts *)

\* PUT and DELETE /:sessionId/join-passphrase; members who joined are kept.
SetJoinPassphrase(u, s) ==
    /\ Enabled(u)
    /\ owner = u /\ phase # "deleted"
    /\ s # secret
    /\ secret' = s
    /\ UNCHANGED <<disabled, owner, phase, members, grants, shareBlocks, socialVars>>

\* Mutant: any grant of the pair lets in, also one that ended.
GrantOfAnyStatus(u) ==
    {g \in DOMAIN grants : grants[g].to = u /\ grants[g].from = owner}

GrantOf(u) ==
    {g \in DOMAIN grants : /\ grants[g].to = u /\ grants[g].from = owner
                           /\ grants[g].status = "accepted"}

Joinable(scope) == Selects(scope) /\ scope.owned /\ scope.joinAs # "none"

\* An active member keeps its source, and a role that is not lower.
JoinedWith(u, g) ==
    LET role == grants[g].scope.joinAs
        row  == SweptMembers[u]
        kept == row.role = "owner" \/ (row.role = "editor" /\ role = "viewer")
    IN  IF u \in DOMAIN members /\ ~row.removed
        THEN [SweptMembers EXCEPT ![u].role = IF kept THEN @ ELSE role]
        ELSE Enter(SweptMembers, u, role, "account_share", g)

\* POST /:sessionId/join-with-share.  The answer is stored in a transaction of
\* its own: after a stop in between the retry joins again.  Neither the sockets
\* nor the tickets of a member whose role rises are touched.
JoinSessionWithShare(u, s) ==
    /\ Enabled(u)
    /\ phase # "deleted" /\ owner # u
    /\ \E g \in GrantOf(u) \ Lapsed :
          /\ Joinable(grants[g].scope)
          /\ secret = s
          /\ members' = JoinedWith(u, g)
    /\ grants' = SweptGrants
    /\ UNCHANGED <<disabled, owner, phase, shareBlocks, secret, socialVars>>

-----------------------------------------------------------------------------
(* account-share/catalog.ts: what an account sees of others' Sessions *)

\* sessionVisibleThroughGrant, by the grantor's own role in the Session.
VisibleThrough(g) ==
    /\ IsMember(grants[g].from)
    /\ members[grants[g].from].role # "viewer"
    /\ IF members[grants[g].from].role = "owner" THEN grants[g].scope.owned
                                                 ELSE grants[g].scope.editor

\* listSharedSessions: the grants through which u is shown the Session; a
\* membership hides it, except a viewer's where the grant may edit.
SharedTo(u) ==
    {g \in DOMAIN grants :
        /\ grants[g].to = u /\ grants[g].status = "accepted" /\ ~grants[g].due
        /\ Enabled(grants[g].from) /\ phase # "deleted"
        /\ IsMember(u) => members[u].role = "viewer" /\ grants[g].scope.edit
        /\ Selects(grants[g].scope)
        /\ VisibleThrough(g)}

\* requireSharedSession and canEditLogs, which mutateSharedRecord asks before
\* anything else: who may write Logs without being a member.
MayWriteShared(u) ==
    /\ Enabled(u)
    /\ \E g \in SharedTo(u) : /\ grants[g].scope.edit
                              /\ owner = grants[g].from
                              /\ phase = "active"
=============================================================================
