----------------------------- MODULE Friendships ----------------------------
(***************************************************************************)
(* Friends, and the Sessions they join directly or after an invitation or  *)
(* an application was accepted (social/service.ts, social-v1.ts).          *)
(*                                                                         *)
(* expireRequests runs in every mutation before anything else, so a        *)
(* pending row whose expires_at passed is as good as gone: it is removed   *)
(* at that moment.                                                         *)
(***************************************************************************)
EXTENDS SharingStore

BlockedPair(a, b) == <<a, b>> \in friendBlocks \/ <<b, a>> \in friendBlocks

\* requireFriends
AreFriends(a, b) ==
    /\ ~BlockedPair(a, b)
    /\ {a, b} \in DOMAIN friends /\ friends[{a, b}].status = "accepted"
    /\ Enabled(a) /\ Enabled(b)

\* pendingCapacity
FriendCapacity(u) ==
    Cardinality({p \in DOMAIN friends : u \in p /\ friends[p].status = "pending"}) < MaxPending

RequestCapacity(u) ==
    Cardinality({s \in DOMAIN requests : s = u \/ requests[s].host = u}) < MaxPending

\* POST /friend-requests; an open row of the pair is returned instead.
RequestFriend(u, other) ==
    /\ Enabled(u) /\ Enabled(other) /\ u # other
    /\ ~BlockedPair(u, other)
    /\ {u, other} \notin DOMAIN friends
    /\ FriendCapacity(u) /\ FriendCapacity(other)
    /\ friends' = Put(friends, {u, other}, [sender |-> u, status |-> "pending"])
    /\ UNCHANGED <<disabled, owner, phase, members, shareVars, friendBlocks,
                   access, requests>>

\* POST /friend-requests/:id/accept by the recipient.
AcceptFriend(u, other) ==
    LET pair == {u, other}
    IN  /\ Enabled(u) /\ Enabled(other)
        /\ pair \in DOMAIN friends
        /\ friends[pair] = [sender |-> other, status |-> "pending"]
        /\ ~BlockedPair(u, other)
        /\ friends' = [friends EXCEPT ![pair].status = "accepted"]
        /\ UNCHANGED <<disabled, owner, phase, members, shareVars, friendBlocks,
                       access, requests>>

\* .../reject, .../cancel, or expires_at passes.
FriendRequestEnds(pair) ==
    /\ friends[pair].status = "pending"
    /\ friends' = Without(friends, {pair})
    /\ UNCHANGED <<disabled, owner, phase, members, shareVars, friendBlocks,
                   access, requests>>

\* Mutant: the pending session requests of the pair are left.
NoRequestsBetween(u, other) == {}

\* The pending requests that go when a friendship goes.
RequestsBetween(u, other) ==
    {s \in DOMAIN requests : {s, requests[s].host} = {u, other}}

\* removeFriend; accepted memberships stay.
Separated(u, other) ==
    /\ friends' = Without(friends, {{u, other}})
    /\ requests' = Without(requests, RequestsBetween(u, other))

\* DELETE /friends/:id
RemoveFriend(u, other) ==
    /\ Enabled(u)
    /\ {u, other} \in DOMAIN friends \/ RequestsBetween(u, other) # {}
    /\ Separated(u, other)
    /\ UNCHANGED <<disabled, owner, phase, members, shareVars, friendBlocks, access>>

\* PUT and DELETE /blocks/:username
BlockFriend(u, other) ==
    /\ Enabled(u) /\ Enabled(other) /\ u # other
    /\ Separated(u, other)
    /\ friendBlocks' = friendBlocks \cup {<<u, other>>}
    /\ UNCHANGED <<disabled, owner, phase, members, shareVars, access>>

UnblockFriend(u, other) ==
    /\ Enabled(u) /\ Enabled(other) /\ <<u, other>> \in friendBlocks
    /\ friendBlocks' = friendBlocks \ {<<u, other>>}
    /\ UNCHANGED <<disabled, owner, phase, members, shareVars, friends, access,
                   requests>>

\* Mutant: making the Session private leaves the applications.
WithdrawnKept(visible) == {}

\* What a change of visibility cancels.
Withdrawn(visible) ==
    IF visible THEN {}
    ELSE {s \in DOMAIN requests : requests[s].kind = "application"}

\* PUT /sessions/:id; a private Session asks for approval.
SessionAccess(u, visible, direct, role) ==
    /\ Enabled(u) /\ IsOwner(u)
    /\ access' = [visible |-> visible, direct |-> visible /\ direct, role |-> role]
    /\ requests' = Without(requests, Withdrawn(visible))
    /\ UNCHANGED <<disabled, owner, phase, members, shareVars, friends, friendBlocks>>

\* POST /sessions/:id/join; a removed member has to ask, an active one is told
\* that it is one.
JoinFriendSession(u) ==
    /\ phase = "active" /\ u # owner
    /\ AreFriends(u, owner)
    /\ access.visible /\ access.direct
    /\ u \notin DOMAIN members
    /\ members' = Enter(members, u, access.role, "friend", 0)
    /\ requests' = Without(requests, {u})
    /\ UNCHANGED <<disabled, owner, phase, shareVars, friends, friendBlocks, access>>

\* POST /sessions/:id/invitations by the owner, .../applications by a friend.
RequestSession(sender, subject, kind, role) ==
    /\ phase = "active"
    /\ IF kind = "invitation" THEN IsOwner(sender) ELSE access.visible /\ sender = subject
    /\ LET host == IF kind = "invitation" THEN sender ELSE owner
       IN  /\ subject # host /\ AreFriends(host, subject)
           /\ ~IsMember(subject)
           /\ subject \notin DOMAIN requests
           /\ RequestCapacity(host) /\ RequestCapacity(subject)
           /\ requests' = Put(requests, subject,
                              [host |-> host, kind |-> kind, role |-> role])
    /\ UNCHANGED <<disabled, owner, phase, members, shareVars, friends,
                   friendBlocks, access>>

\* POST /session-requests/:id/accept by the recipient.  What was asked for
\* before is checked again: friendship, ownership, phase and visibility.
AcceptSession(s) ==
    LET r == requests[s]
    IN  /\ AreFriends(s, r.host)
        /\ IsOwner(r.host) /\ phase = "active"
        /\ r.kind = "application" => access.visible
        /\ members' = IF IsMember(s) THEN members
                                     ELSE Enter(members, s, r.role, "friend", 0)
        /\ requests' = Without(requests, {s})
        /\ UNCHANGED <<disabled, owner, phase, shareVars, friends, friendBlocks, access>>

\* .../reject, .../cancel, or expires_at passes.
SessionRequestEnds(s) ==
    /\ requests' = Without(requests, {s})
    /\ UNCHANGED <<disabled, owner, phase, members, shareVars, friends,
                   friendBlocks, access>>
=============================================================================
