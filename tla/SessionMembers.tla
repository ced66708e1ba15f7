--------------------------- MODULE SessionMembers ---------------------------
(***************************************************************************)
(* Who takes part in a Session: leaving, changing roles, removing members, *)
(* transferring ownership, invites and their redemption, and the           *)
(* administrator's counterparts of these.                                  *)
(*                                                                         *)
(* None of these appends an event: membership is access-control state.     *)
(* What they do instead is cut off what the member held: field locks,      *)
(* device counters, unused tickets and sockets.                            *)
(***************************************************************************)
EXTENDS LiveDraftState, RealtimeState

MemberRole == {"editor", "viewer"}

\* The row of u with another role, or as a removed row; its version advances.
WithRole(u, role) ==
    [members EXCEPT ![u].role = role, ![u].version = @ + 1]

Removed(u) ==
    [members EXCEPT ![u].removed = TRUE, ![u].version = @ + 1]

\* Mutant: a row that is brought back begins anew at version 1.
JoinedAnew(u, role) ==
    Put(members, u,
        [role |-> role, removed |-> FALSE,
         version |-> IF IsMember(u) THEN members[u].version + 1 ELSE 1])

\* INSERT, or the UPDATE that brings a removed row back, or alters a live one.
Joined(u, role) ==
    Put(members, u,
        [role |-> role, removed |-> FALSE,
         version |-> IF u \in DOMAIN members THEN members[u].version + 1 ELSE 1])

\* Mutant: the previous owner keeps the role.
TransferredKeepsOwner(old, new) ==
    [members EXCEPT ![new].role = "owner", ![new].version = @ + 1]

\* The two UPDATEs of an ownership transfer.
Transferred(old, new) ==
    [members EXCEPT ![old].role = "editor", ![old].version = @ + 1,
                    ![new].role = "owner", ![new].version = @ + 1]

\* What no handler below touches.
Keeps == <<logs, events, draft>>

\* The process stops after the commit and before the hub has come to all of the
\* users: the tickets of the others stay; sockets, locks and preview are gone.
StopsBeforeRevoking(users) ==
    /\ \E told \in SUBSET users : tickets' = DropTickets(told)
    /\ conns' = NoRows
    /\ locks' = NoRows
    /\ preview' = NoPreview

\* What follows the commit that changed the memberships of the users, in the
\* same tick: `kept` are the locks left by the calls of clearUser.
AfterCommit(users, kept) ==
    \/ RevokeUsers(users) /\ locks' = kept /\ UNCHANGED preview
    \/ StopsBeforeRevoking(users)

-----------------------------------------------------------------------------
(* api/session-members-v1.ts *)

\* DELETE /:id/membership
LeaveSession(u, m) ==
    /\ Fresh(m)
    /\ RequireMembership(u, MemberRole)
    /\ members' = Removed(u)
    /\ deviceState' = DropDevices(u)
    /\ AfterCommit({u}, clearUser(locks, u))
    /\ StoreResponse(m, "leave", u, "done")
    /\ UNCHANGED <<session, invites, Keeps>>

\* PATCH /:id/members/:userId
ChangeRole(u, target, role, m) ==
    /\ Fresh(m)
    /\ RequireMembership(u, {"owner"})
    /\ IsMember(target) /\ members[target].role \in MemberRole \ {role}
    /\ members' = WithRole(target, role)
    /\ deviceState' = IF role = "viewer" THEN DropDevices(target) ELSE deviceState
    /\ AfterCommit({target}, clearUser(locks, target))
    /\ StoreResponse(m, "owner", u, "done")
    /\ UNCHANGED <<session, invites, Keeps>>

\* DELETE /:id/members/:userId
RemoveMember(u, target, m) ==
    /\ Fresh(m)
    /\ RequireMembership(u, {"owner"})
    /\ IsMember(target) /\ members[target].role \in MemberRole
    /\ members' = Removed(target)
    /\ deviceState' = DropDevices(target)
    /\ AfterCommit({target}, clearUser(locks, target))
    /\ StoreResponse(m, "owner", u, "done")
    /\ UNCHANGED <<session, invites, Keeps>>

\* POST /:id/transfer-ownership
TransferOwnership(u, target, m) ==
    /\ Fresh(m)
    /\ RequireMembership(u, {"owner"})
    /\ target # u
    /\ IsMember(target)
    /\ members' = Transferred(u, target)
    /\ session' = [session EXCEPT !.owner = target]
    /\ AfterCommit({u, target}, clearUser(clearUser(locks, u), target))
    /\ StoreResponse(m, "owner", u, "done")
    /\ UNCHANGED <<deviceState, invites, Keeps>>

\* The same endpoints asked for what is so already: the role the member has,
\* or the transfer of the Session to its owner.
NothingToChange(u, m) ==
    /\ Fresh(m)
    /\ RequireMembership(u, {"owner"})
    /\ StoreResponse(m, "owner", u, "done")
    /\ UNCHANGED <<session, members, invites, Keeps, deviceState, locks,
                   preview, realtimeVars>>

\* POST /:id/invites; the id is new.
CreateInvite(u, i, role, max, m) ==
    /\ Fresh(m)
    /\ RequireMembership(u, {"owner"})
    /\ i \notin DOMAIN invites
    /\ invites' = Put(invites, i, [role |-> role, used |-> 0, max |-> max,
                                   open |-> TRUE, redeemers |-> {}])
    /\ StoreResponse(m, "owner", u, "done")
    /\ UNCHANGED <<session, members, Keeps, deviceState, locks, preview,
                   realtimeVars>>

\* DELETE /:id/invites/:inviteId
RevokeInvite(u, i, m) ==
    /\ Fresh(m)
    /\ RequireMembership(u, {"owner"})
    /\ i \in DOMAIN invites
    /\ invites' = [invites EXCEPT ![i].open = FALSE]
    /\ StoreResponse(m, "owner", u, "done")
    /\ UNCHANGED <<session, members, Keeps, deviceState, locks, preview,
                   realtimeVars>>

\* expires_at passes.
InviteExpires(i) ==
    /\ i \in DOMAIN invites /\ invites[i].open
    /\ invites' = [invites EXCEPT ![i].open = FALSE]
    /\ UNCHANGED <<session, members, processed, Keeps, deviceState, locks,
                   preview, realtimeVars>>

-----------------------------------------------------------------------------
(* api/collaboration-invites-v1.ts *)

\* effectiveRole: an invite never lowers the role of an active member.
effectiveRole(current, granted) ==
    IF current = "owner" \/ granted = "viewer" THEN current ELSE "editor"

\* Mutants: max_uses is not compared, or the account's earlier redemption not
\* looked for.
RedeemableBeyondMax(u, i) ==
    /\ i \in DOMAIN invites
    /\ invites[i].open
    /\ u \notin invites[i].redeemers

RedeemableAgain(u, i) ==
    /\ i \in DOMAIN invites
    /\ invites[i].open
    /\ invites[i].used < invites[i].max

\* The tests of POST /redeem; a repetition answers from invite_redemptions or
\* is refused.
Redeemable(u, i) ==
    /\ i \in DOMAIN invites
    /\ invites[i].open
    /\ invites[i].used < invites[i].max
    /\ u \notin invites[i].redeemers

\* POST /redeem
RedeemInvite(u, i) ==
    /\ session.status # "absent" /\ ~session.deleted
    /\ Redeemable(u, i)
    /\ invites' = [invites EXCEPT ![i].used = @ + 1,
                                  ![i].redeemers = @ \cup {u}]
    /\ LET role == IF IsMember(u)
                   THEN effectiveRole(members[u].role, invites[i].role)
                   ELSE invites[i].role
       IN  /\ members' = Joined(u, role)
           /\ IF IsMember(u) /\ role # members[u].role
              THEN AfterCommit({u}, locks)
              ELSE UNCHANGED <<realtimeVars, locks, preview>>
    /\ UNCHANGED <<session, processed, Keeps, deviceState>>

-----------------------------------------------------------------------------
(* api/admin-governance-v1.ts *)

\* runGovernanceCommand on a governableSession.
AdminCommand(a, m) ==
    /\ Fresh(m)
    /\ a \in Admin
    /\ session.status # "absent" /\ ~session.deleted
    /\ StoreResponse(m, "admin", a, "done")

\* POST /sessions/:sessionId/members
AdminAddMember(a, u, role, m) ==
    /\ AdminCommand(a, m)
    /\ ~IsMember(u)
    /\ members' = Joined(u, role)
    /\ AfterCommit({u}, locks)
    /\ UNCHANGED <<session, invites, Keeps, deviceState>>

\* PATCH /sessions/:sessionId/members/:userId; the version advances even when
\* the role stays, and neither locks nor device counters are touched.
AdminChangeRole(a, u, role, m) ==
    /\ AdminCommand(a, m)
    /\ IsMember(u) /\ members[u].role \in MemberRole
    /\ members' = WithRole(u, role)
    /\ AfterCommit({u}, locks)
    /\ UNCHANGED <<session, invites, Keeps, deviceState>>

\* DELETE /sessions/:sessionId/members/:userId drops the tickets, consumed ones
\* too, in its transaction; nothing but sockets is left for the hub.
AdminRemoveMember(a, u, m) ==
    /\ AdminCommand(a, m)
    /\ IsMember(u) /\ members[u].role \in MemberRole
    /\ members' = Removed(u)
    /\ tickets' = Without(tickets, {t \in DOMAIN tickets : tickets[t].user = u})
    /\ conns' = Closed(conns, {u})
    /\ UNCHANGED <<session, invites, Keeps, deviceState, locks, preview>>

\* POST /sessions/:sessionId/transfer-ownership
AdminTransfer(a, target, m) ==
    /\ AdminCommand(a, m)
    /\ IsMember(target) /\ members[target].role \in MemberRole
    /\ IsMember(session.owner) /\ members[session.owner].role = "owner"
    /\ members' = Transferred(session.owner, target)
    /\ session' = [session EXCEPT !.owner = target]
    /\ AfterCommit({session.owner, target}, locks)
    /\ UNCHANGED <<invites, Keeps, deviceState>>

\* DELETE /sessions/:sessionId/invites/:inviteId, of a deleted Session too; an
\* invite that is not open because it expired can still be revoked.
AdminRevokeInvite(a, i, m) ==
    /\ Fresh(m)
    /\ a \in Admin
    /\ i \in DOMAIN invites
    /\ invites' = [invites EXCEPT ![i].open = FALSE]
    /\ StoreResponse(m, "admin", a, "done")
    /\ UNCHANGED <<session, members, Keeps, deviceState, locks, preview,
                   realtimeVars>>

=============================================================================
