-------------------------- MODULE DocumentedClaims --------------------------
(***************************************************************************)
(* Three statements of the repository's design document and README that    *)
(* the code does not keep.  Each has a run that must find a violation.     *)
(***************************************************************************)
EXTENDS MCCollaboration

\* docs/superpowers/specs/2026-07-11-collaboration-v1-design.md, 8.9 and 20.1:
\* the version of the draft only grows.  Said here of the announcement every
\* client sees: once a close event has named the version of the next draft, no
\* draft with a lower version is served.
\* ensureDraft starts again from version 1 after the row was deleted.
DraftVersionOnlyGrows ==
    \A i \in DOMAIN events :
        events[i].type = "session.closed" /\ draft.present =>
            draft.version >= events[i].body.nextDraft

\* 8.9 of the same document: a change of permissions clears the leases it
\* concerns, so every lease belongs to somebody who may write the draft.
\* The administrator's member endpoints leave the lock manager alone.
LeasesBelongToWriters ==
    \A f \in DOMAIN locks : RequireMembership(locks[f].user, Writer)

\* The test of the owner's endpoints in front of readStoredResponse.
ReachesStoredResponse(m) == RequireMembership(processed[m].user, {"owner"})

\* 7.3 of the same document: the same id with the same request returns the
\* first result.  Said here of the owner's endpoints, and only while the
\* requester is a member of a Session that exists.
\* requireOwner comes before readStoredResponse: the previous owner's retry of
\* a transfer whose answer was lost is refused.
RetryReturnsFirstResult ==
    \A m \in DOMAIN processed :
        processed[m].kind = "owner" /\ RequireMembership(processed[m].user, Role)
            => ReachesStoredResponse(m)
=============================================================================
