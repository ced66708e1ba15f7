----------------------------- MODULE LiveDraft ------------------------------
(***************************************************************************)
(* api/live-draft-v1.ts: reading the shared draft, locking and patching    *)
(* its fields, the callsign-history preview, and committing or discarding  *)
(* the draft.                                                              *)
(*                                                                         *)
(* A lease, a preview or a draft version that a request names is compared  *)
(* with the current one and the request refused when they differ, so a     *)
(* handler is enabled for the requests that name the current ones.         *)
(***************************************************************************)
EXTENDS LiveDraftState, RealtimeState

\* requireDraftAccess(writable = true)
MayWriteDraft(u) ==
    RequireMembership(u, Writer) /\ session.status = "active"

\* Mutant: the membership row is enough.
MayReadDraftForgetsDeletion(u) ==
    IsMember(u) /\ session.status \in {"active", "closed"}

\* requireDraftAccess(writable = false)
MayReadDraft(u) ==
    RequireMembership(u, Role) /\ session.status \in {"active", "closed"}

Holds(u, d, f) ==
    f \in DOMAIN locks /\ locks[f].user = u /\ locks[f].device = d

\* assertNoForeignLocks
NoForeignLocks(u, d) == \A f \in DOMAIN locks : Holds(u, d, f)

PreviewOf(u, d) == preview # NoPreview /\ preview.user = u /\ preview.device = d

\* draftEnvelope keeps the preview only while it fits the draft and its
\* publisher still holds the callsign.
PreviewIsCurrent(row) ==
    /\ preview # NoPreview
    /\ preview.draft = row.id
    /\ preview.callsign = row.fields[Callsign]
    /\ Holds(preview.user, preview.device, Callsign)

-----------------------------------------------------------------------------
\* GET /live-draft creates the draft when there is none, for any reader and
\* in a closed Session too, and drops a preview that is out of date.
ReadDraft(u) ==
    /\ MayReadDraft(u)
    /\ draft' \in ensureDraft
    /\ preview' = IF PreviewIsCurrent(draft') THEN preview ELSE NoPreview
    /\ UNCHANGED <<storeVars, deviceState, locks, realtimeVars>>

\* A request for a lock or a preview that is refused after ensureDraft: neither
\* handler has a transaction to roll back.
RefusedDraftRequest(u) ==
    /\ MayWriteDraft(u)
    /\ draft' \in ensureDraft
    /\ UNCHANGED <<storeVars, deviceState, locks, preview, realtimeVars>>

\* POST /live-draft/locks; the holder's own request only extends the lease.
AcquireLock(u, d, f) ==
    /\ MayWriteDraft(u)
    /\ f \notin DOMAIN locks
    /\ draft' \in ensureDraft
    /\ locks' = Put(locks, f, [user |-> u, device |-> d, draft |-> draft'.id])
    /\ UNCHANGED <<storeVars, deviceState, preview, realtimeVars>>

\* DELETE /live-draft/locks/:leaseId
ReleaseLock(u, d, f) ==
    /\ MayWriteDraft(u)
    /\ Holds(u, d, f)
    /\ locks' = Without(locks, {f})
    /\ preview' = IF f = Callsign /\ PreviewOf(u, d) THEN NoPreview ELSE preview
    /\ UNCHANGED <<storeVars, draft, deviceState, realtimeVars>>

\* A lease that nobody renews for LIVE_DRAFT_LEASE_MS.
LeaseExpires(f) ==
    /\ f \in DOMAIN locks
    /\ locks' = Without(locks, {f})
    /\ UNCHANGED <<storeVars, draft, deviceState, preview, realtimeVars>>

-----------------------------------------------------------------------------
\* PUT /live-draft/history-preview with one candidate, the one to be selected.
PublishPreview(u, d, candidate) ==
    /\ MayWriteDraft(u)
    /\ Holds(u, d, Callsign)
    /\ draft' \in ensureDraft
    /\ draft'.fields[Callsign] # Blank
    /\ \E f \in Reuse : candidate[f] # Blank
    /\ preview' = [draft |-> draft'.id, user |-> u, device |-> d,
                   callsign |-> draft'.fields[Callsign],
                   candidate |-> candidate]
    /\ UNCHANGED <<storeVars, deviceState, locks, realtimeVars>>

\* DELETE /live-draft/history-preview
ClearPreview(u, d) ==
    /\ MayWriteDraft(u)
    /\ PreviewOf(u, d)
    /\ preview' = NoPreview
    /\ UNCHANGED <<storeVars, draft, deviceState, locks, realtimeVars>>

PreviewExpires ==
    /\ preview # NoPreview
    /\ preview' = NoPreview
    /\ UNCHANGED <<storeVars, draft, deviceState, locks, realtimeVars>>

\* POST /live-draft/history-preview/:previewId/select writes the candidate's
\* fields, whoever holds their locks, and releases these.
SelectPreview(u, d, m) ==
    /\ Fresh(m)
    /\ MayWriteDraft(u)
    /\ PreviewOf(u, d)
    /\ Holds(u, d, Callsign)
    /\ draft' \in
         {[row EXCEPT
             !.version = @ + 1,
             !.fields = [f \in Field |->
                 IF f \in Reuse /\ preview.candidate[f] # Blank
                 THEN preview.candidate[f] ELSE row.fields[f]],
             !.revs = [f \in Field |->
                 IF f \in Reuse /\ preview.candidate[f] # Blank
                 THEN row.revs[f] + 1 ELSE row.revs[f]]] :
            row \in {r \in ensureDraft : /\ r.id = preview.draft
                                         /\ r.fields[Callsign] = preview.callsign}}
    /\ locks' = clearFields(locks, {f \in Reuse : preview.candidate[f] # Blank})
    /\ preview' = NoPreview
    /\ StoreResponse(m, "draft", u, "done")
    /\ UNCHANGED <<session, members, logs, events, invites, deviceState,
                   realtimeVars>>

-----------------------------------------------------------------------------
\* The clientSeq test of PATCH; a repeated clientSeq only confirms.
NextClientSeq(u, d, clientSeq) ==
    <<u, d>> \in DOMAIN deviceState => clientSeq = deviceState[u, d] + 1

\* PATCH /live-draft; updates maps the fields of the request to their values,
\* consume is the preference that gives the leases back.
PatchDraft(u, d, clientSeq, updates, consume) ==
    /\ MayWriteDraft(u)
    /\ NextClientSeq(u, d, clientSeq)
    /\ \A f \in DOMAIN updates : Holds(u, d, f)
    /\ draft' \in
         {[row EXCEPT
             !.version = @ + 1,
             !.fields = [f \in Field |-> IF f \in DOMAIN updates
                                         THEN updates[f] ELSE row.fields[f]],
             !.revs = [f \in Field |-> IF f \in DOMAIN updates
                                       THEN row.revs[f] + 1 ELSE row.revs[f]]] :
            row \in ensureDraft}
    /\ deviceState' = Put(deviceState, <<u, d>>, clientSeq)
    /\ locks' = IF consume THEN Without(locks, DOMAIN updates) ELSE locks
    /\ preview' = IF Callsign \in DOMAIN updates THEN NoPreview ELSE preview
    /\ UNCHANGED <<storeVars, realtimeVars>>

\* Mutant: the counters of the devices survive the draft.
StartGenerationKeepsReplays ==
    /\ locks' = clearSession
    /\ preview' = NoPreview
    /\ UNCHANGED deviceState

\* What commit and discard do besides resetDraft, whose last statement deletes
\* the device rows.
StartGeneration ==
    /\ deviceState' = NoRows
    /\ locks' = clearSession
    /\ preview' = NoPreview

\* POST /live-draft/commit of the draft at its current version as the Log l.
CommitDraft(u, d, l, m) ==
    /\ Fresh(m)
    /\ MayWriteDraft(u)
    /\ draft.present
    /\ NoForeignLocks(u, d)
    /\ Complete(draft.fields)
    /\ l \notin DOMAIN logs
    /\ LET row == NewLog(draft.fields)
           e == EventOf("log.created", l, row, m)
       IN  /\ logs' = Put(logs, l, row)
           /\ AppendEvent(session, e)
           /\ PublishOnly(e)
    /\ draft' = resetDraft(draft)
    /\ StartGeneration
    /\ StoreAccepted(m, "draft", u, 0)
    /\ UNCHANGED <<members, invites>>

\* DELETE /live-draft
DiscardDraft(u, d, m) ==
    /\ Fresh(m)
    /\ MayWriteDraft(u)
    /\ NoForeignLocks(u, d)
    /\ draft' \in {resetDraft(row) : row \in ensureDraft}
    /\ StartGeneration
    /\ StoreResponse(m, "draft", u, "done")
    /\ UNCHANGED <<session, members, logs, events, invites, realtimeVars>>

=============================================================================
