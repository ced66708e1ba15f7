--------------------------- MODULE LiveDraftState ---------------------------
(***************************************************************************)
(* The shared live draft of a Session: its row in session_live_drafts, the *)
(* per-device counters of live_draft_device_state, and the two in-memory   *)
(* managers of the process, field locks and the callsign-history preview.  *)
(*                                                                         *)
(* The first two tables survive a restart, the managers do not.  A lease   *)
(* or a preview whose time is up is deleted by the first call that looks   *)
(* at it; the actions LeaseExpires and PreviewExpires of LiveDraft stand   *)
(* for that, and no handler here sees an expired one.                      *)
(***************************************************************************)
EXTENDS SessionStore

CONSTANTS
    Device,      \* deviceIds, chosen by the clients
    Controller,  \* the field a new draft inherits
    Callsign,    \* the field whose lock entitles to publish a preview
    Uncounted,   \* fields that do not make a draft worth keeping
    Reuse        \* LIVE_DRAFT_HISTORY_REUSE_FIELDS

ASSUME DraftAssumption ==
    /\ {Controller, Callsign} \subseteq Required
    /\ Uncounted \subseteq Field
    /\ Controller \in Uncounted
    /\ Reuse \subseteq Field

VARIABLES
    draft,        \* session_live_drafts, present = FALSE when there is no row
    deviceState,  \* live_draft_device_state: <<user, device>> -> clientSeq
    locks,        \* LiveDraftLockManager.byField: field -> holder
    preview       \* LiveDraftHistoryPreviewManager.previews, or NoPreview

draftVars == <<draft, deviceState, locks, preview>>

\* id counts the draftIds handed out so far: every new draft has a fresh one.
DraftRow == [present : BOOLEAN, id : Nat, version : Nat, fields : Content,
             revs : [Field -> Nat]]

\* draft is the draftId the lease was granted on; the code keeps no such column.
LockRow == [user : User, device : Device, draft : Nat]

PreviewRow == [draft : Nat, user : User, device : Device, callsign : Text,
               candidate : [Reuse -> Text \cup {Blank}]]

NoPreview == [draft |-> 0]

EmptyFields == [f \in Field |-> Blank]

EMPTY_FIELD_REVISIONS == [f \in Field |-> 0]

NoDraft(id) == [present |-> FALSE, id |-> id, version |-> 0,
                fields |-> EmptyFields, revs |-> EMPTY_FIELD_REVISIONS]

liveDraftHasActualContent ==
    draft.present /\ \E f \in Field \ Uncounted : draft.fields[f] # Blank

\* The controllers previousLog may yield for a new draft: that of the Log with
\* the highest rowid, which is some Log that is not deleted, if there is one.
PreviousController ==
    LET live == {l \in DOMAIN logs : ~logs[l].deleted}
    IN  IF live = {} THEN {Blank} ELSE {logs[l].content[Controller] : l \in live}

\* ensureDraft: the rows the draft may be after it ran.
ensureDraft ==
    IF draft.present THEN {draft}
    ELSE {[present |-> TRUE, id |-> draft.id + 1, version |-> 1,
           fields |-> [EmptyFields EXCEPT ![Controller] = c],
           revs |-> EMPTY_FIELD_REVISIONS] : c \in PreviousController}

\* Mutants: the version, or the draftId, stays.
resetDraftKeepsVersion(d) ==
    [d EXCEPT !.id = d.id + 1,
              !.fields = [EmptyFields EXCEPT ![Controller] = d.fields[Controller]],
              !.revs = EMPTY_FIELD_REVISIONS]

resetDraftKeepsId(d) ==
    [d EXCEPT !.version = d.version + 1,
              !.fields = [EmptyFields EXCEPT ![Controller] = d.fields[Controller]],
              !.revs = EMPTY_FIELD_REVISIONS]

\* resetDraft: a new generation under the next version keeps the controller.
resetDraft(d) ==
    [d EXCEPT !.id = d.id + 1, !.version = d.version + 1,
              !.fields = [EmptyFields EXCEPT ![Controller] = d.fields[Controller]],
              !.revs = EMPTY_FIELD_REVISIONS]

-----------------------------------------------------------------------------
(* LiveDraftLockManager *)

clearUser(table, u) == Without(table, {f \in DOMAIN table : table[f].user = u})

clearFields(table, fields) == Without(table, fields)

\* Mutant: no lock is found under the key of the Session.
clearSessionFindsNothing == locks

clearSession == NoRows

\* DELETE FROM live_draft_device_state WHERE user_id = u
DropDevices(u) == Without(deviceState, {u} \X Device)

-----------------------------------------------------------------------------
DraftTypeOK ==
    /\ draft \in DraftRow
    /\ IsTable(deviceState, User \X Device, Nat)
    /\ IsTable(locks, Field, LockRow)
    /\ preview \in PreviewRow \cup {NoPreview}

DraftInit ==
    /\ draft = NoDraft(0)
    /\ deviceState = NoRows
    /\ locks = NoRows
    /\ preview = NoPreview
=============================================================================
