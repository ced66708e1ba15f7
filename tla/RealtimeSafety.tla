--------------------------- MODULE RealtimeSafety ----------------------------
(***************************************************************************)
(* What holds of the live draft and of the realtime side of a Session for  *)
(* every value of the constants: leases and device counters belong to the  *)
(* draft that is there, a draft is committed once, tickets and sockets     *)
(* belong to members, sockets have been sent a gapless history up to its   *)
(* head, and a deleted Session leaves nothing behind.                      *)
(***************************************************************************)
EXTENDS CollaborationSafety

-----------------------------------------------------------------------------
(* What a step does to the live draft *)

\* The leases fit the draft, a device counter belongs to a draft, and what users
\* typed is in the draft of an active Session only.
DraftInv ==
    /\ LeaseFitsDraft
    /\ ~draft.present => deviceState = NoRows
    /\ session.status # "active" => ~liveDraftHasActualContent

\* Leases are given back only.
LocksReleased ==
    \A f \in DOMAIN locks' : f \in DOMAIN locks /\ locks'[f] = locks[f]

\* The draft stays; if the Session stops being active, the draft has no content.
DraftLeft ==
    /\ UNCHANGED draft
    /\ LocksReleased
    /\ deviceState = NoRows => deviceState' = NoRows
    /\ \/ session'.status = session.status
       \/ session.status # "active"
       \/ DOMAIN locks' = {} /\ ~liveDraftHasActualContent

\* There is a draft from now on, and at most one field more is locked on it.
DraftOpened ==
    /\ draft' \in ensureDraft
    /\ UNCHANGED deviceState
    /\ session'.status = session.status /\ ~session.deleted
    /\ \/ UNCHANGED locks
       \/ \E f \in Field : \E row : /\ session.status = "active"
                                    /\ row.draft = draft'.id
                                    /\ locks' = Put(locks, f, row)

\* The fields of the draft are written, under its next version.
DraftWritten ==
    /\ draft.present /\ draft'.present /\ draft'.id = draft.id
    /\ draft'.version = draft.version + 1
    /\ LocksReleased
    /\ session.status = "active" /\ session'.status = "active"

\* Another generation of the draft begins.
DraftRenewed ==
    /\ \E row \in ensureDraft : draft' = resetDraft(row)
    /\ deviceState' = NoRows /\ locks' = NoRows
    /\ session.status = "active" /\ session'.status = "active" /\ ~session.deleted

\* The draft goes, with its content only when the event says so.
DraftRemoved ==
    /\ draft' = NoDraft(draft.id)
    /\ deviceState' = NoRows
    /\ LocksReleased
    /\ session'.status # "active"
    /\ \/ session.status # "active"
       \/ /\ DOMAIN locks' = {}
          /\ session'.seq = session.seq + 1
          /\ events'[session'.seq].type = "session.closed"
          /\ draft.present =>
                events'[session'.seq].body.nextDraft = draft.version + 1

\* Closing that discards the draft, by an administrator or by the sweep.
LEMMA DiscardRemoves ==
    ASSUME TypeInv, NEW m, Discard(m)
    PROVE  DraftRemoved
<1>. DEFINE row == [session EXCEPT !.status = "closed", !.version = @ + 1]
            n == IF draft.present THEN draft.version + 1 ELSE 0
            e == EventOf("session.closed", SessionId, SessionBodyOf(row, n), m)
<1>1. row \in SessionRow /\ row.seq = session.seq
  BY NextSessionRow DEF Status
<1>2. row.status = "closed"
  BY SessionColumns DEF SessionRow
<1>3. e.type = "session.closed" /\ e.body.nextDraft = n
  BY DEF EventOf, SessionBodyOf
<1>4. AppendEvent(row, e)
  BY DEF Discard, WriteSession
<1>5. draft' = NoDraft(draft.id) /\ deviceState' = NoRows /\ DOMAIN locks' = {}
  BY DEF Discard, clearSession, NoRows
<1>. HIDE DEF row, e
<1>6. /\ session'.seq = session.seq + 1 /\ session'.status = "closed"
      /\ events'[session'.seq] = e
  BY <1>1, <1>2, <1>4 DEF AppendEvent, Put, SessionRow
<1>. QED
  BY <1>3, <1>5, <1>6 DEF DraftRemoved, LocksReleased

\* The handlers of the life of a Session.
LEMMA LifecycleDrafts ==
    ASSUME TypeInv, DraftInv, LifecycleStep
    PROVE  DraftLeft \/ DraftRemoved
<1>1. PICK u \in User, m \in MutationId :
        \/ \E title \in Text : CreateSession(u, title, m)
        \/ ConfirmSession(u, m)
        \/ \E S \in (SUBSET Log) \ {{}} : \E batch \in [S -> LogValue] :
              BootstrapLogs(u, batch, m)
        \/ \E r \in {"none", "named"} : Activate(u, r, m) \/ ActivateAgain(u, r, m)
        \/ \E base \in BaseVersion, path \in {"batch", "admin"} :
              \/ \E title \in Text : UpdateSession(path, u, title, base, m)
              \/ CloseSession(path, u, base, m)
              \/ ReopenSession(path, u, base, m)
              \/ DeleteSession(path, u, base, m)
        \/ \E base \in BaseVersion : CloseDiscardingLiveDraft(u, base, m)
  BY DEF LifecycleStep
<1>2. ASSUME UNCHANGED draftVars,
             session.status # "active" \/ session'.status = session.status
      PROVE  DraftLeft
  BY <1>2 DEF DraftLeft, LocksReleased, draftVars
<1>3. CASE \/ \E title \in Text : CreateSession(u, title, m)
           \/ ConfirmSession(u, m)
           \/ \E batch : BootstrapLogs(u, batch, m)
           \/ \E base, path : ReopenSession(path, u, base, m)
  BY <1>2, <1>3 DEF CreateSession, ConfirmSession, BootstrapLogs, ReopenSession
<1>7. ASSUME NEW r, Activate(u, r, m) \/ ActivateAgain(u, r, m)
      PROVE  DraftLeft
  <2>1. CASE Activate(u, r, m)
    BY <1>2, <2>1 DEF Activate
  <2>2. CASE ActivateAgain(u, r, m)
    <3>1. session'.status = session.status
      BY <2>2, PromotionType, SessionColumns DEF ActivateAgain, SessionRow
    <3>. QED
      BY <1>2, <2>2, <3>1 DEF ActivateAgain
  <2>. QED
    BY <1>7, <2>1, <2>2
<1>4. ASSUME NEW base, NEW path, NEW title \in Text, UpdateSession(path, u, title, base, m)
      PROVE  DraftLeft
  <2>1. session'.status = session.status /\ UNCHANGED draftVars
    BY <1>4, SessionColumns DEF UpdateSession, WriteSession, AppendEvent, SessionRow
  <2>. QED
    BY <2>1 DEF DraftLeft, LocksReleased, draftVars
<1>5. ASSUME NEW base, NEW path, CloseSession(path, u, base, m)
      PROVE  DraftLeft
  BY <1>5 DEF CloseSession, clearSession, NoRows, DraftLeft, LocksReleased
<1>6. ASSUME NEW base, NEW path, DeleteSession(path, u, base, m)
      PROVE  DraftRemoved
  <2>1. session'.status = session.status /\ session.status # "active"
    BY <1>6, SessionColumns DEF DeleteSession, WriteSession, AppendEvent, SessionRow
  <2>2. /\ draft' = NoDraft(draft.id) /\ deviceState' = NoRows
        /\ locks' = NoRows \/ locks' = locks
    BY <1>6 DEF DeleteSession, clearSession
  <2>. QED
    BY <2>1, <2>2 DEF DraftRemoved, LocksReleased, NoRows
<1>. QED
  BY <1>1, <1>3, <1>4, <1>5, <1>6, <1>7, DiscardRemoves DEF CloseDiscardingLiveDraft

\* Members and invites: whoever loses the membership loses locks and counters.
LEMMA MemberDrafts ==
    ASSUME TypeInv, MemberStep \/ AdminMemberStep
    PROVE  DraftLeft
<1>1. \A u : deviceState = NoRows => DropDevices(u) = NoRows
  BY DEF DropDevices, Without, Restrict, NoRows
<1>2. \A u, table : \A f \in DOMAIN clearUser(table, u) :
         f \in DOMAIN table /\ clearUser(table, u)[f] = table[f]
  BY DEF clearUser, Without, Restrict
<1>3. ASSUME UNCHANGED draft,
             \/ UNCHANGED session \/ \E x : session' = [session EXCEPT !.owner = x],
             \/ UNCHANGED deviceState \/ \E u : deviceState' = DropDevices(u),
             \/ UNCHANGED locks \/ locks' = NoRows
             \/ \E u : locks' = clearUser(locks, u)
             \/ \E u, v : locks' = clearUser(clearUser(locks, u), v)
      PROVE  DraftLeft
  <2>1. session'.status = session.status
    BY <1>3, SessionColumns DEF SessionRow
  <2>2. LocksReleased
    BY <1>2, <1>3 DEF LocksReleased, NoRows
  <2>3. deviceState = NoRows => deviceState' = NoRows
    BY <1>1, <1>3
  <2>. QED
    BY <1>3, <2>1, <2>2, <2>3 DEF DraftLeft
<1>4. CASE MemberStep
  <2>1. ASSUME NEW u, NEW m,
               \/ LeaveSession(u, m)
               \/ \E x, role : ChangeRole(u, x, role, m)
               \/ \E x : RemoveMember(u, x, m)
        PROVE  DraftLeft
    <3>1. UNCHANGED <<session, draft>>
      BY <2>1 DEF LeaveSession, ChangeRole, RemoveMember, Keeps
    <3>2. UNCHANGED deviceState \/ \E x : deviceState' = DropDevices(x)
      BY <2>1 DEF LeaveSession, ChangeRole, RemoveMember
    <3>3. locks' = NoRows \/ \E x : locks' = clearUser(locks, x)
      BY <2>1 DEF LeaveSession, ChangeRole, RemoveMember, AfterCommit,
         StopsBeforeRevoking
    <3>. QED
      BY <1>3, <3>1, <3>2, <3>3
  <2>2. ASSUME NEW u, NEW x, NEW m, TransferOwnership(u, x, m)
        PROVE  DraftLeft
    <3>1. /\ UNCHANGED <<draft, deviceState>>
          /\ session' = [session EXCEPT !.owner = x]
          /\ locks' = NoRows \/ locks' = clearUser(clearUser(locks, u), x)
      BY <2>2 DEF TransferOwnership, Keeps, AfterCommit, StopsBeforeRevoking
    <3>. QED
      BY <1>3, <3>1
  <2>3. CASE \/ \E u \in User, m \in MutationId : NothingToChange(u, m)
             \/ \E u \in User, i \in Invite, m \in MutationId :
                   \/ RevokeInvite(u, i, m)
                   \/ \E role \in MemberRole, max \in MaxUses : CreateInvite(u, i, role, max, m)
             \/ \E i \in Invite : InviteExpires(i)
             \/ \E u \in User, i \in Invite : RedeemInvite(u, i)
    <3>1. UNCHANGED <<session, draft, deviceState>> /\ locks' \in {locks, NoRows}
      BY <2>3 DEF NothingToChange, RevokeInvite, CreateInvite, InviteExpires,
         RedeemInvite, Keeps, AfterCommit, StopsBeforeRevoking
    <3>. QED
      BY <1>3, <3>1
  <2>. QED
    BY <1>4, <2>1, <2>2, <2>3 DEF MemberStep
<1>5. CASE AdminMemberStep
  <2>1. PICK a \in Admin, u \in User, m \in MutationId :
           \/ \E role \in MemberRole : AdminAddMember(a, u, role, m)
           \/ \E role \in MemberRole : AdminChangeRole(a, u, role, m)
           \/ AdminRemoveMember(a, u, m)
           \/ AdminTransfer(a, u, m)
           \/ \E i \in Invite : AdminRevokeInvite(a, i, m)
    BY <1>5 DEF AdminMemberStep
  <2>2. UNCHANGED <<draft, deviceState>> /\ locks' \in {locks, NoRows}
    BY <2>1 DEF AdminAddMember, AdminChangeRole, AdminRemoveMember, AdminTransfer,
       AdminRevokeInvite, Keeps, AfterCommit, StopsBeforeRevoking
  <2>3. UNCHANGED session \/ \E x : session' = [session EXCEPT !.owner = x]
    BY <2>1 DEF AdminAddMember, AdminChangeRole, AdminRemoveMember, AdminTransfer,
       AdminRevokeInvite
  <2>. QED
    BY <1>3, <2>2, <2>3
<1>. QED
  BY <1>4, <1>5

\* The handlers of the draft.
LEMMA DraftHandlers ==
    ASSUME TypeInv, DraftInv, DraftStep
    PROVE  DraftLeft \/ DraftOpened \/ DraftWritten \/ DraftRenewed
<1>1. ASSUME NEW f \in DOMAIN locks
      PROVE  draft.present /\ ensureDraft = {draft}
  BY <1>1 DEF DraftInv, LeaseFitsDraft, ensureDraft
<1>2. draft \in DraftRow /\ draft.version + 1 \in Nat
  BY DEF TypeInv, TypeOK, DraftTypeOK, DraftRow
<1>3. CASE \E u \in User : ReadDraft(u) \/ RefusedDraftRequest(u)
  BY <1>3 DEF ReadDraft, MayReadDraft, RefusedDraftRequest, MayWriteDraft,
     RequireMembership, DraftOpened, storeVars
<1>4. ASSUME NEW u, NEW d, NEW f \in Field, AcquireLock(u, d, f)
      PROVE  DraftOpened
  <2>1. /\ draft' \in ensureDraft /\ UNCHANGED <<session, deviceState>>
        /\ session.status = "active" /\ ~session.deleted
        /\ locks' = Put(locks, f, [user |-> u, device |-> d, draft |-> draft'.id])
    BY <1>4 DEF AcquireLock, storeVars, MayWriteDraft, RequireMembership
  <2>2. [user |-> u, device |-> d, draft |-> draft'.id].draft = draft'.id
    OBVIOUS
  <2>. QED
    BY <2>1, <2>2 DEF DraftOpened
<1>5. ASSUME NEW u, NEW d, NEW f, ReleaseLock(u, d, f)
      PROVE  DraftLeft
  BY <1>5 DEF ReleaseLock, storeVars, DraftLeft, LocksReleased, Without, Restrict
<1>6. ASSUME NEW u, NEW d, (\E candidate : PublishPreview(u, d, candidate)) \/ ClearPreview(u, d)
      PROVE  DraftOpened \/ DraftLeft
  BY <1>6 DEF PublishPreview, MayWriteDraft, RequireMembership, ClearPreview, storeVars,
     DraftOpened, DraftLeft, LocksReleased
<1>7. ASSUME NEW u, NEW d, NEW m, SelectPreview(u, d, m)
      PROVE  DraftWritten
  <2>1. Callsign \in DOMAIN locks
    BY <1>7 DEF SelectPreview, Holds
  <2>2. /\ session.status = "active" /\ UNCHANGED session
        /\ \E fields : locks' = clearFields(locks, fields)
    BY <1>7 DEF SelectPreview, MayWriteDraft
  <2>3. LocksReleased
    BY <2>2 DEF LocksReleased, clearFields, Without, Restrict
  <2>4. \E fields, revs : draft' = [draft EXCEPT !.version = draft.version + 1,
                                      !.fields = fields, !.revs = revs]
    BY <1>1, <1>7, <2>1 DEF SelectPreview
  <2>. QED
    BY <1>1, <1>2, <2>1, <2>2, <2>3, <2>4 DEF DraftWritten, DraftRow
<1>8. ASSUME NEW u, NEW d, NEW seq, NEW updates \in Updates, NEW consume,
             PatchDraft(u, d, seq, updates, consume)
      PROVE  DraftWritten
  <2>1. PICK f : f \in DOMAIN locks
    <3>1. PICK S \in (SUBSET Field) \ {{}} : updates \in [S -> Text \cup {Blank}]
      BY DEF Updates
    <3>2. DOMAIN updates = S
      BY <3>1
    <3>4. S # {}
      BY <3>1
    <3>3. \A f \in DOMAIN updates : f \in DOMAIN locks
      BY <1>8 DEF PatchDraft, Holds
    <3>. QED
      BY <3>2, <3>3, <3>4
  <2>2. /\ session.status = "active" /\ UNCHANGED session
        /\ locks' = Without(locks, DOMAIN updates) \/ locks' = locks
    BY <1>8 DEF PatchDraft, MayWriteDraft, storeVars
  <2>3. LocksReleased
    BY <2>2 DEF LocksReleased, Without, Restrict
  <2>4. \E fields, revs : draft' = [draft EXCEPT !.version = draft.version + 1,
                                      !.fields = fields, !.revs = revs]
    BY <1>1, <1>8, <2>1 DEF PatchDraft
  <2>. QED
    BY <1>1, <1>2, <2>1, <2>2, <2>3, <2>4 DEF DraftWritten, DraftRow
<1>9. ASSUME NEW u, NEW d, NEW l, NEW m, CommitDraft(u, d, l, m)
      PROVE  DraftRenewed
  <2>1. /\ session.status = "active" /\ ~session.deleted /\ draft' = resetDraft(draft)
        /\ deviceState' = NoRows /\ locks' = NoRows /\ ensureDraft = {draft}
    BY <1>9 DEF CommitDraft, MayWriteDraft, RequireMembership, StartGeneration, clearSession,
       ensureDraft
  <2>2. session'.status = session.status
    BY <1>9, SessionColumns DEF CommitDraft, AppendEvent, SessionRow
  <2>. QED
    BY <2>1, <2>2 DEF DraftRenewed
<1>10. ASSUME NEW u, NEW d, NEW m, DiscardDraft(u, d, m)
       PROVE  DraftRenewed
  BY <1>10 DEF DiscardDraft, MayWriteDraft, RequireMembership, StartGeneration,
     clearSession, DraftRenewed
<1>. QED
  BY <1>3, <1>4, <1>5, <1>6, <1>7, <1>8, <1>9, <1>10 DEF DraftStep

\* Every step, by what it does to the draft.
LEMMA StepDrafts ==
    ASSUME TypeInv, DraftInv, [Next]_vars
    PROVE  DraftLeft \/ DraftOpened \/ DraftWritten \/ DraftRenewed \/ DraftRemoved
<1>1. ASSUME session'.status = session.status, UNCHANGED <<draft, deviceState>>,
             LocksReleased
      PROVE  DraftLeft
  BY <1>1 DEF DraftLeft
<1>2. CASE LogStep
  <2>1. session'.status = session.status /\ UNCHANGED draftVars
    BY <1>2, SessionColumns DEF LogStep, MutateLog, AppendEvent, SessionRow
  <2>. QED
    BY <1>1, <2>1 DEF draftVars, LocksReleased
<1>3. CASE RetentionStep \/ CorrectionStep
  <2>1. session'.status = session.status /\ UNCHANGED draftVars
    BY <1>3, SessionColumns DEF RetentionStep, PruneEvents, CorrectionStep,
       ApplyCorrections, AppendRun, SessionRow
  <2>. QED
    BY <1>1, <2>1 DEF draftVars, LocksReleased
<1>4. CASE RefusalStep \/ StreamStep \/ UNCHANGED vars
  <2>1. UNCHANGED draftVars
    BY <1>4 DEF RefusalStep, StoreConflict, StoreRejection, StreamStep, vars
  <2>2. UNCHANGED session
    BY <1>4 DEF RefusalStep, StoreConflict, StoreRejection, StreamStep, IssueTicket,
       TicketExpires, Connect, Receive, Disconnect, vars, storeVars
  <2>. QED
    BY <1>1, <2>1, <2>2 DEF draftVars, LocksReleased
<1>5. CASE TimerStep
  <2>1. ASSUME NEW f, LeaseExpires(f) \/ PreviewExpires
        PROVE  DraftLeft
    BY <2>1 DEF LeaseExpires, PreviewExpires, storeVars, DraftLeft, LocksReleased,
       Without, Restrict
  <2>2. CASE PreviewExpires
    BY <1>1, <2>2 DEF PreviewExpires, storeVars, LocksReleased
  <2>. QED
    BY <1>5, <2>1, <2>2, DiscardRemoves DEF TimerStep, SweepInactiveSession
<1>6. CASE Restart
  BY <1>6 DEF Restart, storeVars, DraftLeft, LocksReleased, NoRows
<1>. QED
  BY <1>2, <1>3, <1>4, <1>5, <1>6, LifecycleDrafts, MemberDrafts, DraftHandlers DEF Next

-----------------------------------------------------------------------------
(* Leases, counters and content *)

\* A new draft inherits the controller and nothing that counts as content.
LEMMA NewDraftIsEmpty ==
    ASSUME TypeInv, NEW row \in ensureDraft, ~draft.present
    PROVE  /\ row.present /\ row.id = draft.id + 1
           /\ \A f \in Field \ Uncounted : row.fields[f] = Blank
<1>1. PICK c : row = [present |-> TRUE, id |-> draft.id + 1, version |-> 1,
                      fields |-> [EmptyFields EXCEPT ![Controller] = c],
                      revs |-> EMPTY_FIELD_REVISIONS]
  BY DEF ensureDraft
<1>2. \A f \in Field \ Uncounted : row.fields[f] = Blank
  BY <1>1, DraftAssumption DEF EmptyFields
<1>. QED
  BY <1>1, <1>2

\* Every kind of step keeps DraftInv.
LEMMA DraftInvStep ==
    ASSUME TypeInv, DraftInv, [Next]_vars
    PROVE  DraftInv'
<1>1. draft \in DraftRow /\ Callsign \in Field /\ Controller \in Field
  BY DraftAssumption, StoreAssumption DEF TypeInv, TypeOK, DraftTypeOK
<1>2. CASE DraftLeft
  <2>1. LeaseFitsDraft'
    BY <1>2 DEF DraftLeft, LocksReleased, DraftInv, LeaseFitsDraft
  <2>2. session'.status # "active" => ~liveDraftHasActualContent'
    BY <1>2 DEF DraftLeft, DraftInv, liveDraftHasActualContent
  <2>. QED
    BY <1>2, <2>1, <2>2 DEF DraftLeft, DraftInv
<1>3. CASE DraftOpened
  <2>1. draft.present => draft' = draft
    BY <1>3 DEF DraftOpened, ensureDraft
  <2>2. ~draft.present => /\ draft'.present
                          /\ \A f \in Field \ Uncounted : draft'.fields[f] = Blank
    BY <1>3, NewDraftIsEmpty DEF DraftOpened
  <2>3. LeaseFitsDraft'
    <3>1. ASSUME NEW f \in DOMAIN locks, UNCHANGED locks \/ locks'[f] = locks[f]
          PROVE  /\ session'.status = "active" /\ draft'.present
                 /\ locks'[f].draft = draft'.id
      BY <1>3, <2>1, <3>1 DEF DraftOpened, DraftInv, LeaseFitsDraft
    <3>2. CASE UNCHANGED locks
      BY <3>1, <3>2 DEF LeaseFitsDraft
    <3>3. ASSUME NEW g \in Field, NEW row, session.status = "active",
                 row.draft = draft'.id, locks' = Put(locks, g, row)
          PROVE  LeaseFitsDraft'
      <4>1. /\ DOMAIN locks' = DOMAIN locks \cup {g} /\ locks'[g] = row
            /\ \A f \in DOMAIN locks \ {g} : locks'[f] = locks[f]
        BY <3>3 DEF Put
      <4>. QED
        BY <1>3, <2>1, <2>2, <3>1, <3>3, <4>1 DEF DraftOpened, LeaseFitsDraft
    <3>. QED
      BY <1>3, <3>2, <3>3 DEF DraftOpened
  <2>4. session'.status # "active" => ~liveDraftHasActualContent'
    <3>1. CASE draft.present
      BY <1>3, <2>1, <3>1 DEF DraftOpened, DraftInv, liveDraftHasActualContent
    <3>2. CASE ~draft.present
      BY <2>2, <3>2 DEF liveDraftHasActualContent
    <3>. QED
      BY <3>1, <3>2
  <2>5. draft'.present
    BY <2>1, <2>2
  <2>. QED
    BY <2>3, <2>4, <2>5 DEF DraftInv
<1>4. CASE DraftWritten
  BY <1>4 DEF DraftWritten, LocksReleased, DraftInv, LeaseFitsDraft
<1>5. CASE DraftRenewed
  BY <1>5 DEF DraftRenewed, DraftInv, LeaseFitsDraft, NoRows
<1>6. CASE DraftRemoved
  <2>1. ~draft'.present /\ session'.status # "active" /\ deviceState' = NoRows
    BY <1>6 DEF DraftRemoved, NoDraft
  <2>2. DOMAIN locks' = {}
    BY <1>6 DEF DraftRemoved, LocksReleased, DraftInv, LeaseFitsDraft
  <2>. QED
    BY <2>1, <2>2 DEF DraftInv, LeaseFitsDraft, liveDraftHasActualContent
<1>. QED
  BY <1>2, <1>3, <1>4, <1>5, <1>6, StepDrafts

\* DraftInv holds in every reachable state.
LEMMA DraftInvariant == Spec => []DraftInv
<1>1. Init => DraftInv
  BY DEF Init, DraftInit, NoDraft, NoRows, DraftInv, LeaseFitsDraft,
     liveDraftHasActualContent
<1>2. TypeInv /\ DraftInv /\ [Next]_vars => DraftInv'
  BY DraftInvStep
<1>. QED
  BY <1>1, <1>2, TypeInvariant, PTL DEF Spec

\* A field is locked in an active Session only and on the draft that is there:
\* commit, discard, close and deletion leave no lease behind.
THEOREM LeasesFitTheDraft == Spec => []LeaseFitsDraft
<1>1. DraftInv => LeaseFitsDraft
  BY DEF DraftInv
<1>. QED
  BY <1>1, DraftInvariant, PTL

\* What ReplaysBelongToOneDraft and DraftContentIsKept say of a step.
ReplaysGoWithDraft ==
    draft'.id # draft.id \/ draft'.present # draft.present => deviceState' = NoRows

ContentGoesAnnounced ==
    liveDraftHasActualContent /\ ~liveDraftHasActualContent' =>
        \/ draft'.version > draft.version
        \/ /\ session'.seq = session.seq + 1
           /\ events'[session'.seq].type = "session.closed"
           /\ events'[session'.seq].body.nextDraft = draft.version + 1

\* The counters of the devices go with the draft they counted for, so that no
\* replay is answered for another one (resetDraft, discardLiveDraft).
THEOREM ReplaysStayWithTheirDraft == Spec => ReplaysBelongToOneDraft
<1>1. TypeInv /\ DraftInv /\ [Next]_vars => [ReplaysGoWithDraft]_vars
  <2>. SUFFICES ASSUME TypeInv, DraftInv, Next PROVE ReplaysGoWithDraft
    OBVIOUS
  <2>0. draft.present \in BOOLEAN /\ draft'.present \in BOOLEAN
    BY NextKeepsInv DEF TypeInv, TypeOK, DraftTypeOK, DraftRow
  <2>1. CASE DraftLeft \/ DraftWritten
    BY <2>0, <2>1 DEF DraftLeft, DraftWritten, ReplaysGoWithDraft
  <2>2. CASE DraftOpened
    <3>1. CASE draft.present
      BY <2>2, <3>1 DEF DraftOpened, ensureDraft, ReplaysGoWithDraft
    <3>2. CASE ~draft.present
      BY <2>2, <3>2 DEF DraftOpened, DraftInv, ReplaysGoWithDraft
    <3>. QED
      BY <3>1, <3>2
  <2>3. CASE DraftRenewed \/ DraftRemoved
    BY <2>3 DEF DraftRenewed, DraftRemoved, ReplaysGoWithDraft
  <2>. QED
    BY <2>1, <2>2, <2>3, StepDrafts
<1>2. [][ReplaysGoWithDraft]_vars => ReplaysBelongToOneDraft
  BY PTL DEF ReplaysGoWithDraft, ReplaysBelongToOneDraft
<1>. QED
  BY <1>1, <1>2, TypeInvariant, DraftInvariant, PTL DEF Spec

\* What users typed into the draft goes with a new version of the draft, or with
\* a session.closed event that names the version to come (discardLiveDraft).
THEOREM ContentIsKept == Spec => DraftContentIsKept
<1>1. TypeInv /\ DraftInv /\ [Next]_vars => [ContentGoesAnnounced]_vars
  <2>. SUFFICES ASSUME TypeInv, DraftInv, Next, liveDraftHasActualContent,
                       ~liveDraftHasActualContent'
                PROVE  \/ draft'.version > draft.version
                       \/ /\ session'.seq = session.seq + 1
                          /\ events'[session'.seq].type = "session.closed"
                          /\ events'[session'.seq].body.nextDraft = draft.version + 1
    BY DEF ContentGoesAnnounced
  <2>1. draft.present /\ draft.version \in Nat
    BY DEF liveDraftHasActualContent, TypeInv, TypeOK, DraftTypeOK, DraftRow
  <2>2. session.status = "active"
    BY DEF DraftInv
  <2>3. CASE DraftLeft \/ DraftOpened
    BY <2>1, <2>3 DEF DraftLeft, DraftOpened, ensureDraft, liveDraftHasActualContent
  <2>4. CASE DraftWritten
    BY <2>1, <2>4 DEF DraftWritten
  <2>5. CASE DraftRenewed
    <3>1. draft' = resetDraft(draft)
      BY <2>1, <2>5 DEF DraftRenewed, ensureDraft
    <3>2. draft'.version = draft.version + 1
      BY <3>1 DEF resetDraft, TypeInv, TypeOK, DraftTypeOK, DraftRow
    <3>. QED
      BY <2>1, <3>2
  <2>6. CASE DraftRemoved
    BY <2>1, <2>2, <2>6 DEF DraftRemoved
  <2>. QED
    BY <2>3, <2>4, <2>5, <2>6, StepDrafts
<1>2. [][ContentGoesAnnounced]_vars => DraftContentIsKept
  BY PTL DEF ContentGoesAnnounced, DraftContentIsKept
<1>. QED
  BY <1>1, <1>2, TypeInvariant, DraftInvariant, PTL DEF Spec

-----------------------------------------------------------------------------
(* Commits *)

Commits == {m \in DOMAIN processed :
               processed[m].kind = "draft" /\ processed[m].outcome = "accepted"}

\* The draftIds that are used up.
UsedDrafts == draft.id - (IF draft.present THEN 1 ELSE 0)

\* That the commits are finitely many is what lets them be counted.
CommitsInv == IsFiniteSet(Commits) /\ Cardinality(Commits) <= UsedDrafts

\* The only answers that are stored are refusals, and what no commit answers.
NothingCommitted ==
    \/ UNCHANGED processed
    \/ \E m, kind, u, outcome : /\ Fresh(m) /\ outcome # "accepted"
                                /\ StoreResponse(m, kind, u, outcome)
    \/ \E m, kind, u, base : /\ Fresh(m) /\ kind # "draft"
                             /\ StoreAccepted(m, kind, u, base)

\* Such an answer leaves the commits what they are.
LEMMA CommitsStay ==
    ASSUME NothingCommitted
    PROVE  Commits' = Commits
<1>1. CASE UNCHANGED processed
  BY <1>1 DEF Commits
<1>2. ASSUME NEW m, NEW row, Fresh(m), processed' = Put(processed, m, row),
             row.kind # "draft" \/ row.outcome # "accepted"
      PROVE  Commits' = Commits
  <2>1. /\ DOMAIN processed' = DOMAIN processed \cup {m} /\ processed'[m] = row
        /\ \A x \in DOMAIN processed \ {m} : processed'[x] = processed[x]
    BY <1>2 DEF Put
  <2>. QED
    BY <1>2, <2>1 DEF Fresh, Commits
<1>3. ASSUME NEW m, NEW kind, NEW u, NEW outcome, Fresh(m), outcome # "accepted",
             StoreResponse(m, kind, u, outcome)
      PROVE  Commits' = Commits
  <2>1. [kind |-> kind, user |-> u, outcome |-> outcome, seq |-> 0, base |-> 0].outcome
           # "accepted"
    BY <1>3
  <2>. QED
    BY <1>2, <1>3, <2>1 DEF StoreResponse
<1>4. ASSUME NEW m, NEW kind, NEW u, NEW base, Fresh(m), kind # "draft",
             StoreAccepted(m, kind, u, base)
      PROVE  Commits' = Commits
  <2>1. [kind |-> kind, user |-> u, outcome |-> "accepted", seq |-> session.seq + 1,
         base |-> base].kind # "draft"
    BY <1>4
  <2>. QED
    BY <1>2, <1>4, <2>1 DEF StoreAccepted
<1>. QED
  BY <1>1, <1>3, <1>4 DEF NothingCommitted

\* Committing the draft is the only step that commits.
LEMMA StepCommits ==
    ASSUME [Next]_vars
    PROVE  \/ NothingCommitted
           \/ \E u \in User, d \in Device, l \in Log, m \in MutationId : CommitDraft(u, d, l, m)
<1>1. ASSUME NEW m, NEW kind, NEW u, Fresh(m),
             \/ StoreResponse(m, kind, u, "done")
             \/ StoreResponse(m, kind, u, "conflict")
             \/ StoreResponse(m, kind, u, "rejected")
      PROVE  NothingCommitted
  BY <1>1 DEF NothingCommitted
<1>2. ASSUME NEW m, NEW kind, NEW u, NEW base, Fresh(m), kind # "draft",
             StoreAccepted(m, kind, u, base)
      PROVE  NothingCommitted
  BY <1>2 DEF NothingCommitted
<1>3. CASE LifecycleStep
  <2>1. ASSUME NEW u, NEW m,
               \/ \E title : CreateSession(u, title, m)
               \/ ConfirmSession(u, m) \/ \E r : ActivateAgain(u, r, m)
               \/ \E batch : BootstrapLogs(u, batch, m)
        PROVE  NothingCommitted
    BY <1>1, <2>1 DEF CreateSession, ConfirmSession, BootstrapLogs, ActivateAgain
  <2>2. ASSUME NEW u, NEW m, NEW base, NEW path \in {"batch", "admin"},
               \/ \E r : Activate(u, r, m)
               \/ \E title : UpdateSession(path, u, title, base, m)
               \/ CloseSession(path, u, base, m)
               \/ ReopenSession(path, u, base, m)
               \/ DeleteSession(path, u, base, m)
               \/ CloseDiscardingLiveDraft(u, base, m)
        PROVE  NothingCommitted
    BY <1>2, <2>2 DEF Activate, UpdateSession, CloseSession, ReopenSession, DeleteSession,
       CloseDiscardingLiveDraft
  <2>. QED
    BY <1>3, <2>1, <2>2 DEF LifecycleStep
<1>4. CASE LogStep
  BY <1>2, <1>4 DEF LogStep, MutateLog, Path
<1>5. CASE RefusalStep \/ RetentionStep \/ CorrectionStep
  BY <1>1, <1>5 DEF RefusalStep, StoreConflict, StoreRejection, RetentionStep, PruneEvents,
     CorrectionStep, ApplyCorrections
<1>6. CASE MemberStep
  <2>1. ASSUME NEW u, NEW m,
               \/ LeaveSession(u, m) \/ NothingToChange(u, m)
               \/ \E x, role : ChangeRole(u, x, role, m)
               \/ \E x : RemoveMember(u, x, m) \/ TransferOwnership(u, x, m)
               \/ \E i, role, max : CreateInvite(u, i, role, max, m)
               \/ \E i : RevokeInvite(u, i, m)
        PROVE  NothingCommitted
    BY <1>1, <2>1 DEF LeaveSession, NothingToChange, ChangeRole, RemoveMember,
       TransferOwnership, CreateInvite, RevokeInvite
  <2>2. ASSUME NEW u, NEW i, InviteExpires(i) \/ RedeemInvite(u, i)
        PROVE  NothingCommitted
    BY <2>2 DEF InviteExpires, RedeemInvite, NothingCommitted
  <2>. QED
    BY <1>6, <2>1, <2>2 DEF MemberStep
<1>7. CASE AdminMemberStep
  BY <1>1, <1>7 DEF AdminMemberStep, AdminAddMember, AdminChangeRole, AdminRemoveMember,
     AdminTransfer, AdminCommand, AdminRevokeInvite
<1>8. CASE DraftStep
  <2>1. ASSUME NEW u, NEW d, NEW m, SelectPreview(u, d, m) \/ DiscardDraft(u, d, m)
        PROVE  NothingCommitted
    BY <1>1, <2>1 DEF SelectPreview, DiscardDraft
  <2>2. ASSUME NEW u,
               \/ ReadDraft(u) \/ RefusedDraftRequest(u)
               \/ \E d, f : AcquireLock(u, d, f) \/ ReleaseLock(u, d, f)
               \/ \E d, candidate : PublishPreview(u, d, candidate)
               \/ \E d : ClearPreview(u, d)
               \/ \E d, seq, updates, consume : PatchDraft(u, d, seq, updates, consume)
        PROVE  NothingCommitted
    BY <2>2 DEF ReadDraft, RefusedDraftRequest, AcquireLock, ReleaseLock,
       PublishPreview, ClearPreview, PatchDraft, storeVars, NothingCommitted
  <2>. QED
    BY <1>8, <2>1, <2>2 DEF DraftStep
<1>9. CASE TimerStep
  BY <1>9 DEF TimerStep, LeaseExpires, PreviewExpires, SweepInactiveSession, storeVars,
     NothingCommitted
<1>10. CASE StreamStep \/ Restart \/ UNCHANGED vars
  BY <1>10 DEF StreamStep, IssueTicket, TicketExpires, Connect, Receive, Disconnect,
     Restart, vars, storeVars, NothingCommitted
<1>. QED
  BY <1>3, <1>4, <1>5, <1>6, <1>7, <1>8, <1>9, <1>10 DEF Next

\* No step gives a draftId back.
LEMMA UsedDraftsGrow ==
    ASSUME TypeInv, DraftInv, [Next]_vars
    PROVE  UsedDrafts \in Int /\ UsedDrafts' \in Int /\ UsedDrafts <= UsedDrafts'
<1>1. draft \in DraftRow /\ draft' \in DraftRow
  BY NextKeepsInv DEF TypeInv, TypeOK, DraftTypeOK
<1>2. /\ draft.id \in Nat /\ draft'.id \in Nat
      /\ draft.present \in BOOLEAN /\ draft'.present \in BOOLEAN
  BY <1>1 DEF DraftRow
<1>3. CASE DraftLeft \/ DraftWritten
  BY <1>2, <1>3 DEF DraftLeft, DraftWritten, UsedDrafts
<1>4. ASSUME NEW row \in ensureDraft
      PROVE  /\ row \in DraftRow /\ row.present
             /\ row.id - 1 >= UsedDrafts
  <2>1. CASE draft.present
    BY <1>1, <1>2, <1>4, <2>1 DEF ensureDraft, UsedDrafts
  <2>2. CASE ~draft.present
    <3>1. row.present /\ row.id = draft.id + 1
      BY <1>4, <2>2, NewDraftIsEmpty
    <3>2. row \in DraftRow
      BY <1>4, EnsureDraftType DEF TypeInv, TypeOK, DraftTypeOK
    <3>. QED
      BY <1>2, <2>2, <3>1, <3>2 DEF UsedDrafts
  <2>. QED
    BY <2>1, <2>2
<1>5. CASE DraftOpened
  <2>1. draft' \in ensureDraft
    BY <1>5 DEF DraftOpened
  <2>2. draft'.present /\ draft'.id - 1 >= UsedDrafts
    BY <1>4, <2>1
  <2>3. UsedDrafts' = draft'.id - 1
    BY <2>2 DEF UsedDrafts
  <2>. QED
    BY <1>2, <2>2, <2>3 DEF UsedDrafts
<1>6. CASE DraftRenewed
  <2>1. PICK row \in ensureDraft : draft' = resetDraft(row)
    BY <1>6 DEF DraftRenewed
  <2>2. row \in DraftRow /\ row.present /\ row.id - 1 >= UsedDrafts
    BY <1>4
  <2>3. draft'.present /\ draft'.id = row.id + 1 /\ row.id \in Nat
    BY <2>1, <2>2 DEF resetDraft, DraftRow
  <2>4. UsedDrafts' = row.id
    BY <2>3 DEF UsedDrafts
  <2>5. UsedDrafts \in Int
    BY <1>2 DEF UsedDrafts
  <2>. QED
    BY <2>2, <2>3, <2>4, <2>5
<1>7. CASE DraftRemoved
  <2>1. draft'.id = draft.id /\ ~draft'.present
    BY <1>7 DEF DraftRemoved, NoDraft
  <2>. QED
    BY <1>2, <2>1 DEF UsedDrafts
<1>. QED
  BY <1>3, <1>5, <1>6, <1>7, StepDrafts

\* A commit uses up the draft it commits.
LEMMA CommitUsesDraft ==
    ASSUME TypeInv, CommitsInv, NEW u, NEW d, NEW l, NEW m, CommitDraft(u, d, l, m)
    PROVE  CommitsInv'
<1>1. /\ Fresh(m) /\ draft.present /\ draft' = resetDraft(draft)
      /\ StoreAccepted(m, "draft", u, 0)
  BY DEF CommitDraft
<1>2. /\ DOMAIN processed' = DOMAIN processed \cup {m}
      /\ processed'[m].kind = "draft" /\ processed'[m].outcome = "accepted"
      /\ \A x \in DOMAIN processed \ {m} : processed'[x] = processed[x]
  BY <1>1 DEF StoreAccepted, Put
<1>3. Commits' = Commits \cup {m} /\ m \notin Commits
  BY <1>1, <1>2 DEF Fresh, Commits
<1>4. UsedDrafts \in Int /\ UsedDrafts' = UsedDrafts + 1
  BY <1>1 DEF resetDraft, UsedDrafts, TypeInv, TypeOK, DraftTypeOK, DraftRow
<1>5. /\ IsFiniteSet(Commits \cup {m})
      /\ Cardinality(Commits \cup {m}) = Cardinality(Commits) + 1
  BY <1>3, FS_AddElement DEF CommitsInv
<1>6. Cardinality(Commits) \in Nat
  BY FS_CardinalityType DEF CommitsInv
<1>. QED
  BY <1>3, <1>4, <1>5, <1>6 DEF CommitsInv

\* Every accepted commit used up a draftId of its own: two devices never publish
\* the same draft twice (POST /live-draft/commit).
THEOREM DraftsCommitOnce == Spec => []DraftsAreCommittedOnce
<1>1. Init => CommitsInv
  <2>. SUFFICES ASSUME Init PROVE CommitsInv
    OBVIOUS
  <2>1. Commits = {}
    BY DEF Init, StoreInit, NoRows, Commits
  <2>2. UsedDrafts = 0
    BY DEF Init, DraftInit, NoDraft, UsedDrafts
  <2>. QED
    BY <2>1, <2>2, FS_EmptySet DEF CommitsInv
<1>2. TypeInv /\ DraftInv /\ CommitsInv /\ [Next]_vars => CommitsInv'
  <2>. SUFFICES ASSUME TypeInv, DraftInv, CommitsInv, [Next]_vars PROVE CommitsInv'
    OBVIOUS
  <2>1. CASE NothingCommitted
    <3>1. Commits' = Commits
      BY <2>1, CommitsStay
    <3>2. Cardinality(Commits) \in Nat
      BY FS_CardinalityType DEF CommitsInv
    <3>. QED
      BY <3>1, <3>2, UsedDraftsGrow DEF CommitsInv
  <2>. QED
    BY <2>1, StepCommits, CommitUsesDraft
<1>3. CommitsInv => DraftsAreCommittedOnce
  BY DEF CommitsInv, Commits, UsedDrafts, DraftsAreCommittedOnce
<1>. QED
  BY <1>1, <1>2, <1>3, TypeInvariant, DraftInvariant, PTL DEF Spec

-----------------------------------------------------------------------------
(* What a step does to who may read, and to tickets and sockets *)

\* The columns of the Session row that decide who may read, and event_seq.
SessionKept ==
    /\ session'.seq = session.seq
    /\ session'.status = session.status /\ session'.deleted = session.deleted

\* The memberships of the given users change and what they held is withdrawn: the
\* sockets at once, the tickets unless the process stops before the hub has come
\* to them.  What makes those useless is that the rows have a later version.
AccessCut(users) ==
    /\ SessionKept /\ UNCHANGED events
    /\ \A u \in DOMAIN members :
          /\ u \in DOMAIN members'
          /\ IF u \in users THEN members'[u].version > members[u].version
                            ELSE members'[u] = members[u]
    /\ DOMAIN tickets' \subseteq DOMAIN tickets
    /\ \A t \in DOMAIN tickets' : tickets'[t] = tickets[t]
    /\ conns' = NoRows \/ conns' = Closed(conns, users)

\* u becomes a member or keeps the role it has.
AccessGained(u) ==
    /\ \E role : /\ members' = Joined(u, role)
                 /\ IsMember(u) => members[u].role = role
    /\ UNCHANGED <<session, events, realtimeVars>>

AccessKept == SessionKept /\ UNCHANGED <<members, events, realtimeVars>>

\* What the hub does after the commit, whether or not the process gets to it.
LEMMA RevokedUsersAreCut ==
    ASSUME NEW users, NEW kept, SessionKept, UNCHANGED events,
           \A u \in DOMAIN members :
              /\ u \in DOMAIN members'
              /\ IF u \in users THEN members'[u].version > members[u].version
                                ELSE members'[u] = members[u],
           \/ AfterCommit(users, kept)
           \/ /\ \E keys : tickets' = Without(tickets, keys)
              /\ conns' = Closed(conns, users)
    PROVE  AccessCut(users)
<1>1. /\ \E keys : tickets' = Without(tickets, keys)
      /\ conns' = NoRows \/ conns' = Closed(conns, users)
  BY DEF AfterCommit, RevokeUsers, StopsBeforeRevoking, DropTickets
<1>2. /\ DOMAIN tickets' \subseteq DOMAIN tickets
      /\ \A t \in DOMAIN tickets' : tickets'[t] = tickets[t]
  BY <1>1 DEF Without, Restrict
<1>. QED
  BY <1>1, <1>2 DEF AccessCut

\* A row of members that is written has a later version.
LEMMA WrittenRowsAreLater ==
    ASSUME TypeInv, NEW u,
           \/ u \in DOMAIN members /\ members' = Removed(u)
           \/ u \in DOMAIN members /\ \E role : members' = WithRole(u, role)
           \/ \E role : members' = Joined(u, role)
    PROVE  \A x \in DOMAIN members :
              /\ x \in DOMAIN members'
              /\ IF x \in {u} THEN members'[x].version > members[x].version
                              ELSE members'[x] = members[x]
<1>1. SUFFICES ASSUME NEW x \in DOMAIN members
               PROVE  /\ x \in DOMAIN members'
                      /\ IF x \in {u} THEN members'[x].version > members[x].version
                                      ELSE members'[x] = members[x]
  OBVIOUS
<1>2. members[x] \in MemberRow /\ members[x].version \in Nat
  <2>1. members[x] \in MemberRow
    BY RowOfTable DEF TypeInv, TypeOK, StoreTypeOK
  <2>. QED
    BY <2>1 DEF MemberRow
<1>3. CASE x # u
  BY <1>3 DEF Removed, WithRole, Joined, Put
<1>4. CASE x = u
  <2>1. x \in DOMAIN members' /\ members'[x].version = members[x].version + 1
    <3>1. CASE u \in DOMAIN members /\ members' = Removed(u)
      BY <1>2, <1>4, <3>1 DEF Removed, MemberRow
    <3>2. CASE u \in DOMAIN members /\ \E role : members' = WithRole(u, role)
      BY <1>2, <1>4, <3>2 DEF WithRole, MemberRow
    <3>3. CASE \E role : members' = Joined(u, role)
      BY <1>2, <1>4, <3>3 DEF Joined, Put
    <3>. QED
      BY <3>1, <3>2, <3>3
  <2>. QED
    BY <1>2, <1>4, <2>1
<1>. QED
  BY <1>3, <1>4

\* So have the two of a transfer.
LEMMA TransferredRowsAreLater ==
    ASSUME TypeInv, NEW u, NEW v, u # v, u \in DOMAIN members, v \in DOMAIN members,
           members' = Transferred(u, v)
    PROVE  \A x \in DOMAIN members :
              /\ x \in DOMAIN members'
              /\ IF x \in {u, v} THEN members'[x].version > members[x].version
                                 ELSE members'[x] = members[x]
<1>1. SUFFICES ASSUME NEW x \in DOMAIN members
               PROVE  /\ x \in DOMAIN members'
                      /\ IF x \in {u, v} THEN members'[x].version > members[x].version
                                         ELSE members'[x] = members[x]
  OBVIOUS
<1>2. members[x] \in MemberRow /\ members[x].version \in Nat
  <2>1. members[x] \in MemberRow
    BY RowOfTable DEF TypeInv, TypeOK, StoreTypeOK
  <2>. QED
    BY <2>1 DEF MemberRow
<1>3. CASE x \notin {u, v}
  BY <1>3 DEF Transferred
<1>4. CASE x \in {u, v}
  <2>1. x \in DOMAIN members' /\ members'[x].version = members[x].version + 1
    <3>1. members[x] \in MemberRow
      BY RowOfTable DEF TypeInv, TypeOK, StoreTypeOK
    <3>2. /\ DOMAIN members' = DOMAIN members
          /\ members'[u] = [members[u] EXCEPT !.role = "editor", !.version = @ + 1]
          /\ members'[v] = [members[v] EXCEPT !.role = "owner", !.version = @ + 1]
      BY TransferredRows
    <3>3. CASE x = u
      BY <3>1, <3>2, <3>3 DEF MemberRow
    <3>4. CASE x = v
      BY <3>1, <3>2, <3>4 DEF MemberRow
    <3>. QED
      BY <1>4, <3>3, <3>4
  <2>. QED
    BY <1>2, <1>4, <2>1
<1>. QED
  BY <1>3, <1>4

\* Members and invites.
LEMMA MemberAccess ==
    ASSUME TypeInv, OwnerInv, MemberStep \/ AdminMemberStep
    PROVE  \/ \E users : AccessCut(users)
           \/ \E u \in User : AccessGained(u)
           \/ AccessKept
<1>0. session \in SessionRow
  BY SessionColumns
<1>1. ASSUME NEW u, NEW kept, UNCHANGED <<session, events>>, AfterCommit({u}, kept),
             \/ IsMember(u) /\ members' = Removed(u)
             \/ IsMember(u) /\ \E role : members' = WithRole(u, role)
             \/ \E role : members' = Joined(u, role)
      PROVE  AccessCut({u})
  <2>1. SessionKept
    BY <1>1 DEF SessionKept
  <2>. QED
    BY <1>1, <2>1, WrittenRowsAreLater, RevokedUsersAreCut DEF IsMember
<1>2. ASSUME NEW u, NEW v \in User, NEW kept, UNCHANGED events,
             session' = [session EXCEPT !.owner = v], u # v, IsMember(u), IsMember(v),
             AfterCommit({u, v}, kept), members' = Transferred(u, v)
      PROVE  AccessCut({u, v})
  <2>1. SessionKept
    BY <1>0, <1>2 DEF SessionKept, SessionRow
  <2>. QED
    BY <1>2, <2>1, TransferredRowsAreLater, RevokedUsersAreCut DEF IsMember
<1>3. CASE MemberStep
  <2>1. ASSUME NEW u, NEW m, LeaveSession(u, m)
        PROVE  AccessCut({u})
    BY <1>1, <2>1 DEF LeaveSession, RequireMembership, Keeps
  <2>2. ASSUME NEW u, NEW v, NEW role, NEW m, ChangeRole(u, v, role, m)
        PROVE  AccessCut({v})
    BY <1>1, <2>2 DEF ChangeRole, Keeps
  <2>3. ASSUME NEW u, NEW v, NEW m, RemoveMember(u, v, m)
        PROVE  AccessCut({v})
    BY <1>1, <2>3 DEF RemoveMember, Keeps
  <2>4. ASSUME NEW u, NEW v \in User, NEW m, TransferOwnership(u, v, m)
        PROVE  AccessCut({u, v})
    BY <1>2, <2>4 DEF TransferOwnership, RequireMembership, Keeps
  <2>5. ASSUME NEW u, NEW i, NEW m,
               \/ NothingToChange(u, m)
               \/ \E role, max : CreateInvite(u, i, role, max, m)
               \/ RevokeInvite(u, i, m) \/ InviteExpires(i)
        PROVE  AccessKept
    BY <2>5 DEF NothingToChange, CreateInvite, RevokeInvite, InviteExpires, Keeps,
       AccessKept, SessionKept
  <2>6. ASSUME NEW u, NEW i, RedeemInvite(u, i)
        PROVE  AccessCut({u}) \/ AccessGained(u)
    <3>1. PICK role :
             /\ role = IF IsMember(u) THEN effectiveRole(members[u].role, invites[i].role)
                       ELSE invites[i].role
             /\ members' = Joined(u, role)
             /\ IF IsMember(u) /\ role # members[u].role THEN AfterCommit({u}, locks)
                ELSE UNCHANGED <<realtimeVars, locks, preview>>
      BY <2>6 DEF RedeemInvite
    <3>2. UNCHANGED <<session, events>>
      BY <2>6 DEF RedeemInvite, Keeps
    <3>3. CASE IsMember(u) /\ role # members[u].role
      BY <1>1, <3>1, <3>2, <3>3
    <3>4. CASE ~(IsMember(u) /\ role # members[u].role)
      BY <3>1, <3>2, <3>4 DEF AccessGained
    <3>. QED
      BY <3>3, <3>4
  <2>. QED
    BY <1>3, <2>1, <2>2, <2>3, <2>4, <2>5, <2>6 DEF MemberStep
<1>4. CASE AdminMemberStep
  <2>1. ASSUME NEW a, NEW u, NEW m, NEW role,
               AdminAddMember(a, u, role, m) \/ AdminChangeRole(a, u, role, m)
        PROVE  AccessCut({u})
    BY <1>1, <2>1 DEF AdminAddMember, AdminChangeRole, Keeps
  <2>2. ASSUME NEW a, NEW u, NEW m, AdminRemoveMember(a, u, m)
        PROVE  AccessCut({u})
    <3>1. /\ SessionKept /\ UNCHANGED events /\ members' = Removed(u) /\ IsMember(u)
          /\ \E keys : tickets' = Without(tickets, keys)
          /\ conns' = Closed(conns, {u})
      BY <2>2 DEF AdminRemoveMember, Keeps, SessionKept
    <3>. QED
      BY <3>1, WrittenRowsAreLater, RevokedUsersAreCut DEF IsMember
  <2>3. ASSUME NEW a, NEW u \in User, NEW m, AdminTransfer(a, u, m)
        PROVE  AccessCut({session.owner, u})
    <3>1. u # session.owner
      BY <2>3 DEF AdminTransfer, MemberRole
    <3>. QED
      BY <1>2, <2>3, <3>1 DEF AdminTransfer, Keeps
  <2>4. ASSUME NEW a, NEW i, NEW m, AdminRevokeInvite(a, i, m)
        PROVE  AccessKept
    BY <2>4 DEF AdminRevokeInvite, Keeps, AccessKept, SessionKept
  <2>. QED
    BY <1>4, <2>1, <2>2, <2>3, <2>4 DEF AdminMemberStep
<1>. QED
  BY <1>3, <1>4

\* Every step, by what it does to those who may read.
LEMMA StepAccess ==
    ASSUME TypeInv, OwnerInv, [Next]_vars
    PROVE  \/ LogWritten \/ SessionWritten \/ SessionDeleted \/ SessionCreated
           \/ CorrectionStep \/ RetentionStep \/ StreamStep \/ Restart
           \/ \E users : AccessCut(users)
           \/ \E u \in User : AccessGained(u)
           \/ AccessKept
<1>0. ASSUME UNCHANGED session
      PROVE  SessionKept
  BY <1>0 DEF SessionKept
<1>1. CASE LifecycleStep
  <2>1. ASSUME OnlyAnswered
        PROVE  AccessKept
    BY <2>1, SessionColumns DEF OnlyAnswered, AccessKept, SessionKept, SessionRow
  <2>2. ASSUME SessionFilled
        PROVE  AccessKept
    BY <1>0, <2>2 DEF SessionFilled, BootstrapLogs, AccessKept
  <2>. QED
    BY <1>1, <2>1, <2>2, LifecycleWrites
<1>2. CASE LogStep
  BY <1>2, LogWrites
<1>3. CASE RefusalStep
  BY <1>0, <1>3 DEF RefusalStep, StoreConflict, StoreRejection, AccessKept
<1>4. CASE DraftStep
  <2>1. ASSUME NEW u, NEW d, NEW m, SelectPreview(u, d, m) \/ DiscardDraft(u, d, m)
        PROVE  AccessKept
    BY <1>0, <2>1 DEF SelectPreview, DiscardDraft, AccessKept
  <2>2. ASSUME NEW u,
               \/ ReadDraft(u) \/ RefusedDraftRequest(u)
               \/ \E d, f : AcquireLock(u, d, f) \/ ReleaseLock(u, d, f)
               \/ \E d, candidate : PublishPreview(u, d, candidate)
               \/ \E d : ClearPreview(u, d)
               \/ \E d, seq, updates, consume : PatchDraft(u, d, seq, updates, consume)
        PROVE  AccessKept
    BY <1>0, <2>2 DEF ReadDraft, RefusedDraftRequest, AcquireLock, ReleaseLock,
       PublishPreview, ClearPreview, PatchDraft, storeVars, AccessKept
  <2>. QED
    BY <1>4, <2>1, <2>2, LogWrites DEF DraftStep
<1>5. CASE TimerStep
  BY <1>0, <1>5, SweepWrites DEF TimerStep, LeaseExpires, PreviewExpires, storeVars,
     AccessKept
<1>6. CASE UNCHANGED vars
  BY <1>0, <1>6 DEF vars, storeVars, AccessKept
<1>. QED
  BY <1>1, <1>2, <1>3, <1>4, <1>5, <1>6, MemberAccess DEF Next

\* What becomes of the Session row: event_seq grows, a deletion is final, and
\* nothing returns to initializing.
LEMMA SessionAges ==
    ASSUME TypeInv, OwnerInv, [Next]_vars
    PROVE  /\ session.seq \in Nat /\ session'.seq \in Nat /\ session.seq <= session'.seq
           /\ session.deleted => session'.deleted
           /\ session.status # "absent" =>
                 /\ session'.status # "absent"
                 /\ session'.status = "initializing" => session.status = "initializing"
<1>1. session \in SessionRow /\ session.seq \in Nat /\ session'.seq \in Nat
  BY NextKeepsInv DEF TypeInv, TypeOK, StoreTypeOK, SessionRow
<1>2. CASE LogWritten
  BY <1>1, <1>2 DEF LogWritten, LogIsWritten, AppendEvent, SessionRow
<1>3. CASE SessionWritten
  BY <1>1, <1>3 DEF SessionWritten, SessionIsWritten, WriteSession, AppendEvent, SessionRow
<1>4. CASE SessionDeleted
  <2>1. PICK row, e : /\ row = [session EXCEPT !.deleted = TRUE, !.version = @ + 1]
                      /\ AppendEvent(row, e)
    BY <1>4 DEF SessionDeleted, DeleteSession, WriteSession
  <2>2. row \in SessionRow /\ row.seq = session.seq
    BY <2>1, NextSessionRow
  <2>3. row.deleted /\ row.status = session.status
    BY <1>1, <2>1 DEF SessionRow
  <2>. QED
    BY <1>1, <2>1, <2>2, <2>3 DEF AppendEvent, SessionRow
<1>5. CASE SessionCreated \/ RetentionStep
  <2>1. /\ session'.seq = session.seq /\ session'.deleted = session.deleted
        /\ \/ session.status = "absent" \/ session'.status = session.status
    BY <1>1, <1>5 DEF SessionCreated, CreateSession, RetentionStep, PruneEvents, SessionRow
  <2>. QED
    BY <1>1, <2>1
<1>6. CASE \/ \E users : AccessCut(users)
           \/ \E u \in User : AccessGained(u)
           \/ StreamStep \/ Restart \/ AccessKept
  <2>1. SessionKept
    BY <1>6 DEF AccessCut, AccessGained, AccessKept, StreamStep, IssueTicket,
       TicketExpires, Connect, Receive, Disconnect, Restart, storeVars, SessionKept
  <2>. QED
    BY <1>1, <2>1 DEF SessionKept
<1>7. CASE CorrectionStep
  <2>1. PICK u \in User, corrections \in Selections, m \in MutationId :
            ApplyCorrections(u, corrections, m)
    BY <1>7 DEF CorrectionStep
  <2>2. PICK n \in Nat : session' = [session EXCEPT !.seq = session.seq + n]
    BY <2>1, CorrectionsApplied DEF CorrectionsAreMade
  <2>. QED
    BY <1>1, <2>2 DEF SessionRow
<1>. QED
  BY <1>2, <1>3, <1>4, <1>5, <1>6, <1>7, StepAccess

\* A row of members is never written without a later version.
LEMMA MembersAge ==
    ASSUME TypeInv, OwnerInv, [Next]_vars, session.status # "absent",
           NEW u \in DOMAIN members
    PROVE  /\ u \in DOMAIN members'
           /\ members'[u] = members[u] \/ members'[u].version > members[u].version
<1>1. ASSUME UNCHANGED members
      PROVE  /\ u \in DOMAIN members'
             /\ members'[u] = members[u] \/ members'[u].version > members[u].version
  BY <1>1
<1>2. CASE LogWritten \/ SessionWritten
  BY <1>1, <1>2 DEF LogWritten, LogIsWritten, SessionWritten, SessionIsWritten
<1>3. CASE SessionDeleted \/ CorrectionStep \/ RetentionStep
  BY <1>1, <1>3 DEF SessionDeleted, DeleteSession, CorrectionStep, ApplyCorrections,
     RetentionStep, PruneEvents
<1>4. CASE StreamStep \/ Restart \/ AccessKept
  BY <1>1, <1>4 DEF StreamStep, IssueTicket, TicketExpires, Connect, Receive, Disconnect,
     Restart, AccessKept, storeVars
<1>5. ASSUME NEW users, AccessCut(users)
      PROVE  /\ u \in DOMAIN members'
             /\ members'[u] = members[u] \/ members'[u].version > members[u].version
  BY <1>5 DEF AccessCut
<1>6. ASSUME NEW x \in User, AccessGained(x)
      PROVE  /\ u \in DOMAIN members'
             /\ members'[u] = members[u] \/ members'[u].version > members[u].version
  BY <1>6, WrittenRowsAreLater DEF AccessGained
<1>7. ~SessionCreated
  BY DEF SessionCreated, CreateSession
<1>. QED
  BY <1>2, <1>3, <1>4, <1>5, <1>6, <1>7, StepAccess

-----------------------------------------------------------------------------
(* Tickets belong to one membership *)

\* A ticket is of a row of members as it once was.  While the row still has that
\* version the ticket says what it says, and its holder may read.
TicketFits(ticket) ==
    LET row == members[ticket.user] IN
    /\ session.status # "absent"
    /\ ticket.user \in DOMAIN members
    /\ ticket.version <= row.version
    /\ ticket.version = row.version =>
          /\ ~row.removed /\ row.role = ticket.role
          /\ session.status = "initializing" => row.role = "owner"
    /\ ticket.after <= session.seq

TicketInv == \A t \in DOMAIN tickets : TicketFits(tickets[t])

\* Where a ticket that is there after a step comes from.
LEMMA TicketsOfStep ==
    ASSUME TypeInv, OwnerInv, [Next]_vars, NEW t \in DOMAIN tickets'
    PROVE  \/ /\ t \in DOMAIN tickets
              /\ \/ tickets'[t] = tickets[t]
                 \/ tickets'[t] = [tickets[t] EXCEPT !.consumed = TRUE]
           \/ /\ t \notin DOMAIN tickets
              /\ UNCHANGED <<session, members>>
              /\ \E u \in User : /\ CanRead(u)
                                 /\ tickets'[t].user = u
                                 /\ tickets'[t].role = members[u].role
                                 /\ tickets'[t].version = members[u].version
              /\ tickets'[t].after \in session.minSeq..session.seq
<1>1. ASSUME NEW users, AccessCut(users)
      PROVE  t \in DOMAIN tickets /\ tickets'[t] = tickets[t]
  BY <1>1 DEF AccessCut
<1>2. ASSUME UNCHANGED tickets
      PROVE  t \in DOMAIN tickets /\ tickets'[t] = tickets[t]
  BY <1>2
<1>3. CASE \/ LogWritten \/ SessionWritten \/ SessionCreated \/ RetentionStep
           \/ CorrectionStep
  BY <1>2, <1>3 DEF LogWritten, LogIsWritten, PublishOnly, SessionWritten,
     SessionIsWritten, SessionCreated, CreateSession, RetentionStep, PruneEvents,
     CorrectionStep, ApplyCorrections, realtimeVars
<1>4. CASE SessionDeleted
  BY <1>4 DEF SessionDeleted, DeleteSession, NoRows
<1>5. CASE Restart \/ AccessKept \/ \E u \in User : AccessGained(u)
  BY <1>2, <1>5 DEF Restart, AccessKept, AccessGained, realtimeVars
<1>6. CASE StreamStep
  <2>1. ASSUME NEW u \in User, NEW x, NEW after, IssueTicket(u, x, after)
        PROVE  \/ t \in DOMAIN tickets /\ tickets'[t] = tickets[t]
               \/ /\ t \notin DOMAIN tickets
                  /\ UNCHANGED <<session, members>>
                  /\ CanRead(u) /\ tickets'[t].user = u
                  /\ tickets'[t].role = members[u].role
                  /\ tickets'[t].version = members[u].version
                  /\ tickets'[t].after \in session.minSeq..session.seq
    BY <2>1 DEF IssueTicket, Put, storeVars
  <2>2. ASSUME NEW x, TicketExpires(x)
        PROVE  t \in DOMAIN tickets /\ tickets'[t] = tickets[t]
    BY <2>2 DEF TicketExpires, Without, Restrict
  <2>3. ASSUME NEW x, NEW c, Connect(x, c)
        PROVE  /\ t \in DOMAIN tickets
               /\ \/ tickets'[t] = tickets[t]
                  \/ tickets'[t] = [tickets[t] EXCEPT !.consumed = TRUE]
    BY <2>3 DEF Connect, memberTicketIsActive
  <2>4. ASSUME NEW c, Receive(c) \/ Disconnect(c)
        PROVE  UNCHANGED tickets
    BY <2>4 DEF Receive, Disconnect
  <2>. QED
    BY <1>2, <1>6, <2>1, <2>2, <2>3, <2>4 DEF StreamStep
<1>. QED
  BY <1>1, <1>3, <1>4, <1>5, <1>6, StepAccess

\* Every kind of step keeps TicketInv.
LEMMA TicketsStep ==
    ASSUME TypeInv, OwnerInv, TicketInv, [Next]_vars
    PROVE  TicketInv'
<1>. SUFFICES ASSUME NEW t \in DOMAIN tickets'
              PROVE  TicketFits(tickets[t])'
  BY DEF TicketInv
<1>0. TypeInv'
  BY NextKeepsInv
<1>1. CASE /\ t \in DOMAIN tickets
           /\ \/ tickets'[t] = tickets[t]
              \/ tickets'[t] = [tickets[t] EXCEPT !.consumed = TRUE]
  <2>1. tickets[t] \in TicketRow
    BY <1>1, RowOfTable DEF TypeInv, TypeOK, RealtimeTypeOK
  <2>2. PICK u, v, role, after :
           /\ u = tickets[t].user /\ v = tickets[t].version
           /\ role = tickets[t].role /\ after = tickets[t].after
    OBVIOUS
  <2>3. /\ tickets'[t].user = u /\ tickets'[t].version = v
        /\ tickets'[t].role = role /\ tickets'[t].after = after
        /\ v \in Nat /\ after \in Nat
    BY <1>1, <2>1, <2>2 DEF TicketRow
  <2>4. /\ session.status # "absent" /\ u \in DOMAIN members
        /\ v <= members[u].version /\ after <= session.seq
        /\ v = members[u].version =>
              /\ ~members[u].removed /\ members[u].role = role
              /\ session.status = "initializing" => members[u].role = "owner"
    BY <1>1, <2>2 DEF TicketInv, TicketFits
  <2>5. /\ u \in DOMAIN members'
        /\ members'[u] = members[u] \/ members'[u].version > members[u].version
    BY <2>4, MembersAge
  <2>6. members[u].version \in Nat /\ members'[u].version \in Nat
    <3>1. members[u] \in MemberRow
      BY <2>4, RowOfTable DEF TypeInv, TypeOK, StoreTypeOK
    <3>2. members'[u] \in MemberRow
      BY <1>0, <2>5, RowOfTable DEF TypeInv, TypeOK, StoreTypeOK
    <3>. QED
      BY <3>1, <3>2 DEF MemberRow
  <2>7. after <= session'.seq
    BY <2>3, <2>4, SessionAges
  <2>8. v <= members'[u].version /\ (v = members'[u].version => members'[u] = members[u])
    BY <2>3, <2>4, <2>5, <2>6
  <2>. QED
    BY <2>3, <2>4, <2>5, <2>7, <2>8, SessionAges DEF TicketFits
<1>2. ASSUME UNCHANGED <<session, members>>,
             NEW u \in User, CanRead(u), tickets'[t].user = u,
             tickets'[t].role = members[u].role,
             tickets'[t].version = members[u].version,
             tickets'[t].after \in session.minSeq..session.seq
      PROVE  TicketFits(tickets[t])'
  <2>1. u \in DOMAIN members /\ ~members[u].removed /\ session.status # "absent"
        /\ (session.status = "initializing" => members[u].role = "owner")
    BY <1>2 DEF CanRead, RequireMembership, IsMember
  <2>2. members[u].version \in Nat
    <3>1. members[u] \in MemberRow
      BY <2>1, RowOfTable DEF TypeInv, TypeOK, StoreTypeOK
    <3>. QED
      BY <3>1 DEF MemberRow
  <2>3. tickets'[t].after <= session.seq
    BY <1>2
  <2>. QED
    BY <1>2, <2>1, <2>2, <2>3 DEF TicketFits
<1>. QED
  BY <1>1, <1>2, TicketsOfStep

\* TicketInv holds in every reachable state.
LEMMA TicketInvariant == Spec => []TicketInv
<1>1. Init => TicketInv
  BY DEF Init, RealtimeInit, NoRows, TicketInv
<1>2. TypeInv /\ OwnerInv /\ TicketInv /\ [Next]_vars => TicketInv'
  BY TicketsStep
<1>. QED
  BY <1>1, <1>2, TypeInvariant, OwnerInvariant, PTL DEF Spec

\* What TicketsAreNotRevived says of a step.
NothingRevived ==
    \A t \in DOMAIN tickets :
        memberTicketIsActive(t)' =>
            /\ memberTicketIsActive(t)
            /\ members'[tickets[t].user] = members[tickets[t].user]

\* A ticket admits its holder under the membership it was issued on and no other,
\* also when the process stopped between the commit that changed the membership
\* and the hub that withdraws the tickets (hub.revoke, hub.roleChanged).
THEOREM TicketsAreOfOneMembership == Spec => TicketsAreNotRevived
<1>1. TypeInv /\ OwnerInv /\ TicketInv /\ [Next]_vars => [NothingRevived]_vars
  <2>. SUFFICES ASSUME TypeInv, OwnerInv, TicketInv, Next,
                       NEW t \in DOMAIN tickets, memberTicketIsActive(t)'
                PROVE  /\ memberTicketIsActive(t)
                       /\ members'[tickets[t].user] = members[tickets[t].user]
    BY DEF NothingRevived
  <2>1. tickets[t] \in TicketRow
    BY RowOfTable DEF TypeInv, TypeOK, RealtimeTypeOK
  <2>2. PICK u, v, role : /\ u = tickets[t].user /\ v = tickets[t].version
                          /\ role = tickets[t].role
    OBVIOUS
  <2>3. /\ t \in DOMAIN tickets' /\ ~tickets'[t].consumed
        /\ tickets'[t] = tickets[t] \/ tickets'[t].consumed = TRUE
    <3>1. t \in DOMAIN tickets' /\ ~tickets'[t].consumed
      BY DEF memberTicketIsActive
    <3>2. tickets'[t] = tickets[t] \/ tickets'[t] = [tickets[t] EXCEPT !.consumed = TRUE]
      BY <3>1, TicketsOfStep
    <3>. QED
      BY <2>1, <3>1, <3>2 DEF TicketRow
  <2>4. tickets'[t] = tickets[t] /\ ~tickets[t].consumed
    BY <2>3
  <2>5. /\ session.status # "absent" /\ u \in DOMAIN members
        /\ v <= members[u].version
        /\ v = members[u].version =>
              /\ ~members[u].removed /\ members[u].role = role
              /\ session.status = "initializing" => members[u].role = "owner"
    BY <2>2 DEF TicketInv, TicketFits
  <2>6. /\ ~session'.deleted /\ members'[u].version = v
        /\ u \in DOMAIN members'
    BY <2>2, <2>4 DEF memberTicketIsActive, CanRead, RequireMembership, IsMember
  <2>7. members'[u] = members[u] \/ members'[u].version > members[u].version
    BY <2>5, MembersAge
  <2>8. v \in Nat /\ members[u] \in MemberRow /\ members[u].version \in Nat
    <3>1. members[u] \in MemberRow
      BY <2>5, RowOfTable DEF TypeInv, TypeOK, StoreTypeOK
    <3>. QED
      BY <2>1, <2>2, <3>1 DEF MemberRow, TicketRow
  <2>9. members'[u] = members[u] /\ v = members[u].version
    BY <2>5, <2>6, <2>7, <2>8
  <2>10. ~session.deleted /\ members[u].role \in Role
    BY <2>6, <2>8, SessionAges DEF MemberRow
  <2>11. CanRead(u)
    BY <2>5, <2>9, <2>10 DEF CanRead, RequireMembership, IsMember
  <2>12. memberTicketIsActive(t)
    BY <2>2, <2>4, <2>5, <2>9, <2>11 DEF memberTicketIsActive
  <2>. QED
    BY <2>2, <2>9, <2>12
<1>2. [][NothingRevived]_vars => TicketsAreNotRevived
  BY PTL DEF NothingRevived, TicketsAreNotRevived
<1>. QED
  BY <1>1, <1>2, TypeInvariant, OwnerInvariant, TicketInvariant, PTL DEF Spec

-----------------------------------------------------------------------------
(* Sockets *)

\* What a member may read stays readable while its row has the same role.
LEMMA ReadersStay ==
    ASSUME NEW u, CanRead(u), IsMember(u)', members'[u].role = members[u].role,
           session'.status \in {session.status, "active", "closed"},
           ~session'.deleted
    PROVE  CanRead(u)'
BY DEF CanRead, RequireMembership

\* Every member who is not cut off may still read after a step.
LEMMA ReadersKeepAccess ==
    ASSUME TypeInv, OwnerInv, [Next]_vars, ~SessionDeleted, NEW u \in User, CanRead(u),
           \A users : AccessCut(users) => u \notin users
    PROVE  CanRead(u)'
<1>1. u \in DOMAIN members
  BY DEF CanRead, RequireMembership, IsMember
<1>2. session.status # "absent" /\ ~session.deleted /\ IsMember(u) /\ session \in SessionRow
  BY SessionColumns DEF CanRead, RequireMembership
<1>3. ASSUME UNCHANGED members, session'.status \in {session.status, "active", "closed"},
             ~session'.deleted
      PROVE  CanRead(u)'
  BY <1>1, <1>2, <1>3, ReadersStay DEF IsMember
<1>4. CASE LogWritten
  <2>1. UNCHANGED members /\ session'.status = session.status /\ ~session'.deleted
    BY <1>2, <1>4 DEF LogWritten, LogIsWritten, AppendEvent, SessionRow
  <2>. QED
    BY <1>3, <2>1
<1>5. CASE SessionWritten
  <2>1. UNCHANGED members /\ session'.status \in {session.status, "active", "closed"}
        /\ ~session'.deleted
    BY <1>5 DEF SessionWritten, SessionIsWritten, WriteSession, AppendEvent, SessionRow
  <2>. QED
    BY <1>3, <2>1
<1>6. CASE RetentionStep \/ CorrectionStep
  <2>1. UNCHANGED members /\ session'.status = session.status /\ ~session'.deleted
    BY <1>2, <1>6 DEF RetentionStep, PruneEvents, CorrectionStep, ApplyCorrections,
       AppendRun, SessionRow
  <2>. QED
    BY <1>3, <2>1
<1>7. CASE StreamStep \/ Restart \/ AccessKept
  <2>1. SessionKept /\ UNCHANGED members
    BY <1>7 DEF StreamStep, IssueTicket, TicketExpires, Connect, Receive, Disconnect,
       Restart, AccessKept, storeVars, SessionKept
  <2>. QED
    BY <1>2, <1>3, <2>1 DEF SessionKept
<1>8. ASSUME NEW users, AccessCut(users)
      PROVE  CanRead(u)'
  <2>1. u \in DOMAIN members' /\ members'[u] = members[u]
    BY <1>1, <1>8 DEF AccessCut
  <2>2. session'.status = session.status /\ ~session'.deleted /\ IsMember(u)'
    BY <1>2, <1>8, <2>1 DEF AccessCut, SessionKept, IsMember
  <2>. QED
    BY <2>1, <2>2, ReadersStay
<1>9. ASSUME NEW x \in User, AccessGained(x)
      PROVE  CanRead(u)'
  <2>1. PICK role : members' = Joined(x, role) /\ (IsMember(x) => members[x].role = role)
    BY <1>9 DEF AccessGained
  <2>2. /\ u \in DOMAIN members' /\ ~members'[u].removed
        /\ members'[u].role = members[u].role
    <3>1. CASE x = u
      BY <1>1, <1>2, <2>1, <3>1 DEF Joined, Put
    <3>2. CASE x # u
      BY <1>1, <1>2, <2>1, <3>2 DEF Joined, Put, IsMember
    <3>. QED
      BY <3>1, <3>2
  <2>3. IsMember(u)'
    BY <2>2 DEF IsMember
  <2>. QED
    BY <1>2, <1>9, <2>2, <2>3, ReadersStay DEF AccessGained
<1>10. ~SessionCreated
  BY <1>2 DEF SessionCreated, CreateSession
<1>. QED
  BY <1>4, <1>5, <1>6, <1>7, <1>8, <1>9, <1>10, StepAccess

\* What happened before stays so: at most the oldest events went.
HistoryKept ==
    /\ session'.seq = session.seq
    /\ \A i \in DOMAIN events' : i \in DOMAIN events /\ events'[i] = events[i]

\* The socket c is as it was, has lost a message to its client, or is closed.
SocketKept(c) ==
    /\ HistoryKept
    /\ c \in DOMAIN conns
    /\ conns'[c].user = conns[c].user /\ conns'[c].cursor = conns[c].cursor
    /\ \/ conns'[c].wire = conns[c].wire
       \/ conns[c].wire # << >> /\ conns'[c].wire = Tail(conns[c].wire)
    /\ conns'[c].open => conns[c].open

\* The event e is appended and offered to the socket c.
SocketServed(c, e) ==
    /\ session'.seq = session.seq + 1
    /\ events' = Put(events, session.seq + 1, e)
    /\ c \in DOMAIN conns
    /\ \/ conns'[c] = deliver(conns[c], session.seq + 1, e)
       \/ conns'[c] = [deliver(conns[c], session.seq + 1, e) EXCEPT !.open = FALSE]

\* The events of run are appended and offered to the socket c.
SocketServedRun(c, run) ==
    /\ session'.seq = session.seq + Len(run)
    /\ DOMAIN events' = DOMAIN events \cup (session.seq + 1)..(session.seq + Len(run))
    /\ \A i \in 1..Len(run) : events'[session.seq + i] = run[i]
    /\ \A i \in DOMAIN events : i <= session.seq => events'[i] = events[i]
    /\ c \in DOMAIN conns
    /\ conns'[c] = deliverRun(conns[c], session.seq, run)

\* The socket c is opened with a ticket.
SocketOpened(c, t) ==
    /\ memberTicketIsActive(t)
    /\ conns'[c] = IF tickets[t].after < session.minSeq
                   THEN [user |-> tickets[t].user, cursor |-> tickets[t].after,
                         open |-> FALSE, wire |-> << >>]
                   ELSE Backlog(tickets[t].user, tickets[t].after)
    /\ UNCHANGED storeVars

\* A socket of the table has the type of one.
LEMMA SocketType ==
    ASSUME TypeInv, NEW c \in DOMAIN conns
    PROVE  conns[c] \in ConnRow /\ c \in Conn
BY RowOfTable DEF TypeInv, TypeOK, RealtimeTypeOK

\* The history after the events of run were appended.
LEMMA RunIsAppended ==
    ASSUME TypeInv, NEW run \in Seq(Event), AppendRun(run)
    PROVE  /\ session'.seq = session.seq + Len(run)
           /\ DOMAIN events' = DOMAIN events \cup (session.seq + 1)..(session.seq + Len(run))
           /\ \A i \in 1..Len(run) : events'[session.seq + i] = run[i]
           /\ \A i \in DOMAIN events : i <= session.seq => events'[i] = events[i]
<1>. DEFINE n == Len(run)
            added == [i \in (session.seq + 1)..(session.seq + n) |-> run[i - session.seq]]
<1>1. session \in SessionRow /\ session.seq \in Nat /\ n \in Nat
  BY SessionColumns, LenProperties
<1>2. session' = [session EXCEPT !.seq = @ + n] /\ events' = PutAll(events, added)
  BY DEF AppendRun
<1>3. DOMAIN added = (session.seq + 1)..(session.seq + n)
  OBVIOUS
<1>4. \A i \in 1..n : session.seq + i \in DOMAIN added /\ added[session.seq + i] = run[i]
  <2>1. ASSUME NEW i \in 1..n
        PROVE  session.seq + i \in DOMAIN added /\ added[session.seq + i] = run[i]
    <3>. DEFINE x == session.seq + i
    <3>1. x \in (session.seq + 1)..(session.seq + n) /\ x - session.seq = i
      BY <1>1
    <3>. HIDE DEF x, n
    <3>2. x \in DOMAIN added /\ added[x] = run[i]
      BY <3>1
    <3>. QED
      BY <3>2 DEF x
  <2>. QED
    BY <2>1
<1>. HIDE DEF added, n
<1>5. /\ DOMAIN events' = DOMAIN events \cup DOMAIN added
      /\ \A i \in DOMAIN added : events'[i] = added[i]
      /\ \A i \in DOMAIN events \ DOMAIN added : events'[i] = events[i]
  <2>1. events' = PutAll(events, added)
    BY <1>2
  <2>. QED
    BY <2>1 DEF PutAll
<1>6. \A i \in DOMAIN events : i <= session.seq => i \notin DOMAIN added
  BY <1>1, <1>3
<1>7. session'.seq = session.seq + n
  BY <1>1, <1>2 DEF SessionRow
<1>. QED
  BY <1>3, <1>4, <1>5, <1>6, <1>7 DEF n

\* Every step, by what it does to a socket.
LEMMA SocketOfStep ==
    ASSUME TypeInv, OwnerInv, [Next]_vars, NEW c \in DOMAIN conns'
    PROVE  \/ SocketKept(c)
           \/ \E e \in Event : SocketServed(c, e)
           \/ \E run \in Seq(Event) : run # << >> /\ SocketServedRun(c, run)
           \/ \E t \in DOMAIN tickets : SocketOpened(c, t)
<1>0. session \in SessionRow /\ session.seq + 1 \in Nat
  BY SessionColumns DEF SessionRow
<1>1. ASSUME UNCHANGED conns, HistoryKept
      PROVE  SocketKept(c)
  BY <1>1 DEF SocketKept
<1>2. ASSUME UNCHANGED <<session, events>>
      PROVE  HistoryKept
  BY <1>2 DEF HistoryKept
<1>3. CASE LogWritten
  <2>1. PICK l \in Log, row \in LogRow, type \in EventType, m \in MutationId :
           LogIsWritten(l, row, type, m)
    BY <1>3 DEF LogWritten
  <2>2. PICK e : e = EventOf(type, l, row, m)
    OBVIOUS
  <2>3. e \in Event
    BY <2>2, EventOfType
  <2>4. SocketServed(c, e)
    BY <1>0, <2>1, <2>2 DEF LogIsWritten, AppendEvent, PublishOnly, publish, SessionRow,
       SocketServed
  <2>. QED
    BY <2>3, <2>4
<1>4. CASE SessionWritten
  <2>1. PICK row \in SessionRow, n \in Nat, type \in EventType,
             m \in MutationId \cup {NoMutation} : SessionIsWritten(row, n, type, m)
    BY <1>4 DEF SessionWritten
  <2>2. PICK e : e = EventOf(type, SessionId, SessionBodyOf(row, n), m)
    OBVIOUS
  <2>3. e \in Event
    BY <2>2, EventOfType, SessionBodyType
  <2>4. SocketServed(c, e)
    BY <1>0, <2>1, <2>2 DEF SessionIsWritten, WriteSession, Published, AppendEvent, publish,
       SessionRow, SocketServed
  <2>. QED
    BY <2>3, <2>4
<1>5. CASE SessionDeleted
  <2>1. PICK row, e, m :
           /\ m \in MutationId
           /\ row = [session EXCEPT !.deleted = TRUE, !.version = @ + 1]
           /\ e = EventOf("session.deleted", SessionId, SessionBodyOf(row, 0), m)
           /\ AppendEvent(row, e)
           /\ conns' = Closed(publish(conns, session.seq + 1, e), User)
    BY <1>5 DEF SessionDeleted, DeleteSession, WriteSession, Published
  <2>2. row \in SessionRow /\ row.seq = session.seq
    BY <2>1, NextSessionRow
  <2>3. e \in Event
    BY <2>1, <2>2, EventOfType, SessionBodyType DEF EventType
  <2>4. /\ session'.seq = session.seq + 1
        /\ events' = Put(events, session.seq + 1, e)
    BY <1>0, <2>1, <2>2 DEF AppendEvent, SessionRow
  <2>5. IsTable(publish(conns, session.seq + 1, e), Conn, ConnRow)
    BY <1>0, <2>3, PublishType DEF TypeInv
  <2>6. c \in DOMAIN conns /\ publish(conns, session.seq + 1, e)[c] =
                                 deliver(conns[c], session.seq + 1, e)
    BY <2>1 DEF Closed, publish
  <2>7. \/ conns'[c] = deliver(conns[c], session.seq + 1, e)
        \/ conns'[c] = [deliver(conns[c], session.seq + 1, e) EXCEPT !.open = FALSE]
    BY <2>1, <2>6 DEF Closed
  <2>8. SocketServed(c, e)
    BY <2>4, <2>6, <2>7 DEF SocketServed
  <2>. QED
    BY <2>3, <2>8
<1>6. CASE SessionCreated
  <2>1. HistoryKept /\ UNCHANGED conns
    BY <1>0, <1>6 DEF SessionCreated, CreateSession, HistoryKept, SessionRow, realtimeVars
  <2>. QED
    BY <1>1, <2>1
<1>7. CASE RetentionStep
  <2>1. HistoryKept /\ UNCHANGED conns
    BY <1>0, <1>7 DEF RetentionStep, PruneEvents, HistoryKept, Without, Restrict, SessionRow,
       realtimeVars
  <2>. QED
    BY <1>1, <2>1
<1>8. CASE AccessKept \/ \E u \in User : AccessGained(u)
  <2>1. HistoryKept /\ UNCHANGED conns
    BY <1>8 DEF AccessKept, AccessGained, SessionKept, HistoryKept, realtimeVars
  <2>. QED
    BY <1>1, <2>1
<1>9. ASSUME NEW users, AccessCut(users)
      PROVE  SocketKept(c)
  <2>1. conns' = Closed(conns, users)
    BY <1>9 DEF AccessCut, NoRows
  <2>2. c \in DOMAIN conns
    BY <2>1 DEF Closed
  <2>3. conns[c] \in ConnRow
    BY <2>2, SocketType
  <2>4. \/ conns'[c] = conns[c]
        \/ conns'[c] = [conns[c] EXCEPT !.open = FALSE]
    BY <2>1, <2>2 DEF Closed
  <2>5. HistoryKept
    BY <1>9 DEF AccessCut, SessionKept, HistoryKept
  <2>. QED
    BY <2>2, <2>3, <2>4, <2>5 DEF SocketKept, ConnRow
<1>10. CASE Restart
  BY <1>10 DEF Restart, NoRows
<1>11. CASE StreamStep
  <2>1. ASSUME (\E u, t, after : IssueTicket(u, t, after)) \/ (\E t : TicketExpires(t))
        PROVE  SocketKept(c)
    BY <1>1, <1>2, <2>1 DEF IssueTicket, TicketExpires, storeVars
  <2>2. ASSUME NEW t, NEW x, Connect(t, x)
        PROVE  SocketKept(c) \/ \E s \in DOMAIN tickets : SocketOpened(c, s)
    <3>1. t \in DOMAIN tickets
      BY <2>2 DEF Connect, memberTicketIsActive
    <3>2. CASE c = x
      BY <2>2, <3>1, <3>2 DEF Connect, Put, SocketOpened
    <3>3. CASE c # x
      <4>1. c \in DOMAIN conns /\ conns'[c] = conns[c]
        BY <2>2, <3>3 DEF Connect, Put
      <4>. QED
        BY <1>2, <2>2, <4>1 DEF Connect, storeVars, SocketKept
    <3>. QED
      BY <3>2, <3>3
  <2>3. ASSUME NEW x, Receive(x)
        PROVE  SocketKept(c)
    <3>1. x \in DOMAIN conns /\ conns[x].wire # << >>
          /\ conns' = [conns EXCEPT ![x].wire = Tail(@)]
      BY <2>3 DEF Receive
    <3>2. c \in DOMAIN conns /\ conns[x] \in ConnRow
      BY <3>1, SocketType
    <3>3. HistoryKept
      BY <1>2, <2>3 DEF Receive, storeVars
    <3>. QED
      BY <3>1, <3>2, <3>3 DEF SocketKept, ConnRow
  <2>4. ASSUME NEW x, Disconnect(x)
        PROVE  SocketKept(c)
    BY <1>2, <2>4 DEF Disconnect, storeVars, Without, Restrict, SocketKept
  <2>. QED
    BY <1>11, <2>1, <2>2, <2>3, <2>4 DEF StreamStep
<1>12. CASE CorrectionStep
  <2>1. PICK u \in User, corrections \in Selections, m \in MutationId :
            ApplyCorrections(u, corrections, m)
    BY <1>12 DEF CorrectionStep
  <2>2. PICK run : run = CorrectionEvents(corrections, m)
    OBVIOUS
  <2>3. run \in Seq(Event) /\ Len(run) \in Nat \ {0}
    BY <2>1, <2>2, CorrectionsType DEF ApplyCorrections
  <2>4. AppendRun(run) /\ conns' = publishRun(conns, session.seq, run)
    BY <2>1, <2>2 DEF ApplyCorrections
  <2>5. c \in DOMAIN conns /\ conns'[c] = deliverRun(conns[c], session.seq, run)
    BY <2>4 DEF publishRun
  <2>6. SocketServedRun(c, run)
    BY <2>3, <2>4, <2>5, RunIsAppended DEF SocketServedRun
  <2>7. run # << >>
    BY <2>3
  <2>. QED
    BY <2>3, <2>6, <2>7
<1>. QED
  BY <1>3, <1>4, <1>5, <1>6, <1>7, <1>8, <1>9, <1>10, <1>11, <1>12, StepAccess

\* k of the events of run were sent to a socket.
SentSome(conn, seq, run, new, k) ==
    /\ conn.cursor >= seq /\ conn.cursor + k <= seq + Len(run)
    /\ new.cursor = conn.cursor + k
    /\ new.wire = conn.wire \o [i \in 1..k |-> [seq |-> conn.cursor + i,
                                               event |-> run[conn.cursor + i - seq]]]

\* Offering a run of events does the same: what was sent ends where it did or
\* with one of them.
LEMMA RunDelivery ==
    ASSUME NEW conn \in ConnRow, NEW seq \in Nat, NEW run \in Seq(Event),
           NEW new, new = deliverRun(conn, seq, run)
    PROVE  /\ new \in ConnRow
           /\ new.user = conn.user
           /\ new.open => conn.open /\ seq + Len(run) <= new.cursor
           /\ \/ new.cursor = conn.cursor /\ new.wire = conn.wire
              \/ \E k \in Nat : SentSome(conn, seq, run, new, k)
<1>. DEFINE last == seq + Len(run)
            missing == last - conn.cursor
            room == MaxBuffered + 1 - Len(conn.wire)
            sent == IF missing <= room THEN missing ELSE IF room > 0 THEN room ELSE 0
            more == [i \in 1..sent |-> [seq |-> conn.cursor + i,
                                        event |-> run[conn.cursor + i - seq]]]
<1>1. new \in ConnRow
  BY DeliverRunType
<1>2. conn.wire \in Seq([seq : Nat, event : Event]) /\ conn.cursor \in Nat
  BY DEF ConnRow
<1>3. Len(run) \in Nat /\ Len(conn.wire) \in Nat /\ MaxBuffered \in Nat
  BY <1>2, LenProperties, RealtimeAssumption
<1>4. CASE ~conn.open \/ last <= conn.cursor
  <2>1. new = conn
    BY <1>4 DEF deliverRun
  <2>. QED
    BY <1>1, <1>4, <2>1 DEF ConnRow
<1>5. CASE conn.open /\ last > conn.cursor /\ conn.cursor < seq
  <2>1. new = [conn EXCEPT !.open = FALSE]
    BY <1>2, <1>3, <1>5 DEF deliverRun
  <2>. QED
    BY <1>1, <2>1 DEF ConnRow
<1>6. CASE conn.open /\ last > conn.cursor /\ conn.cursor >= seq
  <2>1. sent \in Nat /\ sent <= missing
    <3>1. missing \in Nat /\ room \in Int
      BY <1>2, <1>3, <1>6
    <3>. HIDE DEF missing, room
    <3>. QED
      BY <3>1
  <2>2. new = [conn EXCEPT !.cursor = conn.cursor + sent, !.open = (sent = missing),
                           !.wire = conn.wire \o more]
    BY <1>2, <1>3, <1>6 DEF deliverRun
  <2>3. PICK b \in BOOLEAN : b <=> sent = missing
    OBVIOUS
  <2>4. conn.cursor + sent <= last /\ (b => conn.cursor + sent = last)
    <3>. HIDE DEF sent
    <3>. QED
      BY <1>2, <1>3, <2>1, <2>3
  <2>. HIDE DEF more, sent, missing
  <2>5. b = (sent = missing)
    BY <2>3, Zenon
  <2>6. new = [conn EXCEPT !.cursor = conn.cursor + sent, !.open = b,
                           !.wire = conn.wire \o more]
    BY <2>2, <2>5, Zenon
  <2>7. /\ new.user = conn.user /\ new.cursor = conn.cursor + sent /\ new.open = b
        /\ new.wire = conn.wire \o more
    BY <2>6 DEF ConnRow
  <2>8. new.open => conn.open /\ seq + Len(run) <= new.cursor
    BY <1>2, <1>3, <1>6, <2>1, <2>4, <2>7
  <2>9. SentSome(conn, seq, run, new, sent)
    BY <1>6, <2>4, <2>7 DEF more, SentSome
  <2>. QED
    BY <1>1, <2>1, <2>7, <2>8, <2>9
<1>. QED
  BY <1>2, <1>3, <1>4, <1>5, <1>6

\* Offering an event to a socket leaves it with its user; if it is open then, it
\* was open, and what was sent to it ends where it did or with the event.
LEMMA Delivery ==
    ASSUME NEW conn \in ConnRow, NEW seq \in Nat, NEW e \in Event
    PROVE  /\ deliver(conn, seq, e) \in ConnRow
           /\ deliver(conn, seq, e).user = conn.user
           /\ deliver(conn, seq, e).open => conn.open /\ seq <= deliver(conn, seq, e).cursor
           /\ \/ /\ deliver(conn, seq, e).cursor = conn.cursor
                 /\ deliver(conn, seq, e).wire = conn.wire
              \/ /\ conn.cursor + 1 = seq
                 /\ deliver(conn, seq, e).cursor = seq
                 /\ deliver(conn, seq, e).wire = Append(conn.wire, [seq |-> seq, event |-> e])
<1>1. deliver(conn, seq, e) \in ConnRow
  BY DeliverType
<1>2. CASE ~conn.open \/ seq <= conn.cursor
  BY <1>1, <1>2 DEF deliver, ConnRow
<1>3. CASE conn.open /\ seq > conn.cursor /\ seq # conn.cursor + 1
  BY <1>1, <1>3 DEF deliver, ConnRow
<1>4. CASE conn.open /\ seq = conn.cursor + 1
  <2>1. deliver(conn, seq, e) = send(conn, seq, e)
    BY <1>4 DEF deliver, ConnRow
  <2>2. CASE Len(conn.wire) > MaxBuffered
    BY <1>1, <1>4, <2>1, <2>2 DEF send, ConnRow
  <2>3. CASE ~(Len(conn.wire) > MaxBuffered)
    <3>1. deliver(conn, seq, e) = [user |-> conn.user, cursor |-> seq, open |-> conn.open,
                                   wire |-> Append(conn.wire, [seq |-> seq, event |-> e])]
      BY <2>1, <2>3 DEF send, ConnRow
    <3>. QED
      BY <1>1, <1>4, <3>1 DEF ConnRow
  <2>. QED
    BY <2>2, <2>3
<1>. QED
  BY <1>2, <1>3, <1>4 DEF ConnRow

\* Every kind of step keeps OpenSocketsAreCurrent.
LEMMA OpenSocketsStep ==
    ASSUME TypeInv, OwnerInv, OpenSocketsAreCurrent, [Next]_vars
    PROVE  OpenSocketsAreCurrent'
<1>. SUFFICES ASSUME NEW c \in DOMAIN conns', conns'[c].open
              PROVE  conns'[c].cursor = session'.seq /\ CanRead(conns[c].user)'
  BY DEF OpenSocketsAreCurrent
<1>0. session.seq \in Nat /\ session'.seq \in Nat
  BY NextKeepsInv DEF TypeInv, TypeOK, StoreTypeOK, SessionRow
<1>1. ASSUME c \in DOMAIN conns, conns[c].open, conns'[c].user = conns[c].user
      PROVE  CanRead(conns[c].user)'
  <2>1. PICK u : u = conns[c].user
    OBVIOUS
  <2>2. u \in User
    BY <1>1, <2>1, SocketType DEF ConnRow
  <2>3. CanRead(u)
    BY <1>1, <2>1 DEF OpenSocketsAreCurrent
  <2>4. ~SessionDeleted
    <3>1. SUFFICES ASSUME NEW table, conns' = Closed(table, User) PROVE FALSE
      BY DEF SessionDeleted, DeleteSession
    <3>2. c \in DOMAIN table /\ conns'[c] = (IF table[c].user \in User
             THEN [table[c] EXCEPT !.open = FALSE] ELSE table[c])
      BY <3>1 DEF Closed
    <3>3. conns'[c] \in ConnRow
      BY NextKeepsInv, RowOfTable DEF TypeInv, TypeOK, RealtimeTypeOK, IsTable
    <3>. QED
      BY <1>1, <3>2, <3>3 DEF ConnRow
  <2>5. ASSUME NEW users, AccessCut(users)
        PROVE  u \notin users
    BY <1>1, <2>1, <2>5, SocketType DEF AccessCut, Closed, NoRows, ConnRow
  <2>6. CanRead(u)'
    BY <2>2, <2>3, <2>4, <2>5, ReadersKeepAccess
  <2>. QED
    BY <1>1, <2>1, <2>6
<1>2. CASE SocketKept(c)
  BY <1>1, <1>2 DEF SocketKept, HistoryKept, OpenSocketsAreCurrent
<1>3. ASSUME NEW e \in Event, SocketServed(c, e)
      PROVE  conns'[c].cursor = session'.seq /\ CanRead(conns[c].user)'
  <2>1. c \in DOMAIN conns /\ conns[c] \in ConnRow /\ session'.seq = session.seq + 1
    BY <1>3, SocketType DEF SocketServed
  <2>2. PICK conn : conn = deliver(conns[c], session.seq + 1, e)
    OBVIOUS
  <2>x. session.seq + 1 \in Nat
    BY <1>0
  <2>3. conn \in ConnRow /\ conn.user = conns[c].user
        /\ (conn.open => conns[c].open /\ session.seq + 1 <= conn.cursor)
        /\ (conn.cursor = conns[c].cursor \/ conn.cursor = session.seq + 1)
    BY <2>1, <2>2, <2>x, Delivery
  <2>4. conns'[c] = conn
    BY <1>3, <2>2, <2>3 DEF SocketServed, ConnRow
  <2>5. conns[c].open /\ conns[c].cursor = session.seq
    BY <2>1, <2>3, <2>4 DEF OpenSocketsAreCurrent
  <2>6. conns'[c].cursor = session'.seq
    BY <1>0, <2>1, <2>3, <2>4, <2>5
  <2>. QED
    BY <1>1, <2>1, <2>3, <2>4, <2>5, <2>6
<1>4. ASSUME NEW t \in DOMAIN tickets, SocketOpened(c, t)
      PROVE  conns'[c].cursor = session'.seq /\ CanRead(conns[c].user)'
  <2>1. PICK u, after : u = tickets[t].user /\ after = tickets[t].after
    OBVIOUS
  <2>2. CanRead(u) /\ after \in Nat
    <3>1. tickets[t] \in TicketRow
      BY RowOfTable DEF TypeInv, TypeOK, RealtimeTypeOK
    <3>. QED
      BY <1>4, <2>1, <3>1 DEF SocketOpened, memberTicketIsActive, TicketRow
  <2>3. conns'[c] = Backlog(u, after)
    BY <1>4, <2>1 DEF SocketOpened
  <2>4. conns'[c].user = u /\ conns'[c].cursor = session.seq
    <3>1. PICK missing, sent :
             /\ missing = session.seq - after
             /\ sent = IF missing <= MaxBuffered + 1 THEN missing ELSE MaxBuffered + 1
      OBVIOUS
    <3>2. Backlog(u, after) = [user |-> u, cursor |-> after + sent, open |-> sent = missing,
                               wire |-> [i \in 1..sent |-> [seq |-> after + i,
                                                            event |-> events[after + i]]]]
      BY <3>1 DEF Backlog
    <3>3. conns'[c].user = u /\ conns'[c].cursor = after + sent
      BY <2>3, <3>2
    <3>4. conns'[c].open => sent = missing
      <4>1. PICK b \in BOOLEAN : b <=> sent = missing
        OBVIOUS
      <4>2. b = (sent = missing)
        BY <4>1, Zenon
      <4>3. Backlog(u, after) = [user |-> u, cursor |-> after + sent, open |-> b,
                                 wire |-> [i \in 1..sent |-> [seq |-> after + i,
                                                              event |-> events[after + i]]]]
        BY <3>2, <4>2, Zenon
      <4>4. conns'[c].open = b
        BY <2>3, <4>3
      <4>. QED
        BY <4>1, <4>4
    <3>. QED
      BY <1>0, <2>2, <3>1, <3>3, <3>4
  <2>5. CanRead(u)'
    BY <1>4, <2>2 DEF SocketOpened, storeVars, CanRead, RequireMembership, IsMember
  <2>. QED
    BY <1>4, <2>4, <2>5 DEF SocketOpened, storeVars
<1>5. ASSUME NEW run \in Seq(Event), SocketServedRun(c, run)
      PROVE  conns'[c].cursor = session'.seq /\ CanRead(conns[c].user)'
  <2>1. c \in DOMAIN conns /\ conns[c] \in ConnRow
    BY <1>5, SocketType DEF SocketServedRun
  <2>2. /\ session'.seq = session.seq + Len(run) /\ Len(run) \in Nat
        /\ conns'[c] = deliverRun(conns[c], session.seq, run)
    BY <1>5, LenProperties DEF SocketServedRun
  <2>3. PICK old, new : old = conns[c] /\ new = conns'[c]
    OBVIOUS
  <2>4. /\ new \in ConnRow /\ new.user = old.user
        /\ new.open => old.open /\ session.seq + Len(run) <= new.cursor
        /\ \/ new.cursor = old.cursor
           \/ new.cursor <= session.seq + Len(run)
    <3>1. PICK n : n = session.seq
      OBVIOUS
    <3>2. old \in ConnRow /\ n \in Nat /\ new = deliverRun(old, n, run)
      BY <1>0, <2>1, <2>2, <2>3, <3>1
    <3>3. /\ new \in ConnRow /\ new.user = old.user
          /\ new.open => old.open /\ n + Len(run) <= new.cursor
          /\ \/ new.cursor = old.cursor
             \/ \E k \in Nat : SentSome(old, n, run, new, k)
      BY <3>2, RunDelivery
    <3>. QED
      BY <3>1, <3>3 DEF SentSome
  <2>5. old.open /\ old.cursor = session.seq
    <3>1. new.open
      BY <2>3
    <3>2. conns[c].open
      BY <2>3, <2>4, <3>1
    <3>3. conns[c].cursor = session.seq
      BY <2>1, <3>2 DEF OpenSocketsAreCurrent
    <3>. QED
      BY <2>3, <3>2, <3>3
  <2>6. new.cursor = session'.seq
    <3>1. new.open /\ new.cursor \in Nat
      BY <2>3, <2>4 DEF ConnRow
    <3>2. /\ session'.seq = session.seq + Len(run) /\ Len(run) \in Nat
          /\ session.seq + Len(run) <= new.cursor
          /\ new.cursor = old.cursor \/ new.cursor <= session.seq + Len(run)
      BY <2>2, <2>4, <3>1
    <3>. QED
      BY <1>0, <2>5, <3>1, <3>2
  <2>. QED
    BY <1>1, <2>1, <2>3, <2>4, <2>5, <2>6
<1>. QED
  BY <1>2, <1>3, <1>4, <1>5, SocketOfStep

\* An open socket has been sent everything up to event_seq and belongs to
\* somebody who may read the Session (publish, revoke, roleChanged).
THEOREM SocketsAreCurrent == Spec => []OpenSocketsAreCurrent
<1>1. Init => OpenSocketsAreCurrent
  BY DEF Init, RealtimeInit, NoRows, OpenSocketsAreCurrent
<1>2. TypeInv /\ OwnerInv /\ OpenSocketsAreCurrent /\ [Next]_vars => OpenSocketsAreCurrent'
  BY OpenSocketsStep
<1>. QED
  BY <1>1, <1>2, TypeInvariant, OwnerInvariant, PTL DEF Spec

-----------------------------------------------------------------------------
(* What is in flight *)

\* conn has been sent a gapless run of the history `log` that ends at its cursor.
Gapless(conn, log) ==
    \A i \in DOMAIN conn.wire :
        /\ conn.wire[i].seq = conn.cursor - Len(conn.wire) + i
        /\ conn.wire[i].seq \in DOMAIN log => conn.wire[i].event = log[conn.wire[i].seq]

\* No socket is ahead of the history: the event that is appended next is in flight
\* to nobody.
WireInv ==
    \A c \in DOMAIN conns : conns[c].cursor <= session.seq /\ Gapless(conns[c], events)

\* A socket that only lost messages or was closed, in a history that only lost
\* events.
LEMMA KeptIsGapless ==
    ASSUME TypeInv, NEW c, SocketKept(c), Gapless(conns[c], events)
    PROVE  Gapless(conns[c], events)'
<1>1. c \in DOMAIN conns /\ conns[c] \in ConnRow
  BY SocketType DEF SocketKept
<1>2. PICK conn, next : conn = conns[c] /\ next = conns'[c]
  OBVIOUS
<1>3. conn.wire \in Seq([seq : Nat, event : Event]) /\ conn.cursor \in Nat
  BY <1>1, <1>2 DEF ConnRow
<1>4. next.cursor = conn.cursor
  BY <1>2 DEF SocketKept
<1>5. ASSUME NEW i, NEW n, conn.wire[i].seq = n,
             n \in DOMAIN events => conn.wire[i].event = events[n], n \in DOMAIN events'
      PROVE  conn.wire[i].event = events'[n]
  BY <1>5 DEF SocketKept, HistoryKept
<1>6. CASE next.wire = conn.wire
  BY <1>2, <1>4, <1>5, <1>6 DEF Gapless
<1>7. CASE conn.wire # << >> /\ next.wire = Tail(conn.wire)
  <2>1. /\ Len(conn.wire) \in Nat \ {0} /\ Len(next.wire) = Len(conn.wire) - 1
        /\ DOMAIN next.wire = 1..(Len(conn.wire) - 1)
        /\ DOMAIN conn.wire = 1..Len(conn.wire)
    BY <1>3, <1>7
  <2>2. ASSUME NEW i \in DOMAIN next.wire
        PROVE  /\ i + 1 \in DOMAIN conn.wire /\ next.wire[i] = conn.wire[i + 1]
    BY <1>3, <1>7, <2>1
  <2>3. ASSUME NEW i \in DOMAIN next.wire
        PROVE  /\ next.wire[i].seq = next.cursor - Len(next.wire) + i
               /\ next.wire[i].seq \in DOMAIN events' =>
                     next.wire[i].event = events'[next.wire[i].seq]
    <3>1. /\ conn.wire[i + 1].seq = conn.cursor - Len(conn.wire) + (i + 1)
          /\ conn.wire[i + 1].seq \in DOMAIN events =>
                conn.wire[i + 1].event = events[conn.wire[i + 1].seq]
      BY <1>2, <2>2 DEF Gapless
    <3>2. conn.wire[i + 1].seq \in DOMAIN events' =>
             conn.wire[i + 1].event = events'[conn.wire[i + 1].seq]
      BY <1>5, <3>1
    <3>3. next.wire[i].seq = next.cursor - Len(next.wire) + i
      <4>1. PICK k, cur : k = Len(conn.wire) /\ cur = conn.cursor
        OBVIOUS
      <4>2. i \in Int /\ k \in Int /\ cur \in Int
        BY <1>3, <2>1, <4>1
      <4>3. cur - k + (i + 1) = cur - (k - 1) + i
        BY <4>2
      <4>. QED
        BY <1>4, <2>1, <2>2, <3>1, <4>1, <4>3
    <3>. QED
      BY <2>2, <3>2, <3>3
  <2>. QED
    BY <1>2, <2>3 DEF Gapless
<1>. QED
  BY <1>2, <1>6, <1>7 DEF SocketKept

\* A socket to which the event just appended was offered.
LEMMA ServedIsGapless ==
    ASSUME TypeInv, NEW c, NEW e \in Event, SocketServed(c, e), conns[c].cursor <= session.seq,
           Gapless(conns[c], events)
    PROVE  conns'[c].cursor <= session'.seq /\ Gapless(conns[c], events)'
<1>1. c \in DOMAIN conns /\ conns[c] \in ConnRow /\ session.seq \in Nat
      /\ session'.seq = session.seq + 1
  BY SocketType, SessionColumns DEF SocketServed
<1>2. PICK conn, n, new : conn = conns[c] /\ n = session.seq + 1 /\ new = deliver(conn, n, e)
  OBVIOUS
<1>3. n \in Nat
  BY <1>1, <1>2
<1>4. /\ new \in ConnRow
      /\ \/ new.cursor = conn.cursor /\ new.wire = conn.wire
         \/ /\ conn.cursor + 1 = n /\ new.cursor = n
            /\ new.wire = Append(conn.wire, [seq |-> n, event |-> e])
  BY <1>1, <1>2, <1>3, Delivery
<1>5. conns'[c].cursor = new.cursor /\ conns'[c].wire = new.wire
  BY <1>2, <1>4 DEF SocketServed, ConnRow
<1>6. /\ conn.wire \in Seq([seq : Nat, event : Event]) /\ conn.cursor \in Nat
      /\ Len(conn.wire) \in Nat /\ DOMAIN conn.wire = 1..Len(conn.wire)
  BY <1>1, <1>2 DEF ConnRow
<1>7. DOMAIN events' = DOMAIN events \cup {n} /\ events'[n] = e
      /\ \A x \in DOMAIN events \ {n} : events'[x] = events[x]
  BY <1>2 DEF SocketServed, Put
<1>8. ASSUME NEW i \in DOMAIN conn.wire
      PROVE  /\ conn.wire[i].seq = conn.cursor - Len(conn.wire) + i
             /\ conn.wire[i].seq \in DOMAIN events' =>
                   conn.wire[i].event = events'[conn.wire[i].seq]
  <2>1. /\ conn.wire[i].seq = conn.cursor - Len(conn.wire) + i
        /\ conn.wire[i].seq \in DOMAIN events =>
              conn.wire[i].event = events[conn.wire[i].seq]
    BY <1>2 DEF Gapless
  <2>2. conn.wire[i].seq # n
    BY <1>1, <1>2, <1>6, <2>1
  <2>. QED
    BY <1>7, <2>1, <2>2
<1>9. CASE new.cursor = conn.cursor /\ new.wire = conn.wire
  <2>1. conns'[c].cursor = conn.cursor /\ conns'[c].wire = conn.wire
    BY <1>5, <1>9
  <2>2. Gapless(conns[c], events)'
    BY <1>8, <2>1 DEF Gapless
  <2>. QED
    BY <1>1, <1>2, <1>6, <2>1, <2>2
<1>10. CASE /\ conn.cursor + 1 = n /\ new.cursor = n
            /\ new.wire = Append(conn.wire, [seq |-> n, event |-> e])
  <2>1. /\ Len(new.wire) = Len(conn.wire) + 1
        /\ DOMAIN new.wire = 1..(Len(conn.wire) + 1)
        /\ new.wire[Len(conn.wire) + 1] = [seq |-> n, event |-> e]
        /\ \A i \in DOMAIN conn.wire : new.wire[i] = conn.wire[i]
    <3>. DEFINE msg == [seq |-> n, event |-> e]
    <3>1. msg \in [seq : Nat, event : Event] /\ new.wire = Append(conn.wire, msg)
      BY <1>3, <1>10
    <3>. HIDE DEF msg
    <3>2. /\ Len(new.wire) = Len(conn.wire) + 1
          /\ DOMAIN new.wire = 1..(Len(conn.wire) + 1)
          /\ new.wire[Len(conn.wire) + 1] = msg
          /\ \A i \in DOMAIN conn.wire : new.wire[i] = conn.wire[i]
      BY <1>6, <3>1
    <3>. QED
      BY <3>2 DEF msg
  <2>2. ASSUME NEW i \in DOMAIN new.wire
        PROVE  /\ new.wire[i].seq = new.cursor - Len(new.wire) + i
               /\ new.wire[i].seq \in DOMAIN events' =>
                     new.wire[i].event = events'[new.wire[i].seq]
    <3>1. CASE i = Len(conn.wire) + 1
      <4>1. new.wire[i].seq = n /\ new.wire[i].event = e
        BY <2>1, <3>1
      <4>. QED
        BY <1>3, <1>6, <1>7, <1>10, <2>1, <3>1, <4>1
    <3>2. CASE i \in DOMAIN conn.wire
      <4>1. new.wire[i] = conn.wire[i]
        BY <2>1, <3>2
      <4>2. new.wire[i].seq = new.cursor - Len(new.wire) + i
        BY <1>3, <1>6, <1>8, <1>10, <2>1, <3>2, <4>1
      <4>. QED
        BY <1>8, <3>2, <4>1, <4>2
    <3>. QED
      BY <1>6, <2>1, <3>1, <3>2
  <2>3. Gapless(conns[c], events)'
    BY <1>5, <2>2 DEF Gapless
  <2>. QED
    BY <1>1, <1>2, <1>3, <1>5, <1>10, <2>3
<1>. QED
  BY <1>4, <1>9, <1>10

\* A socket to which the events just appended were offered.
LEMMA RunIsGapless ==
    ASSUME TypeInv, NEW c, NEW run \in Seq(Event), SocketServedRun(c, run),
           conns[c].cursor <= session.seq, Gapless(conns[c], events)
    PROVE  conns'[c].cursor <= session'.seq /\ Gapless(conns[c], events)'
<1>1. c \in DOMAIN conns /\ conns[c] \in ConnRow /\ session.seq \in Nat
      /\ session'.seq = session.seq + Len(run) /\ Len(run) \in Nat
  BY SocketType, SessionColumns, LenProperties DEF SocketServedRun
<1>2. PICK conn, n, new : conn = conns[c] /\ n = session.seq /\ new = conns'[c]
  OBVIOUS
<1>3. /\ new \in ConnRow
      /\ \/ new.cursor = conn.cursor /\ new.wire = conn.wire
         \/ \E k \in Nat : SentSome(conn, n, run, new, k)
  <2>1. conn \in ConnRow /\ n \in Nat /\ new = deliverRun(conn, n, run)
    BY <1>1, <1>2 DEF SocketServedRun
  <2>. QED
    BY <2>1, RunDelivery
<1>4. /\ conn.wire \in Seq([seq : Nat, event : Event]) /\ conn.cursor \in Nat
      /\ Len(conn.wire) \in Nat /\ DOMAIN conn.wire = 1..Len(conn.wire)
  <2>1. conn.wire \in Seq([seq : Nat, event : Event]) /\ conn.cursor \in Nat
    BY <1>1, <1>2 DEF ConnRow
  <2>. QED
    BY <2>1, LenProperties
<1>5. /\ DOMAIN events' = DOMAIN events \cup (n + 1)..(n + Len(run))
      /\ \A i \in 1..Len(run) : events'[n + i] = run[i]
      /\ \A i \in DOMAIN events : i <= n => events'[i] = events[i]
  BY <1>2 DEF SocketServedRun
<1>6. n \in Nat /\ conn.cursor <= n
  BY <1>1, <1>2
<1>7. ASSUME NEW i \in DOMAIN conn.wire
      PROVE  /\ conn.wire[i].seq = conn.cursor - Len(conn.wire) + i
             /\ conn.wire[i].seq \in DOMAIN events' =>
                   conn.wire[i].event = events'[conn.wire[i].seq]
  <2>1. /\ conn.wire[i].seq = conn.cursor - Len(conn.wire) + i
        /\ conn.wire[i].seq \in DOMAIN events =>
              conn.wire[i].event = events[conn.wire[i].seq]
    BY <1>2 DEF Gapless
  <2>2. conn.wire[i].seq <= n
    BY <1>4, <1>6, <2>1
  <2>3. conn.wire[i].seq \notin (n + 1)..(n + Len(run))
    BY <1>1, <1>6, <2>2
  <2>. QED
    BY <1>5, <2>1, <2>2, <2>3
<1>8. CASE new.cursor = conn.cursor /\ new.wire = conn.wire
  <2>1. Gapless(conns[c], events)'
    BY <1>2, <1>7, <1>8 DEF Gapless
  <2>2. new.cursor <= session'.seq
    BY <1>1, <1>2, <1>4, <1>6, <1>8
  <2>. QED
    BY <1>2, <2>1, <2>2
<1>9. ASSUME NEW sent \in Nat, SentSome(conn, n, run, new, sent)
      PROVE  conns'[c].cursor <= session'.seq /\ Gapless(conns[c], events)'
  <2>. DEFINE more == [i \in 1..sent |-> [seq |-> conn.cursor + i,
                                          event |-> run[conn.cursor + i - n]]]
              Msg == [seq : Nat, event : Event]
  <2>0. /\ conn.cursor >= n /\ conn.cursor + sent <= n + Len(run)
        /\ new.cursor = conn.cursor + sent /\ new.wire = conn.wire \o more
    BY <1>9 DEF SentSome
  <2>1. conn.cursor = n /\ sent <= Len(run)
    BY <1>1, <1>4, <1>6, <2>0
  <2>2. \A i \in 1..sent : more[i].seq = n + i /\ more[i].event = run[i]
    <3>1. ASSUME NEW i \in 1..sent
          PROVE  more[i].seq = n + i /\ more[i].event = run[i]
      <4>1. conn.cursor + i = n + i /\ conn.cursor + i - n = i
        BY <1>6, <2>1
      <4>2. more[i] = [seq |-> conn.cursor + i, event |-> run[conn.cursor + i - n]]
        OBVIOUS
      <4>. HIDE DEF more
      <4>. QED
        BY <4>1, <4>2
    <3>. QED
      BY <3>1
  <2>3. Len(more) = sent /\ more \in Seq(Msg)
    <3>1. \A i \in 1..sent : [seq |-> conn.cursor + i,
                              event |-> run[conn.cursor + i - n]] \in Msg
      <4>1. ASSUME NEW i \in 1..sent
            PROVE  conn.cursor + i \in Nat /\ run[conn.cursor + i - n] \in Event
        <5>1. conn.cursor + i - n \in 1..Len(run) /\ conn.cursor + i \in Nat
          BY <1>1, <1>4, <1>6, <2>1
        <5>. QED
          BY <5>1, ElementOfSeq
      <4>. QED
        BY <4>1
    <3>2. more \in [1..sent -> Msg]
      BY <3>1
    <3>3. DOMAIN more = 1..sent
      OBVIOUS
    <3>. HIDE DEF more, Msg
    <3>4. more \in Seq(Msg)
      BY <3>2, SeqDef
    <3>. QED
      BY <3>3, <3>4, LenProperties
  <2>4. new.wire = conn.wire \o more /\ conn.wire \in Seq(Msg)
    BY <1>4, <2>0
  <2>. HIDE DEF more, Msg
  <2>5. /\ Len(new.wire) = Len(conn.wire) + sent
        /\ DOMAIN new.wire = 1..(Len(conn.wire) + sent)
        /\ \A i \in 1..(Len(conn.wire) + sent) :
              new.wire[i] = IF i <= Len(conn.wire) THEN conn.wire[i]
                            ELSE more[i - Len(conn.wire)]
    <3>1. new.wire \in Seq(Msg) /\ Len(new.wire) = Len(conn.wire) + sent
      BY <2>3, <2>4, ConcatProperties
    <3>2. DOMAIN new.wire = 1..(Len(conn.wire) + sent)
      BY <3>1, LenProperties
    <3>. QED
      BY <2>3, <2>4, <3>1, <3>2, ConcatProperties
  <2>6. ASSUME NEW i \in DOMAIN new.wire
        PROVE  /\ new.wire[i].seq = new.cursor - Len(new.wire) + i
               /\ new.wire[i].seq \in DOMAIN events' =>
                     new.wire[i].event = events'[new.wire[i].seq]
    <3>1. CASE i <= Len(conn.wire)
      <4>1. i \in DOMAIN conn.wire /\ new.wire[i] = conn.wire[i]
        BY <1>4, <2>5, <3>1
      <4>2. conn.cursor - Len(conn.wire) + i = new.cursor - Len(new.wire) + i
        BY <1>4, <2>0, <2>5
      <4>. QED
        BY <1>7, <4>1, <4>2
    <3>2. CASE ~(i <= Len(conn.wire))
      <4>1. PICK k : k = i - Len(conn.wire)
        OBVIOUS
      <4>2. k \in 1..sent /\ new.wire[i] = more[k] /\ i = Len(conn.wire) + k
        BY <1>4, <2>5, <3>2, <4>1
      <4>3. new.wire[i].seq = n + k /\ new.wire[i].event = run[k]
        BY <2>2, <4>2
      <4>4. n + k = new.cursor - Len(new.wire) + i
        <5>1. PICK x, a, b : x = Len(conn.wire) /\ a = new.cursor /\ b = Len(new.wire)
          OBVIOUS
        <5>2. a = n + sent /\ b = x + sent /\ i = x + k
          BY <2>0, <2>1, <2>5, <4>2, <5>1
        <5>3. n \in Int /\ x \in Int /\ k \in Int /\ sent \in Int
          BY <1>4, <1>6, <4>2, <5>1
        <5>4. n + k = a - b + i
          BY <5>2, <5>3
        <5>. QED
          BY <5>1, <5>4
      <4>5. k \in 1..Len(run)
        BY <1>1, <2>1, <4>2
      <4>. QED
        BY <1>5, <4>3, <4>4, <4>5
    <3>. QED
      BY <3>1, <3>2
  <2>7. Gapless(conns[c], events)'
    BY <1>2, <2>6 DEF Gapless
  <2>8. new.cursor <= session'.seq
    BY <1>1, <1>2, <2>0
  <2>. QED
    BY <1>2, <2>7, <2>8
<1>. QED
  BY <1>3, <1>8, <1>9

\* A socket that was opened with a ticket: its backlog begins after the ticket's
\* cursor.
LEMMA OpenedIsGapless ==
    ASSUME TypeInv, NEW c, NEW t \in DOMAIN tickets, SocketOpened(c, t),
           tickets[t].after <= session.seq
    PROVE  conns'[c].cursor <= session'.seq /\ Gapless(conns[c], events)'
<1>1. PICK u, after : u = tickets[t].user /\ after = tickets[t].after
  OBVIOUS
<1>2. tickets[t] \in TicketRow
  BY RowOfTable DEF TypeInv, TypeOK, RealtimeTypeOK
<1>3. after \in Nat /\ session.seq \in Nat /\ after <= session.seq /\ MaxBuffered \in Nat
  BY <1>1, <1>2, SessionColumns, RealtimeAssumption DEF TicketRow
<1>4. UNCHANGED <<session, events>>
  BY DEF SocketOpened, storeVars
<1>5. CASE after < session.minSeq
  <2>1. conns'[c].cursor = after /\ conns'[c].wire = << >>
    BY <1>1, <1>5 DEF SocketOpened
  <2>2. DOMAIN conns'[c].wire = {}
    BY <2>1
  <2>. QED
    BY <1>3, <1>4, <2>1, <2>2 DEF Gapless
<1>6. CASE ~(after < session.minSeq)
  <2>1. PICK sent :
           sent = IF session.seq - after <= MaxBuffered + 1 THEN session.seq - after
                  ELSE MaxBuffered + 1
    OBVIOUS
  <2>2. sent \in Nat /\ after + sent <= session.seq
    BY <1>3, <2>1
  <2>3. PICK wire : wire = [i \in 1..sent |-> [seq |-> after + i, event |-> events[after + i]]]
    OBVIOUS
  <2>4. conns'[c].cursor = after + sent /\ conns'[c].wire = wire
    BY <1>1, <1>6, <2>1, <2>3 DEF SocketOpened, Backlog
  <2>5. Len(wire) = sent /\ DOMAIN wire = 1..sent
    BY <2>2, <2>3
  <2>6. \A i \in DOMAIN wire : /\ wire[i].seq = after + i
                               /\ wire[i].event = events[after + i]
    BY <2>3, <2>5
  <2>7. PICK cursor : cursor = after + sent
    OBVIOUS
  <2>8. ASSUME NEW i \in DOMAIN wire
        PROVE  /\ wire[i].seq = cursor - Len(wire) + i
               /\ wire[i].seq \in DOMAIN events' => wire[i].event = events'[wire[i].seq]
    <3>1. wire[i].seq = cursor - Len(wire) + i
      BY <1>3, <2>2, <2>5, <2>6, <2>7
    <3>2. wire[i].seq \in DOMAIN events' => wire[i].event = events'[wire[i].seq]
      BY <1>4, <2>6
    <3>. QED
      BY <3>1, <3>2
  <2>9. conns'[c].cursor = cursor
    BY <2>4, <2>7
  <2>10. Gapless(conns[c], events)'
    BY <2>4, <2>8, <2>9 DEF Gapless
  <2>. QED
    BY <1>4, <2>2, <2>4, <2>10
<1>. QED
  BY <1>5, <1>6

\* Every kind of step keeps WireInv.
LEMMA WireStep ==
    ASSUME TypeInv, OwnerInv, TicketInv, WireInv, [Next]_vars
    PROVE  WireInv'
<1>1. ASSUME NEW c \in DOMAIN conns'
      PROVE  conns'[c].cursor <= session'.seq /\ Gapless(conns[c], events)'
  <2>4. ASSUME NEW run \in Seq(Event), SocketServedRun(c, run)
        PROVE  conns'[c].cursor <= session'.seq /\ Gapless(conns[c], events)'
    <3>1. c \in DOMAIN conns
      BY <2>4 DEF SocketServedRun
    <3>2. conns[c].cursor <= session.seq /\ Gapless(conns[c], events)
      BY <3>1 DEF WireInv
    <3>. QED
      BY <2>4, <3>2, RunIsGapless
  <2>1. CASE SocketKept(c)
    <3>1. c \in DOMAIN conns
      BY <2>1 DEF SocketKept
    <3>2. conns[c].cursor <= session.seq /\ Gapless(conns[c], events)
      BY <3>1 DEF WireInv
    <3>. QED
      BY <2>1, <3>2, KeptIsGapless DEF SocketKept, HistoryKept
  <2>2. ASSUME NEW e \in Event, SocketServed(c, e)
        PROVE  conns'[c].cursor <= session'.seq /\ Gapless(conns[c], events)'
    <3>1. c \in DOMAIN conns
      BY <2>2 DEF SocketServed
    <3>2. conns[c].cursor <= session.seq /\ Gapless(conns[c], events)
      BY <3>1 DEF WireInv
    <3>. QED
      BY <2>2, <3>2, ServedIsGapless
  <2>3. ASSUME NEW t \in DOMAIN tickets, SocketOpened(c, t)
        PROVE  conns'[c].cursor <= session'.seq /\ Gapless(conns[c], events)'
    <3>1. tickets[t].after <= session.seq
      BY <2>3 DEF TicketInv, TicketFits
    <3>. QED
      BY <2>3, <3>1, OpenedIsGapless
  <2>. QED
    BY <2>1, <2>2, <2>3, <2>4, SocketOfStep
<1>. QED
  BY <1>1 DEF WireInv

\* What is in flight to a client is a gapless run of the history that ends at the
\* cursor of its socket (deliver, sendBacklog).
THEOREM StreamsAreGapless == Spec => []WireIsGapless
<1>1. Init => WireInv
  BY DEF Init, RealtimeInit, NoRows, WireInv
<1>2. TypeInv /\ OwnerInv /\ TicketInv /\ WireInv /\ [Next]_vars => WireInv'
  BY WireStep
<1>3. WireInv => WireIsGapless
  BY DEF WireInv, Gapless, WireIsGapless
<1>. QED
  BY <1>1, <1>2, <1>3, TypeInvariant, OwnerInvariant, TicketInvariant, PTL DEF Spec

-----------------------------------------------------------------------------
(* A deleted Session *)

\* A table without rows is NoRows.
LEMMA EmptyTable ==
    ASSUME NEW Key, NEW Row, NEW table, IsTable(table, Key, Row), DOMAIN table = {}
    PROVE  table = NoRows
BY DEF IsTable, NoRows

\* A Session that was deleted had been there: nobody creates it again.
DeletedInv == DeletedLeavesNothing /\ (session.deleted => session.status # "absent")

\* Deleting a Session takes away what gave access to it.
LEMMA DeletionLeavesNothing ==
    ASSUME TypeInv, DraftInv, SessionDeleted, TypeInv'
    PROVE  DeletedInv'
<1>1. PICK path \in {"batch", "admin"}, u \in User, base \in BaseVersion, m \in MutationId :
         DeleteSession(path, u, base, m)
  BY DEF SessionDeleted
<1>2. PICK row, e :
         /\ row = [session EXCEPT !.deleted = TRUE, !.version = @ + 1]
         /\ e = EventOf("session.deleted", SessionId, SessionBodyOf(row, 0), m)
         /\ AppendEvent(row, e)
         /\ conns' = Closed(publish(conns, session.seq + 1, e), User)
  BY <1>1 DEF DeleteSession, WriteSession, Published
<1>3. /\ row \in SessionRow /\ row.seq = session.seq /\ session.seq \in Nat
      /\ row.status = session.status /\ e.type = "session.deleted"
  BY <1>2, NextSessionRow, SessionColumns DEF SessionRow, EventOf
<1>4. /\ session'.seq \in DOMAIN events' /\ events'[session'.seq] = e
      /\ session'.status = session.status
  BY <1>2, <1>3 DEF AppendEvent, Put, SessionRow
<1>5. ASSUME NEW i \in DOMAIN invites'
      PROVE  ~invites'[i].open
  <2>1. i \in DOMAIN invites /\ invites'[i] = [invites[i] EXCEPT !.open = FALSE]
    BY <1>1 DEF DeleteSession
  <2>2. invites[i] \in InviteRow
    BY <2>1, RowOfTable DEF TypeInv, TypeOK, StoreTypeOK
  <2>. QED
    BY <2>1, <2>2 DEF InviteRow
<1>6. ASSUME NEW c \in DOMAIN conns'
      PROVE  ~conns'[c].open
  <2>1. PICK table : conns' = Closed(table, User)
    BY <1>2
  <2>2. conns'[c] = (IF table[c].user \in User
                     THEN [table[c] EXCEPT !.open = FALSE] ELSE table[c])
    BY <2>1 DEF Closed
  <2>3. conns'[c] \in ConnRow
    BY RowOfTable DEF TypeInv, TypeOK, RealtimeTypeOK, IsTable
  <2>. QED
    BY <2>2, <2>3 DEF ConnRow
<1>7. /\ tickets' = NoRows /\ ~draft'.present /\ deviceState' = NoRows
      /\ locks' = NoRows \/ locks' = locks
      /\ session.status # "active" /\ session.status # "absent"
  BY <1>1 DEF DeleteSession, NoDraft, clearSession, MayChangeSession
<1>8. locks' = NoRows
  <2>1. DOMAIN locks = {}
    BY <1>7 DEF DraftInv, LeaseFitsDraft
  <2>2. locks = NoRows
    BY <2>1, EmptyTable DEF TypeInv, TypeOK, DraftTypeOK
  <2>. QED
    BY <1>7, <2>2
<1>. QED
  BY <1>3, <1>4, <1>5, <1>6, <1>7, <1>8 DEF DeletedInv, DeletedLeavesNothing

\* The steps that can follow: they do not bring the Session back, and no event
\* comes or goes but the oldest.
LEMMA DeletedStays ==
    ASSUME TypeInv, OwnerInv, DeletedInv, session.deleted, [Next]_vars
    PROVE  /\ session'.status = session.status /\ session'.seq = session.seq
           /\ session.seq \in DOMAIN events'
           /\ events'[session.seq] = events[session.seq]
           /\ \A t \in DOMAIN tickets' : t \in DOMAIN tickets
<1>1. /\ session \in SessionRow /\ session.seq \in Nat /\ session.minSeq \in Nat
      /\ session.seq \in DOMAIN events /\ session.status # "absent" /\ tickets = NoRows
  BY SessionColumns DEF DeletedInv, DeletedLeavesNothing
<1>2. /\ ~LogWritten /\ ~SessionWritten /\ ~SessionDeleted /\ ~SessionCreated
      /\ ~CorrectionStep
  BY <1>1 DEF CorrectionStep, ApplyCorrections, MayCorrect, LogWritten, LogIsWritten, SessionWritten, SessionIsWritten, SessionDeleted,
     DeleteSession, MayChangeSession, SessionCreated, CreateSession
<1>3. CASE RetentionStep
  <2>1. PICK target \in session.minSeq..session.seq :
           /\ target > session.minSeq => target + MinRetained <= session.seq
           /\ session' = [session EXCEPT !.minSeq = target]
           /\ events' = Without(events, (session.minSeq + 1)..target)
           /\ UNCHANGED tickets
    BY <1>3 DEF RetentionStep, PruneEvents, realtimeVars
  <2>2. session.seq \notin (session.minSeq + 1)..target
    BY <1>1, <2>1, MutationAssumption
  <2>3. session.seq \in DOMAIN events' /\ events'[session.seq] = events[session.seq]
    BY <1>1, <2>1, <2>2 DEF Without, Restrict
  <2>4. session'.status = session.status /\ session'.seq = session.seq
    BY <1>1, <2>1 DEF SessionRow
  <2>. QED
    BY <2>1, <2>3, <2>4
<1>4. ASSUME NEW users, AccessCut(users)
      PROVE  /\ session'.status = session.status /\ session'.seq = session.seq
             /\ UNCHANGED events
             /\ \A t \in DOMAIN tickets' : t \in DOMAIN tickets
  BY <1>4 DEF AccessCut, SessionKept
<1>5. CASE Restart \/ AccessKept \/ \E u \in User : AccessGained(u)
  BY <1>1, <1>5 DEF Restart, AccessKept, AccessGained, SessionKept, storeVars, realtimeVars
<1>6. CASE StreamStep
  <2>1. UNCHANGED <<session, events>>
    BY <1>6 DEF StreamStep, IssueTicket, TicketExpires, Connect, Receive, Disconnect, storeVars
  <2>2. \A u, t, after : ~IssueTicket(u, t, after)
    BY DEF IssueTicket, CanRead, RequireMembership
  <2>3. \A t, c : ~Connect(t, c)
    BY <1>1 DEF Connect, memberTicketIsActive, NoRows
  <2>4. \A t \in DOMAIN tickets' : t \in DOMAIN tickets
    BY <1>6, <2>2, <2>3 DEF StreamStep, TicketExpires, Receive, Disconnect, Without, Restrict
  <2>. QED
    BY <1>1, <2>1, <2>4
<1>. QED
  BY <1>1, <1>2, <1>3, <1>4, <1>5, <1>6, StepAccess

\* Nothing that gave access comes back to a deleted Session.
LEMMA NothingComesBack ==
    ASSUME TypeInv, TypeInv', OwnerInv, DraftInv, DeletedInv, session.deleted, [Next]_vars
    PROVE  DeletedInv'
<1>1. /\ tickets = NoRows /\ \A c \in DOMAIN conns : ~conns[c].open
      /\ ~draft.present /\ deviceState = NoRows /\ locks = NoRows
      /\ \A i \in DOMAIN invites : ~invites[i].open
      /\ session.status # "absent" /\ session.seq \in Nat
  BY SessionColumns DEF DeletedInv, DeletedLeavesNothing
<1>2. tickets' = NoRows
  <2>1. DOMAIN tickets' = {}
    BY <1>1, DeletedStays DEF NoRows
  <2>. QED
    BY <2>1, EmptyTable DEF TypeInv, TypeOK, RealtimeTypeOK
<1>3. ASSUME NEW c \in DOMAIN conns'
      PROVE  ~conns'[c].open
  <2>1. CASE SocketKept(c)
    BY <1>1, <2>1 DEF SocketKept
  <2>2. ASSUME NEW e \in Event, SocketServed(c, e)
        PROVE  ~conns'[c].open
    BY <1>1, <2>2, DeletedStays DEF SocketServed
  <2>3. ASSUME NEW t \in DOMAIN tickets
        PROVE  FALSE
    BY <1>1, <2>3 DEF NoRows
  <2>4. ASSUME NEW run \in Seq(Event), run # << >>, SocketServedRun(c, run)
        PROVE  FALSE
    <3>1. session'.seq = session.seq + Len(run) /\ session'.seq = session.seq
      BY <2>4, DeletedStays DEF SocketServedRun
    <3>2. Len(run) \in Nat \ {0}
      BY <2>4, EmptySeq, LenProperties
    <3>. QED
      BY <1>1, <3>1, <3>2
  <2>. QED
    BY <2>1, <2>2, <2>3, <2>4, SocketOfStep
<1>4. ASSUME NEW i \in DOMAIN invites'
      PROVE  ~invites'[i].open
  <2>1. \A u, x : ~RedeemInvite(u, x)
    BY DEF RedeemInvite
  <2>2. \A u, x, role, max, m : ~CreateInvite(u, x, role, max, m)
    BY DEF CreateInvite, RequireMembership
  <2>3. UNCHANGED invites \/ InvitesClosed
    BY <2>1, <2>2, StepInvites
  <2>. QED
    BY <1>1, <2>3 DEF InvitesClosed
<1>5. ~draft'.present /\ deviceState' = NoRows /\ DOMAIN locks' = {}
  <2>1. ~DraftOpened /\ ~DraftWritten /\ ~DraftRenewed
    BY <1>1 DEF DraftOpened, DraftWritten, DraftRenewed
  <2>2. DraftLeft \/ DraftRemoved
    BY <2>1, StepDrafts
  <2>3. DOMAIN locks = {}
    BY <1>1 DEF NoRows
  <2>. QED
    <3>1. LocksReleased /\ deviceState' = NoRows
      BY <1>1, <2>2 DEF DraftLeft, DraftRemoved
    <3>2. DOMAIN locks' = {}
      BY <2>3, <3>1 DEF LocksReleased
    <3>3. UNCHANGED draft \/ draft' = NoDraft(draft.id)
      BY <2>2 DEF DraftLeft, DraftRemoved
    <3>4. ~draft'.present
      BY <1>1, <3>3 DEF NoDraft
    <3>. QED
      BY <3>1, <3>2, <3>4
<1>6. locks' = NoRows
  BY <1>5, EmptyTable DEF TypeInv, TypeOK, DraftTypeOK
<1>. QED
  BY <1>1, <1>2, <1>3, <1>4, <1>5, <1>6, DeletedStays DEF DeletedInv, DeletedLeavesNothing

\* Nothing but the deletion deletes a Session.
LEMMA OnlyDeletionDeletes ==
    ASSUME TypeInv, OwnerInv, ~session.deleted, [Next]_vars, ~SessionDeleted
    PROVE  ~session'.deleted
<1>1. session \in SessionRow
  BY SessionColumns
<1>2. CASE LogWritten
  BY <1>1, <1>2 DEF LogWritten, LogIsWritten, AppendEvent, SessionRow
<1>3. CASE SessionWritten
  BY <1>3 DEF SessionWritten, SessionIsWritten, WriteSession, AppendEvent, SessionRow
<1>4. CASE SessionCreated \/ RetentionStep
  BY <1>1, <1>4 DEF SessionCreated, CreateSession, RetentionStep, PruneEvents, SessionRow
<1>5. CASE \/ \E users : AccessCut(users)
           \/ \E u \in User : AccessGained(u)
           \/ StreamStep \/ Restart \/ AccessKept
  BY <1>5 DEF AccessCut, AccessGained, AccessKept, StreamStep, IssueTicket,
     TicketExpires, Connect, Receive, Disconnect, Restart, storeVars, SessionKept
<1>6. CASE CorrectionStep
  <2>1. session'.deleted = session.deleted
    BY <1>1, <1>6 DEF CorrectionStep, ApplyCorrections, AppendRun, SessionRow
  <2>. QED
    BY <2>1
<1>. QED
  BY <1>2, <1>3, <1>4, <1>5, <1>6, StepAccess

\* Nothing is appended after session.deleted, and what gave access is gone:
\* invites, tickets, sockets, the draft, its device counters and its locks
\* (mutateSession's delete, hub.deleteSession).
THEOREM DeletionIsFinal == Spec => []DeletedLeavesNothing
<1>1. Init => DeletedInv
  BY DEF Init, StoreInit, DeletedInv, DeletedLeavesNothing
<1>2. TypeInv /\ TypeInv' /\ OwnerInv /\ DraftInv /\ DeletedInv /\ [Next]_vars => DeletedInv'
  <2>. SUFFICES ASSUME TypeInv, TypeInv', OwnerInv, DraftInv, DeletedInv, [Next]_vars
                PROVE  DeletedInv'
    OBVIOUS
  <2>1. CASE session.deleted
    BY <2>1, NothingComesBack
  <2>2. CASE ~session.deleted /\ SessionDeleted
    BY <2>2, DeletionLeavesNothing
  <2>3. CASE ~session.deleted /\ ~SessionDeleted
    BY <2>3, OnlyDeletionDeletes DEF DeletedInv, DeletedLeavesNothing
  <2>. QED
    BY <2>1, <2>2, <2>3
<1>3. DeletedInv => DeletedLeavesNothing
  BY DEF DeletedInv
<1>. QED
  BY <1>1, <1>2, <1>3, TypeInvariant, OwnerInvariant, DraftInvariant, PTL DEF Spec
=============================================================================
