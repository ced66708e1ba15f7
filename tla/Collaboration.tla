--------------------------- MODULE Collaboration ----------------------------
(***************************************************************************)
(* One collaboration Session of the server process: the handlers of        *)
(* SessionMutations, SessionMembers, LiveDraft and RealtimeStream          *)
(* interleaved in any order, and a restart of the process at any time.     *)
(***************************************************************************)
EXTENDS SessionMutations, SessionMembers, LiveDraft, RealtimeStream, FiniteSets

CONSTANTS
    ClientSeq,   \* the clientSeqs that PATCH requests carry
    MaxUses      \* the maxUses that invites are created with

ASSUME RequestAssumption ==
    /\ ClientSeq \subseteq Nat \ {0}
    /\ MaxUses \subseteq Nat \ {0}

\* The values a user can give a Log.
LogValue == {content \in Content : Complete(content)}

\* Non-empty sets of fields with a value for each of them.
Updates == UNION {[S -> Text \cup {Blank}] : S \in (SUBSET Field) \ {{}}}

\* Selected proposals, in some order.
Selections == UNION {[1..n -> [log : Log, content : LogValue]] : n \in 1..MaxProposals}

-----------------------------------------------------------------------------
LifecycleStep ==
    \E u \in User, m \in MutationId :
        \/ \E title \in Text : CreateSession(u, title, m)
        \/ ConfirmSession(u, m)
        \/ \E S \in (SUBSET Log) \ {{}} : \E batch \in [S -> LogValue] :
              BootstrapLogs(u, batch, m)
        \/ \E revision \in {"none", "named"} : \/ Activate(u, revision, m)
                                               \/ ActivateAgain(u, revision, m)
        \/ \E base \in BaseVersion, path \in {"batch", "admin"} :
              \/ \E title \in Text : UpdateSession(path, u, title, base, m)
              \/ CloseSession(path, u, base, m)
              \/ ReopenSession(path, u, base, m)
              \/ DeleteSession(path, u, base, m)
        \/ \E base \in BaseVersion : CloseDiscardingLiveDraft(u, base, m)

LogStep ==
    \E path \in Path, u \in User, op \in LogOperation, l \in Log,
       base \in BaseVersion, content \in LogValue, m \in MutationId :
        MutateLog(path, u, op, l, base, content, m)

CorrectionStep ==
    \E u \in User, corrections \in Selections, m \in MutationId :
        ApplyCorrections(u, corrections, m)

RefusalStep ==
    \E u \in User, m \in MutationId :
        \/ \E path \in {"batch", "admin"} : StoreConflict(path, u, m)
        \/ StoreRejection(u, m)

RetentionStep ==
    \E u \in User, m \in MutationId, target \in session.minSeq..session.seq :
        PruneEvents(u, target, m)

MemberStep ==
    \/ \E u \in User, m \in MutationId :
          \/ LeaveSession(u, m)
          \/ NothingToChange(u, m)
          \/ \E target \in User :
                \/ \E role \in MemberRole : ChangeRole(u, target, role, m)
                \/ RemoveMember(u, target, m)
                \/ TransferOwnership(u, target, m)
          \/ \E i \in Invite :
                \/ \E role \in MemberRole, max \in MaxUses :
                      CreateInvite(u, i, role, max, m)
                \/ RevokeInvite(u, i, m)
    \/ \E i \in Invite : InviteExpires(i)
    \/ \E u \in User, i \in Invite : RedeemInvite(u, i)

AdminMemberStep ==
    \E a \in Admin, u \in User, m \in MutationId :
        \/ \E role \in MemberRole : AdminAddMember(a, u, role, m)
        \/ \E role \in MemberRole : AdminChangeRole(a, u, role, m)
        \/ AdminRemoveMember(a, u, m)
        \/ AdminTransfer(a, u, m)
        \/ \E i \in Invite : AdminRevokeInvite(a, i, m)

DraftStep ==
    \/ \E u \in User : ReadDraft(u) \/ RefusedDraftRequest(u)
    \/ \E u \in User, d \in Device :
          \/ \E f \in Field : AcquireLock(u, d, f)
          \/ \E f \in Field : ReleaseLock(u, d, f)
          \/ \E candidate \in [Reuse -> Text \cup {Blank}] :
                PublishPreview(u, d, candidate)
          \/ ClearPreview(u, d)
          \/ \E m \in MutationId : SelectPreview(u, d, m)
          \/ \E seq \in ClientSeq, updates \in Updates, consume \in BOOLEAN :
                PatchDraft(u, d, seq, updates, consume)
          \/ \E l \in Log, m \in MutationId : CommitDraft(u, d, l, m)
          \/ \E m \in MutationId : DiscardDraft(u, d, m)

TimerStep ==
    \/ \E f \in Field : LeaseExpires(f)
    \/ PreviewExpires
    \/ SweepInactiveSession

StreamStep ==
    /\ \/ \E u \in User, t \in Ticket, after \in session.minSeq..session.seq :
             IssueTicket(u, t, after)
       \/ \E t \in Ticket : TicketExpires(t)
       \/ \E t \in Ticket, c \in Conn : Connect(t, c)
       \/ \E c \in Conn : Receive(c)
       \/ \E c \in Conn : Disconnect(c)
    /\ UNCHANGED draftVars

\* The process stops and starts again: what is not in the database is gone.
Restart ==
    /\ locks' = NoRows
    /\ preview' = NoPreview
    /\ conns' = NoRows
    /\ UNCHANGED <<storeVars, draft, deviceState, tickets>>

-----------------------------------------------------------------------------
Init == StoreInit /\ DraftInit /\ RealtimeInit

Next ==
    \/ LifecycleStep
    \/ LogStep
    \/ CorrectionStep
    \/ RefusalStep
    \/ RetentionStep
    \/ MemberStep
    \/ AdminMemberStep
    \/ DraftStep
    \/ TimerStep
    \/ StreamStep
    \/ Restart

Spec == Init /\ [][Next]_vars

-----------------------------------------------------------------------------
TypeOK == StoreTypeOK /\ DraftTypeOK /\ RealtimeTypeOK

-----------------------------------------------------------------------------
(* The event history *)

\* The retained history has no gap and ends at event_seq: what readEventsAfter
\* returns to a cursor that is not below min_retained_seq is all it misses.
EventLogContiguous ==
    DOMAIN events = (session.minSeq + 1)..session.seq

\* No later event is about the same Log, or about the Session.
IsNewest(i) ==
    \A j \in DOMAIN events : j > i => events[j].entity # events[i].entity

SameSession(row, body) ==
    /\ row.version = body.version /\ row.title = body.title
    /\ row.status = body.status /\ row.deleted = body.deleted

\* The columns of a Log that readers compare; the times and the device are not.
SameLog(row, other) ==
    /\ row.version = other.version /\ row.content = other.content
    /\ row.deleted = other.deleted

\* A client that follows the events sees every version of an entity, one after
\* the other, whichever of the handlers wrote them, and ends with the rows of the
\* tables: the newest event of each entity carries the row as it is now (logDto
\* and sessionEventDto are read back after the UPDATE), but for what a promotion
\* takes over from the personal snapshot, which no event tells.
TablesFollowEvents ==
    /\ \A i \in DOMAIN events :
          IsNewest(i) =>
              LET x == events[i].entity IN
              IF x = SessionId THEN SameSession(session, events[i].body)
              ELSE x \in DOMAIN logs /\ SameLog(logs[x], events[i].body)
    /\ \A i, j \in DOMAIN events :
          (/\ i < j /\ events[i].entity = events[j].entity
           /\ \A k \in (i + 1)..(j - 1) : events[k].entity # events[i].entity)
          => events[j].version = events[i].version + 1

Accepted(m) == m \in DOMAIN processed /\ processed[m].outcome = "accepted"

\* The events of a correction: their request made no other change, and each of
\* its proposals is entered once and next to the others.
EnteredTogether(m) ==
    \A i, j \in DOMAIN events : events[i].mutation = m /\ events[j].mutation = m =>
        /\ \A k \in i..j : events[k].mutation = m
        /\ events[i].entity = events[j].entity => i = j

\* A mutationId has at most one event, the one its stored response names, and
\* that event made the version after the baseVersion the request named: a lost,
\* repeated or delayed request is applied once, and only to the row its author saw.
\* The events that no response names are those of the sweep and of corrections,
\* and a correction is applied once, as a whole.
ExactlyOnce ==
    /\ \A i \in DOMAIN events : events[i].mutation # NoMutation =>
          LET m == events[i].mutation IN
          /\ m \in DOMAIN processed
          /\ \/ /\ Accepted(m)
                /\ processed[m].seq = i
                /\ events[i].version = processed[m].base + 1
             \/ processed[m].kind = "excel" /\ EnteredTogether(m)
    /\ \A m \in MutationId : Accepted(m) =>
          /\ processed[m].seq \in 1..session.seq
          /\ processed[m].seq > session.minSeq =>
                events[processed[m].seq].mutation = m

\* What a step changes of the rows, and the entities its events are about.
Changed ==
    {l \in DOMAIN logs' : l \notin DOMAIN logs \/ ~SameLog(logs'[l], logs[l])}
    \cup (IF SessionBodyOf(session', 0) # SessionBodyOf(session, 0)
          THEN {SessionId} ELSE {})

Announced == {events'[i].entity : i \in (session.seq + 1)..session'.seq}

\* Once the Session is active every change of a Log or of the Session row is
\* announced by one event, about that row and no other, also when one request
\* changes several Logs.  Unannounced is only what a promotion completed late
\* takes over from the personal snapshot: the times and devices of the Logs.
OneEventPerChange ==
    [][session.status \in {"active", "closed"} =>
         /\ Changed = Announced
         /\ \A i, j \in (session.seq + 1)..session'.seq :
               events'[i].entity = events'[j].entity => i = j
         /\ session'.promoted = session.promoted =>
               \A l \in DOMAIN logs \ Changed : logs'[l] = logs[l]]_vars

Ledger == INSTANCE EventLedger WITH
    head <- session.seq, low <- session.minSeq, entries <- events,
    receipts <- [m \in DOMAIN processed |-> processed[m].seq]

\* The handlers together keep the promise of EventLedger: every one of them
\* enters what it has to enter in one step, under a request not answered before,
\* or only answers, and none touches or drops an entry that is not the oldest.
KeepsLedger == Ledger!Spec

\* Nothing is appended after session.deleted, and what gave access is gone:
\* invites, tickets, sockets, the draft, its device counters and its locks.
DeletedLeavesNothing ==
    session.deleted =>
        /\ session.seq \in DOMAIN events
        /\ events[session.seq].type = "session.deleted"
        /\ \A i \in DOMAIN invites : ~invites[i].open
        /\ tickets = NoRows
        /\ \A c \in DOMAIN conns : ~conns[c].open
        /\ ~draft.present /\ deviceState = NoRows /\ locks = NoRows

-----------------------------------------------------------------------------
(* Membership *)

\* uq_session_members_active_owner and sessions.owner_user_id agree through
\* every transfer: one owner, who is a member.
OneOwner ==
    session.status # "absent" =>
        \A u \in User : (IsMember(u) /\ members[u].role = "owner")
                        <=> u = session.owner

\* used_count counts the accounts that redeemed the invite and never passes
\* max_uses.
InviteUses ==
    \A i \in DOMAIN invites :
        /\ invites[i].used = Cardinality(invites[i].redeemers)
        /\ invites[i].used <= invites[i].max

\* A member who left or was removed is back only through an invite it has not
\* used before or by an administrator.
RejoinNeedsFreshInvite ==
    [][\A u \in DOMAIN members :
         members[u].removed /\ ~members'[u].removed =>
            \/ \E i \in DOMAIN invites :
                  /\ invites[i].open
                  /\ u \in invites'[i].redeemers \ invites[i].redeemers
            \/ \E m \in DOMAIN processed' \ DOMAIN processed :
                  processed'[m].kind = "admin"]_vars

\* A ticket admits its holder under the membership it was issued on and no other:
\* once that membership has changed or ended, the ticket admits nobody again, not
\* even when the process stopped before the hub withdrew it and the member has
\* come back in the same role since.
TicketsAreNotRevived ==
    [][\A t \in DOMAIN tickets :
         memberTicketIsActive(t)' =>
            /\ memberTicketIsActive(t)
            /\ members'[tickets[t].user] = members[tickets[t].user]]_vars

-----------------------------------------------------------------------------
(* The live draft *)

\* Fields are locked in an active Session only, and a lease never outlives the
\* draft it was granted on: commit, discard and close clear the locks.
LeaseFitsDraft ==
    \A f \in DOMAIN locks :
        /\ session.status = "active"
        /\ draft.present
        /\ locks[f].draft = draft.id

\* The content of the draft does not vanish unannounced: it goes with a new
\* draft version, or with a close event that names the version it had.
DraftContentIsKept ==
    [][liveDraftHasActualContent /\ ~liveDraftHasActualContent' =>
         \/ draft'.version > draft.version
         \/ /\ session'.seq = session.seq + 1
            /\ events'[session'.seq].type = "session.closed"
            /\ events'[session'.seq].body.nextDraft = draft.version + 1]_vars

\* The comment in resetDraft: a replay response belongs to one draft, so the
\* counters of the devices go whenever the draft is another one.
ReplaysBelongToOneDraft ==
    [][draft'.id # draft.id \/ draft'.present # draft.present
         => deviceState' = NoRows]_vars

\* Two devices that commit at once do not publish the same draft twice: every
\* commit that was accepted used up a draft id of its own.
DraftsAreCommittedOnce ==
    Cardinality({m \in DOMAIN processed :
                   processed[m].kind = "draft" /\ processed[m].outcome = "accepted"})
        <= draft.id - (IF draft.present THEN 1 ELSE 0)

-----------------------------------------------------------------------------
(* The realtime stream *)

\* An open socket has been sent everything up to event_seq and belongs to
\* somebody who may read the Session: no removal, demotion of the owner during
\* initialization, or deletion leaves one behind.
OpenSocketsAreCurrent ==
    \A c \in DOMAIN conns : conns[c].open =>
        /\ conns[c].cursor = session.seq
        /\ CanRead(conns[c].user)

\* What is in flight to a client is a gapless run of the history that ends at
\* the cursor of its socket.
WireIsGapless ==
    \A c \in DOMAIN conns : \A i \in DOMAIN conns[c].wire :
        LET msg == conns[c].wire[i] IN
        /\ msg.seq = conns[c].cursor - Len(conns[c].wire) + i
        /\ msg.seq \in DOMAIN events => msg.event = events[msg.seq]
=============================================================================
