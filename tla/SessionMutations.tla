-------------------------- MODULE SessionMutations --------------------------
(***************************************************************************)
(* Creating, filling, activating, editing, closing, reopening and deleting *)
(* a collaboration Session, and pruning its event history.                 *)
(*                                                                         *)
(* A request may arrive at any time, in any order, twice or never: an      *)
(* action is enabled for every request the handler accepts, and a request  *)
(* that is refused without being stored, or is answered from               *)
(* processed_mutations, is no step.  An action is one handler: its         *)
(* transaction, then what it does to the lock manager and the realtime hub *)
(* in the same tick.  Operations of POST mutations are committed one by    *)
(* one, the corrections of an Excel file all at once.                      *)
(***************************************************************************)
EXTENDS LiveDraftState, RealtimeState

CONSTANTS
    BaseVersion,  \* the baseVersions that requests carry
    MaxProposals, \* the most proposals one request applies, 1000
    MinRetained   \* the smallest minimumEventsPerSession

ASSUME MutationAssumption ==
    /\ BaseVersion \subseteq Nat
    /\ MaxProposals \in Nat
    /\ MinRetained \in Nat \ {0}

vars == <<storeVars, draftVars, realtimeVars>>

\* Who calls mutateLog and mutateSession for one operation of its own: a member
\* through POST mutations, an administrator, or, for Logs, the holder of an
\* account-share grant.  ApplyCorrections calls mutateLog for several.
Path == {"batch", "admin", "grant"}

-----------------------------------------------------------------------------
(* api/sessions-v1.ts *)

\* PUT /:sessionId creates the Session, or confirms it to its owner.
CreateSession(u, title, m) ==
    /\ Fresh(m)
    /\ session.status = "absent"
    /\ session' = [session EXCEPT !.status = "initializing", !.version = 1,
                                  !.title = title, !.owner = u]
    /\ members' = Put(members, u, [role |-> "owner", version |-> 1,
                                   removed |-> FALSE])
    /\ StoreResponse(m, "create", u, "done")
    /\ UNCHANGED <<logs, events, invites, draftVars, realtimeVars>>

ConfirmSession(u, m) ==
    /\ Fresh(m)
    /\ RequireMembership(u, {"owner"})
    /\ StoreResponse(m, "create", u, "done")
    /\ UNCHANGED <<session, members, logs, events, invites, draftVars,
                   realtimeVars>>

\* POST /bootstrap/logs: all of the batch or, on a mismatch, nothing.
BootstrapLogs(u, batch, m) ==
    /\ Fresh(m)
    /\ RequireMembership(u, {"owner"})
    /\ session.status = "initializing"
    /\ \A l \in DOMAIN batch \cap DOMAIN logs : logs[l].content = batch[l]
    /\ logs' = [l \in DOMAIN logs \cup DOMAIN batch |->
                  IF l \in DOMAIN logs THEN logs[l]
                  ELSE NewLog(batch[l])]
    /\ StoreResponse(m, "bootstrap", u, "done")
    /\ UNCHANGED <<session, members, events, invites, draftVars, realtimeVars>>

\* The request names the revision of a personal snapshot, and no promotion of the
\* Session by u was completed before.
Promotes(u, revision) == revision = "named" /\ u \notin session.promoted

\* completePersonalPromotion: what the snapshot holds of the Session are the Logs
\* uploaded, none of them deleted since (PersonalPromotion has the snapshot's
\* side); then the rows get the times and the device they have in the snapshot.
completePersonalPromotion(u, revision) ==
    /\ Promotes(u, revision) => \A l \in DOMAIN logs : ~logs[l].deleted
    /\ logs' = IF Promotes(u, revision)
               THEN [l \in DOMAIN logs |-> [logs[l] EXCEPT !.stamp = "personal"]]
               ELSE logs

\* The sessions row after it.
PromotedRow(u, revision) ==
    IF Promotes(u, revision) THEN [session EXCEPT !.promoted = @ \cup {u}]
                             ELSE session

\* POST /activate with the right expectedLogCount.
Activate(u, revision, m) ==
    /\ Fresh(m)
    /\ RequireMembership(u, {"owner"})
    /\ session.status = "initializing"
    /\ completePersonalPromotion(u, revision)
    /\ LET row == [PromotedRow(u, revision) EXCEPT !.status = "active",
                                                  !.version = session.version + 1]
           e == EventOf("session.activated", SessionId, SessionBodyOf(row, 0), m)
       IN  AppendEvent(row, e) /\ PublishOnly(e)
    /\ StoreAccepted(m, "bootstrap", u, session.version)
    /\ UNCHANGED <<members, invites, draftVars>>

\* POST /activate of a Session that is active already: no event, although the
\* promotion may be completed only now.
ActivateAgain(u, revision, m) ==
    /\ Fresh(m)
    /\ RequireMembership(u, {"owner"})
    /\ session.status = "active"
    /\ completePersonalPromotion(u, revision)
    /\ session' = PromotedRow(u, revision)
    /\ StoreResponse(m, "bootstrap", u, "done")
    /\ UNCHANGED <<members, events, invites, draftVars, realtimeVars>>

-----------------------------------------------------------------------------
(* mutateLog *)

LogOperation == {"create", "update", "delete", "restore"}

\* Mutant: an event type that readers do not know.
LogEventTypeUnknown == [create |-> "log.created", update |-> "log.updated",
                        delete |-> "log.deleted", restore |-> "log.undeleted"]

LogEventType == [create |-> "log.created", update |-> "log.updated",
                 delete |-> "log.deleted", restore |-> "log.restored"]

\* assertLogWritable
LogWritable(path) ==
    session.status \in IF path = "admin" THEN {"active", "closed"} ELSE {"active"}

\* The access test in front of mutateLog.  A grant comes from the owner and
\* gives no restore; which accounts hold one is up to account-share.
MayWriteLog(path, u, op) ==
    /\ session.status # "absent" /\ ~session.deleted
    /\ \/ path = "batch" /\ RequireMembership(u, Writer)
       \/ path = "admin" /\ u \in Admin
       \/ path = "grant" /\ op # "restore"
    /\ LogWritable(path)

\* The tests of mutateLog between which and the write nothing can happen.
Applies(op, l, base) ==
    IF op = "create" THEN base = 0 /\ l \notin DOMAIN logs
    ELSE /\ l \in DOMAIN logs
         /\ base = logs[l].version
         /\ logs[l].deleted <=> op = "restore"

\* Mutant: a tombstone under the version of the Log it replaces.
WrittenLogKeepsVersion(op, l, content) ==
    CASE op = "create" -> NewLog(content)
      [] op = "delete" -> [logs[l] EXCEPT !.deleted = TRUE, !.stamp = "server"]
      [] op \in {"update", "restore"} ->
             [NewLog(content) EXCEPT !.version = logs[l].version + 1]

\* The row after op; a restore with confirm: true keeps the content.
WrittenLog(op, l, content) ==
    CASE op = "create" -> NewLog(content)
      [] op = "delete" -> [logs[l] EXCEPT !.version = @ + 1, !.deleted = TRUE,
                                          !.stamp = "server"]
      [] op \in {"update", "restore"} ->
             [NewLog(content) EXCEPT !.version = logs[l].version + 1]

\* content is what canonicalLogValue or canonicalLogPatch make of the request.
MutateLog(path, u, op, l, base, content, m) ==
    /\ Fresh(m)
    /\ MayWriteLog(path, u, op)
    /\ Applies(op, l, base)
    /\ LET row == WrittenLog(op, l, content)
           e == EventOf(LogEventType[op], l, row, m)
       IN  /\ logs' = Put(logs, l, row)
           /\ AppendEvent(session, e)
           /\ PublishOnly(e)
    /\ StoreAccepted(m, path, u, base)
    /\ UNCHANGED <<members, invites, draftVars>>

-----------------------------------------------------------------------------
(* api/excel-corrections-v1.ts *)

\* correctionAccess: a closed Session is for an administrator or its owner, with
\* whom mutateLog takes the administrative path.
MayCorrect(u) ==
    /\ session.status # "absent" /\ ~session.deleted
    /\ \/ u \in Admin /\ session.status \in {"active", "closed"}
       \/ RequireMembership(u, Writer) /\ session.status = "active"
       \/ RequireMembership(u, {"owner"}) /\ session.status = "closed"

\* The Logs are there at the versions of the preview, and no two of the selected
\* proposals are for one of them: the second would be a conflict.
Fitting(corrections) ==
    /\ \A i \in DOMAIN corrections : /\ corrections[i].log \in DOMAIN logs
                                     /\ ~logs[corrections[i].log].deleted
    /\ \A i, j \in DOMAIN corrections :
          corrections[i].log = corrections[j].log => i = j

CorrectedLog(c) == WrittenLog("update", c.log, c.content)

\* The Logs after the loop of mutateLog.
CorrectedLogs(corrections) ==
    [l \in DOMAIN logs |->
        IF \E i \in DOMAIN corrections : corrections[i].log = l
        THEN CorrectedLog(corrections[CHOOSE i \in DOMAIN corrections :
                                         corrections[i].log = l])
        ELSE logs[l]]

\* Mutant: every event is about the first of the Logs.
CorrectionEventsOfFirst(corrections, m) ==
    [i \in DOMAIN corrections |->
        EventOf("log.updated", corrections[1].log, CorrectedLog(corrections[1]), m)]

\* The events the loop appends, in the order of the selection.
CorrectionEvents(corrections, m) ==
    [i \in DOMAIN corrections |->
        EventOf("log.updated", corrections[i].log, CorrectedLog(corrections[i]), m)]

\* POST /apply: all of the selected proposals in one transaction with one stored
\* response, which names no event, and then their events to the hub.
ApplyCorrections(u, corrections, m) ==
    /\ Fresh(m)
    /\ MayCorrect(u)
    /\ Fitting(corrections)
    /\ LET run == CorrectionEvents(corrections, m)
       IN  /\ AppendRun(run)
           /\ conns' = publishRun(conns, session.seq, run)
    /\ logs' = CorrectedLogs(corrections)
    /\ StoreResponse(m, "excel", u, "done")
    /\ UNCHANGED <<members, invites, draftVars, tickets>>

-----------------------------------------------------------------------------
(* mutateSession *)

MayChangeSession(path, u) ==
    /\ session.status # "absent" /\ ~session.deleted
    /\ \/ path = "batch" /\ RequireMembership(u, {"owner"})
       \/ path = "admin" /\ u \in Admin

\* The row and its event: `row` is the sessions row after the UPDATE.
WriteSession(type, row, nextDraft, m) ==
    AppendEvent(row, EventOf(type, SessionId, SessionBodyOf(row, nextDraft), m))

Published(type, row, nextDraft, m) ==
    publish(conns, session.seq + 1,
            EventOf(type, SessionId, SessionBodyOf(row, nextDraft), m))

UpdateSession(path, u, title, base, m) ==
    /\ Fresh(m)
    /\ MayChangeSession(path, u)
    /\ base = session.version
    /\ session.status \in IF path = "admin" THEN {"active", "closed"}
                                            ELSE {"active"}
    /\ LET row == [session EXCEPT !.title = title, !.version = @ + 1]
       IN  /\ WriteSession("session.updated", row, 0, m)
           /\ conns' = Published("session.updated", row, 0, m)
    /\ StoreAccepted(m, path, u, base)
    /\ UNCHANGED <<members, logs, invites, draftVars, tickets>>

\* A close that discards nothing is refused while the draft has content or a
\* field is locked; afterwards the handler clears the locks all the same.
CloseSession(path, u, base, m) ==
    /\ Fresh(m)
    /\ MayChangeSession(path, u)
    /\ base = session.version
    /\ session.status = "active"
    /\ ~liveDraftHasActualContent
    /\ DOMAIN locks = {}
    /\ LET row == [session EXCEPT !.status = "closed", !.version = @ + 1]
       IN  /\ WriteSession("session.closed", row, 0, m)
           /\ conns' = Published("session.closed", row, 0, m)
    /\ locks' = clearSession
    /\ StoreAccepted(m, path, u, base)
    /\ UNCHANGED <<members, logs, invites, draft, deviceState, preview, tickets>>

\* close with discardLiveDraftOnClose: the rows of the draft go, and the event
\* announces the version that the next draft is to have.
Discard(m) ==
    /\ session.status = "active"
    /\ LET row == [session EXCEPT !.status = "closed", !.version = @ + 1]
           next == IF draft.present THEN draft.version + 1 ELSE 0
       IN  /\ WriteSession("session.closed", row, next, m)
           /\ conns' = Published("session.closed", row, next, m)
    /\ draft' = NoDraft(draft.id)
    /\ deviceState' = NoRows
    /\ locks' = clearSession
    /\ UNCHANGED <<members, logs, invites, preview, tickets>>

CloseDiscardingLiveDraft(u, base, m) ==
    /\ Fresh(m)
    /\ MayChangeSession("admin", u)
    /\ base = session.version
    /\ Discard(m)
    /\ StoreAccepted(m, "admin", u, base)

\* sweepInactiveSessions acts for the owner under a mutationId of its own.  It is
\* for whoever starts startSessionInactivityMonitor; startServer does not.
SweepInactiveSession ==
    /\ RequireMembership(session.owner, {"owner"})
    /\ Discard(NoMutation)
    /\ UNCHANGED processed

ReopenSession(path, u, base, m) ==
    /\ Fresh(m)
    /\ MayChangeSession(path, u)
    /\ base = session.version
    /\ session.status = "closed"
    /\ LET row == [session EXCEPT !.status = "active", !.version = @ + 1]
       IN  /\ WriteSession("session.reopened", row, 0, m)
           /\ conns' = Published("session.reopened", row, 0, m)
    /\ StoreAccepted(m, path, u, base)
    /\ UNCHANGED <<members, logs, invites, draftVars, tickets>>

\* Everything that gives access goes with the Session; only the member path
\* clears the locks.
DeleteSession(path, u, base, m) ==
    /\ Fresh(m)
    /\ MayChangeSession(path, u)
    /\ base = session.version
    /\ session.status \in {"closed", "initializing"}
    /\ LET row == [session EXCEPT !.deleted = TRUE, !.version = @ + 1]
       IN  /\ WriteSession("session.deleted", row, 0, m)
           /\ conns' = Closed(Published("session.deleted", row, 0, m), User)
    /\ invites' = [i \in DOMAIN invites |-> [invites[i] EXCEPT !.open = FALSE]]
    /\ tickets' = NoRows
    /\ draft' = NoDraft(draft.id)
    /\ deviceState' = NoRows
    /\ locks' = IF path = "batch" THEN clearSession ELSE locks
    /\ StoreAccepted(m, path, u, base)
    /\ UNCHANGED <<members, logs, preview>>

-----------------------------------------------------------------------------
(* Answers that change nothing but processed_mutations *)

\* VERSION_CONFLICT: some Log or the Session itself is not at the baseVersion.
\* mutateSession looks at the version before the status.  mutateSharedRecord
\* throws instead, and stores nothing.
CanConflict(path, u) ==
    \/ MayChangeSession(path, u)
    \/ MayWriteLog(path, u, "update") /\ DOMAIN logs # {}

StoreConflict(path, u, m) ==
    /\ Fresh(m)
    /\ CanConflict(path, u)
    /\ StoreResponse(m, path, u, "conflict")
    /\ UNCHANGED <<session, members, logs, events, invites, draftVars,
                   realtimeVars>>

\* Any other error of an operation of a batch; readSessionAccessIncludingDeleted
\* still lets the members of a deleted Session in.
StoreRejection(u, m) ==
    /\ Fresh(m)
    /\ IsMember(u)
    /\ session.status = "initializing" /\ ~session.deleted
          => members[u].role = "owner"
    /\ StoreResponse(m, "batch", u, "rejected")
    /\ UNCHANGED <<session, members, logs, events, invites, draftVars,
                   realtimeVars>>

-----------------------------------------------------------------------------
(* api/session-event-retention-v1.ts *)

\* Mutant: the event at the target is kept.
PruneEventsKeepsTarget(u, target, m) ==
    /\ Fresh(m)
    /\ u \in Admin
    /\ target \in session.minSeq..session.seq
    /\ target > session.minSeq => target + MinRetained <= session.seq
    /\ session' = [session EXCEPT !.minSeq = target]
    /\ events' = Without(events, (session.minSeq + 1)..(target - 1))
    /\ StoreResponse(m, "admin", u, "done")
    /\ UNCHANGED <<members, logs, invites, draftVars, realtimeVars>>

\* executeRetentionPlan: the events up to target are old enough, and
\* minimumEventsPerSession of them stay; target = minSeq finds nothing to prune.
PruneEvents(u, target, m) ==
    /\ Fresh(m)
    /\ u \in Admin
    /\ target \in session.minSeq..session.seq
    /\ target > session.minSeq => target + MinRetained <= session.seq
    /\ session' = [session EXCEPT !.minSeq = target]
    /\ events' = Without(events, (session.minSeq + 1)..target)
    /\ StoreResponse(m, "admin", u, "done")
    /\ UNCHANGED <<members, logs, invites, draftVars, realtimeVars>>

=============================================================================
