------------------------------- MODULE Public -------------------------------
(***************************************************************************)
(* What people without an account see: public shares, the page of a        *)
(* viewer, the count of opens, and, for all data, the replacement of the   *)
(* database by a backup.                                                   *)
(***************************************************************************)
EXTENDS LiveViewer, DatabaseRecovery

sharingVars == <<serverVars, wireVars, analyticsVars, viewerVars>>
vars == <<sharingVars, recoveryVars>>

\* What changes in the Session, by its members.
SessionStep ==
    /\ \/ \E l \in Log : ChangeLog(l) \/ DeleteLog(l)
       \/ ChangeSession \/ PruneEvent
    /\ UNCHANGED <<analyticsVars, viewerVars>>

\* What changes the shares.
ShareStep ==
    /\ \/ \E s \in Share : CreateShare(s) \/ RevokeShare(s) \/ ShareExpires(s)
       \/ DeleteSession
    /\ UNCHANGED <<analyticsVars, viewerVars>>

ViewerStep ==
    \/ PageStep \/ FaultStep
    \/ CutOff /\ UNCHANGED <<analyticsVars, viewerVars>>
    \/ \E t \in Ticket : OrphanExpires(t)
    \/ \E s \in Share : StopAfterRevoking(s) /\ UNCHANGED <<analyticsVars, viewerVars>>

\* Other pages open links, and the rows of dead shares are cleaned up.
OpenStep ==
    /\ \/ \E s \in Share, id \in View : OpenElsewhere(s, id)
       \/ \E batch \in SUBSET views : CleanUp(batch)
    /\ UNCHANGED <<serverVars, wireVars, viewerVars>>

Init == PublicInit /\ PageInit /\ RecoveryInit

Next ==
    \/ (SessionStep \/ ShareStep \/ ViewerStep \/ OpenStep) /\ UNCHANGED recoveryVars
    \/ (RecoveryStep \/ SettingStep) /\ UNCHANGED sharingVars

\* The page's next step is taken: timers fire, answers and messages arrive or
\* the step is a fault.  The socket's timer or the heartbeat fires, and tickets
\* that nobody holds expire.
Fairness ==
    /\ WF_vars(PageStep /\ UNCHANGED recoveryVars)
    /\ WF_vars(CutOff /\ UNCHANGED <<analyticsVars, viewerVars, recoveryVars>>)
    /\ \A t \in Ticket : WF_vars(OrphanExpires(t) /\ UNCHANGED recoveryVars)

Spec == Init /\ [][Next]_vars /\ Fairness

-----------------------------------------------------------------------------
(* Properties *)

CaughtUp ==
    /\ page.step = "socket" /\ page.stage = "live"
    /\ page.cursor = head /\ page.logs = rows

\* The records were once more than a snapshot takes.
OnceTooLarge == \E n \in 0..head : Cardinality(DOMAIN RowsAt(n)) > SnapshotLimit

\* When faults and changes come to rest, a page whose share is good ends up live
\* at the head with the records of the Session, whatever was lost, pruned, cut
\* off for slowness or expired on the way, and a page whose share is not ends up
\* with nothing to see.  No round repeats a step that cannot succeed.  Two pages
\* stop for good on the way: one that asks for a snapshot of too many records,
\* and one that finds at the start that the server offers no shares.
ViewersCatchUp ==
    []<>(page.step # "closed" /\ Link \in DOMAIN shares =>
            CASE page.step = "tooLarge" -> OnceTooLarge
              [] page.step = "unsupported" -> ~page.capabilityChecked
              [] page.step \notin {"tooLarge", "unsupported"} ->
                    IF Active(Link) THEN CaughtUp ELSE Over /\ page.logs = NoRows)

\* A page shows the records of the Session as its cursor's event left them: no
\* mixture of a snapshot, a backlog and live events that never existed.
ViewersShowOneMoment ==
    page.logs # NoRows => page.logs = RowsAt(page.cursor)

\* No event that was written after a share was revoked, or after its sockets
\* were cut off at its expiry, is sent to a viewer of it or shown by its page.
DeadSharesAreSilent ==
    shutAt # -1 =>
        /\ page.cursor <= shutAt
        /\ \A i \in DOMAIN socket.wire :
              socket.wire[i].type = "event" => socket.wire[i].seq <= shutAt

\* How the link's share stands.
LinkState ==
    IF Link \notin DOMAIN shares THEN "none" ELSE IF Active(Link) THEN "open" ELSE "past"

\* A page follows the history of the Session as a share promises its viewers:
\* whatever is lost, repeated or pruned on the way, it never goes back to an
\* earlier moment, shows none after its end, and says that there is nothing to
\* see only when the share is past and then for good.
Viewing == INSTANCE ViewedHistory WITH
    moments <- [n \in 0..head |-> RowsAt(n)], share <- LinkState, end <- shutAt,
    cursor <- page.cursor, shown <- page.logs, gone <- Over

FollowsHistory == Viewing!Spec

\* The views that opened share s, in all its time.
OpenedOf(s) == {o \in everOpened : o.share = s}

\* The opens of a share are the pages that opened it, each once however often
\* its token was renewed and whichever rows were cleaned up in between, or a lower
\* bound that says so.
OpensAreCounted ==
    \A s \in DOMAIN totals :
        LET pages == Cardinality(OpenedOf(s))
        IN  IF totals[s].saturated THEN totals[s].opens \in 1..pages
            ELSE totals[s].opens = pages

\* The summary, which SQL counts, agrees with the lists of any length, whose rows
\* the program classifies: a list shows no more shares under a status than the
\* summary counts there, and one that has room for all shares shows all of them
\* with all their opens.
SummaryMatchesList ==
    \A limit \in 1..MaxListLimit : \A listed \in Listed(limit) :
        LET shown(status) == {r \in ListRows(listed) : r.status = status}
        IN  /\ \A status \in {"active", "revoked", "expired", "sessionDeleted"} :
                  /\ Cardinality(shown(status)) <= Summary[status]
                  /\ Summary.total <= limit => Cardinality(shown(status)) = Summary[status]
            /\ Summary.total <= limit =>
                  Summary.opens = MapThenSumSet(LAMBDA r : r.opens, ListRows(listed))

\* Data leaves the database only by the first completion of a confirmed restore,
\* which leaves the instance under a new id and all data in the safety backup.
\* (Not so when an attempt of the job failed before: the copy is of that time.)
RestoreLosesNothing ==
    [][~(db.entries \subseteq db'.entries) =>
          /\ pending # None /\ db.instance # pending.newInstance
          /\ db'.instance = pending.newInstance
          /\ \/ pending.job.id \in failed
             \/ pending.job.id \in DOMAIN safety /\ safety[pending.job.id] = db]_vars

\* The server that listens agrees with its database wherever it stopped on the
\* way: a restore that was committed is reported as completed and one that was
\* not is not; every backup of this schema, whichever restores lie between, is
\* accepted for another restore; the schema is the one the program knows; and
\* the settings in force are the stored ones, repeated requests notwithstanding.
ServerFitsDatabase ==
    process = "up" =>
        /\ lastResult # None =>
              (lastResult.status = "completed" <=> lastResult.id \in db.done)
        /\ \A b \in backups \cup Range(safety) :
              b.schema = db.schema => b.instance \in AcceptedInstances
        /\ db.schema = version
        /\ SettingsAreInForce
=============================================================================
