-------------------------- MODULE PersonalPromotion -------------------------
(***************************************************************************)
(* The publication of a personal Session: it is created as a collaboration *)
(* Session, its records are uploaded, and the activation may promote it:   *)
(* then it leaves the snapshot.  The steps of a publication are separate   *)
(* requests, of any devices of the owner, with anything in between.        *)
(***************************************************************************)
EXTENDS PersonalSnapshots

\* PUT /sessions/:sessionId
CreateSession(d, s) ==
    /\ s \in DOMAIN copies[d].sessions
    /\ s \notin DOMAIN remote
    /\ remote' = Put(remote, s, [status |-> "initializing", logs |-> NoRows])
    /\ UNCHANGED <<changes, snapshot, copies, seen, originals, accepted>>

\* POST /bootstrap/logs with one record of d's copy.  A record that is there
\* with the same contents is left alone, with others it is refused.
BootstrapLog(d, s, l) ==
    /\ s \in DOMAIN remote
    /\ remote[s].status = "initializing"
    /\ l \in DOMAIN Live(LogsOf(copies[d].logs, s))
    /\ l \notin DOMAIN remote[s].logs
    /\ remote' = [remote EXCEPT ![s].logs = Put(@, l, copies[d].logs[l])]
    /\ accepted' = accepted \cup ToSet(copies[d].logs[l].history)
    /\ UNCHANGED <<changes, snapshot, copies, seen, originals>>

UploadIsKnown(s) == DOMAIN remote[s].logs \subseteq DOMAIN Live(LogsOf(snapshot.logs, s))

\* The uploaded records are the live records of the snapshot's Session.
UploadIsComplete(s) == remote[s].logs = Live(LogsOf(snapshot.logs, s))

Promotable(s, revision) ==
    /\ BasedOnPresent(revision)
    /\ s \in DOMAIN snapshot.sessions
    /\ snapshot.sessions[s] = "active"
    /\ UploadIsComplete(s)

\* The snapshot without Session s.
WithoutSession(s) ==
    NextSnapshot(Without(snapshot.sessions, {s}),
                 Without(snapshot.logs, DOMAIN LogsOf(snapshot.logs, s)))

\* completePersonalPromotion, unless it was done before.
CompletePersonalPromotion(s, revision) ==
    \/ /\ Promoted(s)
       /\ UNCHANGED <<snapshot, originals>>
    \/ /\ ~Promoted(s)
       /\ Promotable(s, revision)
       /\ originals' = Put(originals, s, LogsOf(snapshot.logs, s))
       /\ snapshot' = WithoutSession(s)

\* POST /activate by d, which knows how many records were uploaded; with
\* personalSnapshotRevision it is a promotion, also when the Session is active
\* already: published without it, and its records still those of the snapshot.
\* The columns of the Logs that a promotion writes are SessionMutations' matter.
Activate(d, s, promote) ==
    /\ s \in DOMAIN remote
    /\ remote[s].status \in {"initializing", "active"}
    /\ IF promote
       THEN CompletePersonalPromotion(s, copies[d].base)
       ELSE UNCHANGED <<snapshot, originals>>
    /\ remote' = [remote EXCEPT ![s].status = "active"]
    /\ UNCHANGED <<changes, copies, seen, accepted>>

\* mutateLog on a published record, by a member or a grantee, or by an
\* administrator, for whom the Session may be closed.
EditRemote(s, l, deleted) ==
    /\ s \in DOMAIN remote
    /\ remote[s].status \in {"active", "closed"}
    /\ \/ Unused(l) /\ ~deleted
       \/ l \in DOMAIN remote[s].logs /\ ~remote[s].logs[l].deleted
    /\ LET old == IF l \in DOMAIN remote[s].logs THEN remote[s].logs[l] ELSE NewLog(s)
       IN  remote' = [remote EXCEPT ![s].logs = Put(@, l, Changed(old, deleted))]
    /\ changes' = changes + 1
    /\ accepted' = accepted \cup {changes'}
    /\ UNCHANGED <<snapshot, copies, seen, originals>>
=============================================================================
