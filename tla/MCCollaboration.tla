-------------------------- MODULE MCCollaboration ---------------------------
(***************************************************************************)
(* Small instances of Collaboration for TLC.  Each focus has the actions   *)
(* that its question needs; the counters are bounded by the constants.     *)
(***************************************************************************)
EXTENDS Collaboration, TLC

CONSTANTS MaxSeq, MaxVersion, MaxMemberVersion, MaxDraft

\* Who takes part in the Session that a focus starts from, and the Logs that were
\* uploaded before its activation.
CONSTANTS Owner, Editors, Uploaded

\* Mutation ids are interchangeable numbers: used in ascending order they
\* reach every state up to their names.
InOrder == DOMAIN processed' = 1..Cardinality(DOMAIN processed')

Bounded ==
    /\ InOrder
    /\ session'.seq <= MaxSeq
    /\ session'.version <= MaxVersion
    /\ \A l \in DOMAIN logs' : logs'[l].version <= MaxVersion
    /\ \A u \in DOMAIN members' : members'[u].version <= MaxMemberVersion
    /\ draft'.version <= MaxDraft /\ draft'.id <= MaxDraft

\* deliverRun is deliver of one event after the other, whatever the socket has
\* taken and has room for.
InTurn(conn, seq, run) ==
    LET after[i \in 0..Len(run)] ==
            IF i = 0 THEN conn ELSE deliver(after[i - 1], seq + i, run[i])
    IN  after[Len(run)]

ASSUME RunsAreDeliveredInTurn ==
    \A open \in BOOLEAN, cursor \in 0..4, buffered \in 0..(MaxBuffered + 1),
       seq \in 0..4, n \in 1..3 :
        LET conn == [user |-> Owner, cursor |-> cursor, open |-> open,
                     wire |-> [i \in 1..buffered |-> [seq |-> i, event |-> i]]]
            run == [i \in 1..n |-> 10 + i]
        IN  deliverRun(conn, seq, run) = InTurn(conn, seq, run)

HistorySymmetry == Permutations(Text) \cup Permutations(Log)

InviteSymmetry == Permutations(Invite)

StreamSymmetry == Permutations(Conn) \cup Permutations(Log)

-----------------------------------------------------------------------------
\* The state after CreateSession(Owner, _, 1), BootstrapLogs(Owner, _, 2) of the
\* Logs in Uploaded, if there are any, Activate(Owner, "none", _) and one
\* AdminAddMember(_, u, "editor", _) for each u in Editors.
ActiveInit ==
    LET answer(kind, u) == [kind |-> kind, user |-> u, outcome |-> "done",
                            seq |-> 0, base |-> 0]
        row(role) == [role |-> role, version |-> 1, removed |-> FALSE]
        activation == IF Uploaded = {} THEN 2 ELSE 3
    IN
    /\ \E t \in Text :
          session = [status |-> "active", deleted |-> FALSE, version |-> 2,
                     title |-> t, owner |-> Owner, seq |-> 1, minSeq |-> 0,
                     promoted |-> {}]
    /\ members = [u \in {Owner} \cup Editors |->
                    row(IF u = Owner THEN "owner" ELSE "editor")]
    /\ \E content \in LogValue : logs = [l \in Uploaded |-> NewLog(content)]
    /\ events = 1 :> EventOf("session.activated", SessionId,
                             SessionBodyOf(session, 0), activation)
    /\ processed = [m \in 1..(activation + Cardinality(Editors)) |->
          CASE m = 1 -> answer("create", Owner)
            [] m = activation -> [answer("bootstrap", Owner) EXCEPT
                                    !.outcome = "accepted", !.seq = 1, !.base = 1]
            [] m \in 2..(activation - 1) -> answer("bootstrap", Owner)
            [] m > activation -> answer("admin", CHOOSE a \in Admin : TRUE)]
    /\ invites = NoRows
    /\ DraftInit
    /\ RealtimeInit

-----------------------------------------------------------------------------
(* The life of a Session, of its Logs and of its event history *)

\* Without a mutation id left, no request has an effect: TLC need not try them.
HistoryNext ==
    /\ \/ SweepInactiveSession
       \/ /\ MutationId \ DOMAIN processed # {}
          /\ \/ LifecycleStep
             \/ LogStep
             \/ CorrectionStep
             \/ RefusalStep
             \/ RetentionStep
    /\ Bounded

HistorySpec == Init /\ [][HistoryNext]_vars

-----------------------------------------------------------------------------
(* Memberships, invites, and the tickets and sockets they entitle to *)

EndOfSession ==
    \E u \in User, base \in BaseVersion, m \in MutationId :
        \E path \in {"batch", "admin"} :
            CloseSession(path, u, base, m) \/ DeleteSession(path, u, base, m)

MembersNext ==
    /\ \/ MemberStep
       \/ AdminMemberStep
       \/ StreamStep
       \/ EndOfSession
    /\ Bounded

MembersSpec == ActiveInit /\ [][MembersNext]_vars

-----------------------------------------------------------------------------
(* Two devices at one draft, and what takes the draft away from them *)

DraftNext ==
    /\ \/ DraftStep
       \/ TimerStep
       \/ EndOfSession
       \/ \E u \in User, base \in BaseVersion, m \in MutationId :
             CloseDiscardingLiveDraft(u, base, m) \/ ReopenSession("batch", u, base, m)
       \/ \E u, target \in User, m \in MutationId :
             RemoveMember(u, target, m) \/ AdminRemoveMember(u, target, m)
       \/ Restart
    /\ Bounded

DraftSpec == ActiveInit /\ [][DraftNext]_vars

-----------------------------------------------------------------------------
(* Sockets that follow the history while it grows and is pruned *)

StreamNext ==
    /\ \/ StreamStep
       \/ \E u \in User, op \in LogOperation, l \in Log, base \in BaseVersion,
             content \in LogValue, m \in MutationId :
             MutateLog("batch", u, op, l, base, content, m)
       \/ CorrectionStep
       \/ RetentionStep
       \/ EndOfSession
       \/ \E u, target \in User, m \in MutationId : RemoveMember(u, target, m)
       \/ Restart
    /\ Bounded

StreamSpec == ActiveInit /\ [][StreamNext]_vars
=============================================================================
