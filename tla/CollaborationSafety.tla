------------------------- MODULE CollaborationSafety ------------------------
(***************************************************************************)
(* What holds of a Session for every value of the constants.  First its    *)
(* types and the contiguity of its event history, TypeInv.  The two are    *)
(* proved together: the backlog of a socket reads events[i] for every i    *)
(* after the cursor of its ticket, and these are events only if the        *)
(* history has no gap.  Then, on TypeInv, what holds of the rows:          *)
(* mutations are applied exactly once, EventLedger is implemented, there   *)
(* is one owner, the events tell of every change and end with the rows of  *)
(* the tables, invites are counted, and nobody who left comes back alone.  *)
(***************************************************************************)
EXTENDS Collaboration, TableLemmas, FiniteSetTheorems, SequenceTheorems, TLAPS

\* EventLogContiguous is not inductive by itself: appending to an interval that
\* is empty because minSeq passed event_seq would not extend it.
HistoryInv ==
    /\ EventLogContiguous
    /\ session.minSeq <= session.seq

TypeInv == TypeOK /\ HistoryInv

-----------------------------------------------------------------------------
(* Responses, events and sockets *)

\* storeResponse writes a response, whatever the outcome.
LEMMA StoreResponseType ==
    ASSUME TypeOK, NEW m \in MutationId, NEW kind \in Kind, NEW u \in User,
           NEW outcome \in Outcome, StoreResponse(m, kind, u, outcome)
    PROVE  IsTable(processed', MutationId, Response)
<1>1. [kind |-> kind, user |-> u, outcome |-> outcome, seq |-> 0, base |-> 0]
          \in Response
  BY DEF Response
<1>. QED
  BY <1>1, PutIsTable DEF StoreResponse, TypeOK, StoreTypeOK

\* The same for the answer of an accepted operation, which names event_seq + 1.
LEMMA StoreAcceptedType ==
    ASSUME TypeOK, NEW m \in MutationId, NEW kind \in Kind, NEW u \in User,
           NEW base \in Nat, StoreAccepted(m, kind, u, base)
    PROVE  IsTable(processed', MutationId, Response)
<1>1. session.seq + 1 \in Nat
  BY DEF TypeOK, StoreTypeOK, SessionRow
<1>2. [kind |-> kind, user |-> u, outcome |-> "accepted",
       seq |-> session.seq + 1, base |-> base] \in Response
  BY <1>1 DEF Response, Outcome
<1>. QED
  BY <1>2, PutIsTable DEF StoreAccepted, TypeOK, StoreTypeOK

\* sessionEventDto of a row and a version.
LEMMA SessionBodyType ==
    ASSUME NEW row \in SessionRow, NEW n \in Nat
    PROVE  /\ SessionBodyOf(row, n) \in SessionBody
           /\ SessionBodyOf(row, n).version = row.version
BY DEF SessionBodyOf, SessionRow, SessionBody

\* The event about the row that a handler wrote.
LEMMA EventOfType ==
    ASSUME NEW type \in EventType, NEW entity \in Log \cup {SessionId},
           NEW body \in LogRow \cup SessionBody,
           NEW m \in MutationId \cup {NoMutation}
    PROVE  EventOf(type, entity, body, m) \in Event
BY DEF EventOf, Event, LogRow, SessionBody

\* appendSessionEvent extends the history by one event under the next number,
\* provided the row it is given still has the old event_seq.
LEMMA AppendEventKeepsHistory ==
    ASSUME TypeInv, NEW row \in SessionRow, row.seq = session.seq,
           row.minSeq = session.minSeq, NEW e \in Event, AppendEvent(row, e)
    PROVE  /\ session' \in SessionRow
           /\ IsTable(events', Nat, Event)
           /\ HistoryInv'
<1>1. session' \in SessionRow /\ session'.seq = session.seq + 1
      /\ session'.minSeq = session.minSeq
  BY DEF AppendEvent, SessionRow
<1>2. session.seq \in Nat /\ session.minSeq \in Nat
  BY DEF TypeInv, TypeOK, StoreTypeOK, SessionRow
<1>3. IsTable(events', Nat, Event)
  BY <1>2, PutIsTable DEF AppendEvent, TypeInv, TypeOK, StoreTypeOK
<1>4. DOMAIN events' = DOMAIN events \cup {session.seq + 1}
  BY RowsAfterPut DEF AppendEvent
<1>5. HistoryInv'
  BY <1>1, <1>2, <1>4 DEF TypeInv, HistoryInv, EventLogContiguous
<1>. QED
  BY <1>1, <1>3, <1>5

\* The row of a Log that is new here.
LEMMA NewLogType ==
    ASSUME NEW content \in Content
    PROVE  NewLog(content) \in LogRow /\ NewLog(content).version = 1
BY DEF NewLog, LogRow

\* appendSessionEvent for several events extends the history by as many.
LEMMA AppendRunKeepsHistory ==
    ASSUME TypeInv, NEW run \in Seq(Event), AppendRun(run)
    PROVE  /\ session' \in SessionRow
           /\ IsTable(events', Nat, Event)
           /\ HistoryInv'
<1>. DEFINE n == Len(run)
            added == [i \in (session.seq + 1)..(session.seq + n) |-> run[i - session.seq]]
<1>1. session \in SessionRow /\ session.seq \in Nat /\ session.minSeq \in Nat
      /\ n \in Nat
  BY LenProperties DEF TypeInv, TypeOK, StoreTypeOK, SessionRow
<1>2. session' = [session EXCEPT !.seq = @ + n] /\ events' = PutAll(events, added)
  BY DEF AppendRun
<1>3. session' \in SessionRow /\ session'.seq = session.seq + n
      /\ session'.minSeq = session.minSeq
  <2>1. session.seq + n \in Nat
    BY <1>1
  <2>. HIDE DEF n
  <2>. QED
    BY <1>1, <1>2, <2>1 DEF SessionRow
<1>4. \A i \in DOMAIN added : added[i] \in Event
  <2>1. ASSUME NEW i \in (session.seq + 1)..(session.seq + n)
        PROVE  run[i - session.seq] \in Event
    <3>1. i - session.seq \in 1..n
      BY <1>1
    <3>. QED
      BY <3>1, ElementOfSeq
  <2>. QED
    BY <2>1
<1>5. DOMAIN added = (session.seq + 1)..(session.seq + n) /\ DOMAIN added \subseteq Nat
  BY <1>1
<1>. HIDE DEF added, n
<1>6. DOMAIN events' = DOMAIN events \cup DOMAIN added
  BY <1>2 DEF PutAll
<1>7. IsTable(events, Nat, Event)
  BY DEF TypeInv, TypeOK, StoreTypeOK
<1>8. IsTable(events', Nat, Event)
  BY <1>2, <1>4, <1>5, <1>7 DEF PutAll, IsTable
<1>9. HistoryInv'
  BY <1>1, <1>3, <1>5, <1>6 DEF TypeInv, HistoryInv, EventLogContiguous
<1>. QED
  BY <1>3, <1>8, <1>9

\* What a socket knows keeps its type when an event is offered to it.
LEMMA DeliverType ==
    ASSUME NEW conn \in ConnRow, NEW seq \in Nat, NEW e \in Event
    PROVE  deliver(conn, seq, e) \in ConnRow
<1>. DEFINE Msg == [seq : Nat, event : Event]
<1>1. conn.wire \in Seq(Msg) /\ [seq |-> seq, event |-> e] \in Msg
  BY DEF ConnRow
<1>2. Append(conn.wire, [seq |-> seq, event |-> e]) \in Seq(Msg)
  BY <1>1
<1>3. send(conn, seq, e) \in ConnRow
  BY <1>2 DEF send, ConnRow
<1>. QED
  BY <1>3 DEF deliver, ConnRow

\* Publishing an event keeps the table of sockets a table.
LEMMA PublishType ==
    ASSUME TypeOK, NEW seq \in Nat, NEW e \in Event
    PROVE  IsTable(publish(conns, seq, e), Conn, ConnRow)
BY DeliverType DEF publish, IsTable, TypeOK, RealtimeTypeOK

\* The same for a run of events, of which a socket takes a part from its cursor on.
LEMMA DeliverRunType ==
    ASSUME NEW conn \in ConnRow, NEW seq \in Nat, NEW run \in Seq(Event)
    PROVE  deliverRun(conn, seq, run) \in ConnRow
<1>. DEFINE Msg == [seq : Nat, event : Event]
            last == seq + Len(run)
            missing == last - conn.cursor
            room == MaxBuffered + 1 - Len(conn.wire)
            sent == IF missing <= room THEN missing ELSE IF room > 0 THEN room ELSE 0
            more == [i \in 1..sent |-> [seq |-> conn.cursor + i,
                                        event |-> run[conn.cursor + i - seq]]]
<1>1. conn.wire \in Seq(Msg) /\ conn.cursor \in Nat
  BY DEF ConnRow
<1>2. Len(run) \in Nat /\ Len(conn.wire) \in Nat /\ MaxBuffered \in Nat
  BY <1>1, LenProperties, RealtimeAssumption
<1>3. CASE ~conn.open \/ last <= conn.cursor
  BY <1>3 DEF deliverRun
<1>4. CASE conn.open /\ last > conn.cursor /\ conn.cursor < seq
  <2>1. deliverRun(conn, seq, run) = [conn EXCEPT !.open = FALSE]
    BY <1>1, <1>2, <1>4 DEF deliverRun
  <2>. QED
    BY <2>1 DEF ConnRow
<1>5. CASE conn.open /\ last > conn.cursor /\ conn.cursor >= seq
  <2>1. sent \in Nat /\ sent <= missing
    <3>1. missing \in Nat /\ room \in Int
      BY <1>1, <1>2, <1>5
    <3>. HIDE DEF missing, room
    <3>. QED
      BY <3>1
  <2>2. \A i \in 1..sent : [seq |-> conn.cursor + i,
                            event |-> run[conn.cursor + i - seq]] \in Msg
    <3>1. ASSUME NEW i \in 1..sent
          PROVE  conn.cursor + i \in Nat /\ run[conn.cursor + i - seq] \in Event
      <4>1. conn.cursor + i - seq \in 1..Len(run) /\ conn.cursor + i \in Nat
        <5>. HIDE DEF sent
        <5>. QED
          BY <1>1, <1>2, <1>5, <2>1
      <4>. QED
        BY <4>1, ElementOfSeq
    <3>. QED
      BY <3>1
  <2>3. more \in [1..sent -> Msg]
    BY <2>2
  <2>4. more \in Seq(Msg)
    <3>. HIDE DEF more, sent, Msg
    <3>. QED
      BY <2>1, <2>3, SeqDef
  <2>5. conn.wire \o more \in Seq(Msg)
    <3>. HIDE DEF more, Msg
    <3>. QED
      BY <1>1, <2>4, ConcatProperties
  <2>6. conn.cursor + sent \in Nat /\ (sent = missing) \in BOOLEAN
    BY <1>1, <2>1
  <2>7. deliverRun(conn, seq, run) =
          [conn EXCEPT !.cursor = conn.cursor + sent, !.open = (sent = missing),
                       !.wire = conn.wire \o more]
    BY <1>1, <1>2, <1>5 DEF deliverRun
  <2>. HIDE DEF more, sent, missing, Msg
  <2>. QED
    BY <2>5, <2>6, <2>7 DEF ConnRow, Msg
<1>. QED
  BY <1>1, <1>2, <1>3, <1>4, <1>5

\* Publishing a run of events keeps the table of sockets a table.
LEMMA PublishRunType ==
    ASSUME TypeOK, NEW seq \in Nat, NEW run \in Seq(Event)
    PROVE  IsTable(publishRun(conns, seq, run), Conn, ConnRow)
BY DeliverRunType DEF publishRun, IsTable, TypeOK, RealtimeTypeOK

\* Closing sockets keeps their table a table.
LEMMA ClosedType ==
    ASSUME NEW table, IsTable(table, Conn, ConnRow), NEW users
    PROVE  IsTable(Closed(table, users), Conn, ConnRow)
BY DEF IsTable, Closed, ConnRow

\* revoke and roleChanged keep the types of tickets and sockets.
LEMMA RevokeUsersType ==
    ASSUME TypeOK, NEW users, RevokeUsers(users)
    PROVE  RealtimeTypeOK'
BY WithoutIsTable, ClosedType DEF RevokeUsers, DropTickets, TypeOK, RealtimeTypeOK

\* What follows the commit of a change of memberships, whether the process gets
\* to it or stops before.
LEMMA AfterCommitType ==
    ASSUME TypeOK, NEW users, NEW kept, IsTable(kept, Field, LockRow),
           AfterCommit(users, kept)
    PROVE  /\ RealtimeTypeOK'
           /\ IsTable(locks', Field, LockRow)
           /\ preview' \in PreviewRow \cup {NoPreview}
<1>1. CASE RevokeUsers(users) /\ locks' = kept /\ UNCHANGED preview
  BY <1>1, RevokeUsersType DEF TypeOK, DraftTypeOK
<1>2. CASE StopsBeforeRevoking(users)
  <2>1. IsTable(tickets', Ticket, TicketRow)
    BY <1>2, WithoutIsTable
       DEF StopsBeforeRevoking, DropTickets, TypeOK, RealtimeTypeOK
  <2>2. conns' = NoRows /\ locks' = NoRows /\ preview' = NoPreview
    BY <1>2 DEF StopsBeforeRevoking
  <2>. QED
    BY <2>1, <2>2, NoRowsIsTable DEF RealtimeTypeOK
<1>. QED
  BY <1>1, <1>2 DEF AfterCommit

\* Publishing the event that was appended keeps the types of tickets and sockets.
LEMMA PublishOnlyType ==
    ASSUME TypeOK, NEW e \in Event, PublishOnly(e)
    PROVE  RealtimeTypeOK'
<1>1. session.seq + 1 \in Nat
  BY DEF TypeOK, StoreTypeOK, SessionRow
<1>. QED
  BY <1>1, PublishType DEF PublishOnly, TypeOK, RealtimeTypeOK

-----------------------------------------------------------------------------
(* The live draft *)

\* ensureDraft yields a draft: its controller, if any, is that of a Log.
LEMMA EnsureDraftType ==
    ASSUME TypeOK, NEW row \in ensureDraft
    PROVE  row \in DraftRow /\ row.present
<1>1. Controller \in Field
  BY DraftAssumption, StoreAssumption
<1>2. PreviousController \subseteq Text \cup {Blank}
  <2>1. ASSUME NEW l \in DOMAIN logs
        PROVE  logs[l].content[Controller] \in Text \cup {Blank}
    <3>1. logs[l] \in LogRow
      BY RowOfTable DEF TypeOK, StoreTypeOK
    <3>. QED
      BY <1>1, <3>1 DEF LogRow, Content
  <2>. QED
    BY <2>1 DEF PreviousController
<1>3. CASE draft.present
  BY <1>3 DEF ensureDraft, TypeOK, DraftTypeOK
<1>4. CASE ~draft.present
  <2>1. PICK c \in Text \cup {Blank} :
          row = [present |-> TRUE, id |-> draft.id + 1, version |-> 1,
                 fields |-> [EmptyFields EXCEPT ![Controller] = c],
                 revs |-> EMPTY_FIELD_REVISIONS]
    BY <1>2, <1>4 DEF ensureDraft
  <2>2. draft.id + 1 \in Nat
    BY DEF TypeOK, DraftTypeOK, DraftRow
  <2>3. [EmptyFields EXCEPT ![Controller] = c] \in Content
    BY DEF EmptyFields, Content
  <2>4. EMPTY_FIELD_REVISIONS \in [Field -> Nat]
    BY DEF EMPTY_FIELD_REVISIONS
  <2>. QED
    BY <2>1, <2>2, <2>3, <2>4 DEF DraftRow
<1>. QED
  BY <1>3, <1>4

\* A new generation of a draft is a draft.
LEMMA ResetDraftType ==
    ASSUME NEW d \in DraftRow
    PROVE  resetDraft(d) \in DraftRow
<1>1. Controller \in Field
  BY DraftAssumption, StoreAssumption
<1>. DEFINE fields == [EmptyFields EXCEPT ![Controller] = d.fields[Controller]]
<1>2. fields \in Content
  BY <1>1 DEF EmptyFields, Content, DraftRow
<1>3. EMPTY_FIELD_REVISIONS \in [Field -> Nat]
  BY DEF EMPTY_FIELD_REVISIONS
<1>4. d.id + 1 \in Nat /\ d.version + 1 \in Nat /\ d.present \in BOOLEAN
  BY DEF DraftRow
<1>5. resetDraft(d) = [d EXCEPT !.id = d.id + 1, !.version = d.version + 1,
                                !.fields = fields, !.revs = EMPTY_FIELD_REVISIONS]
  BY DEF resetDraft
<1>. HIDE DEF fields
<1>. QED
  BY <1>2, <1>3, <1>4, <1>5 DEF DraftRow

\* The draft that is not there.
LEMMA NoDraftType ==
    ASSUME NEW n \in Nat
    PROVE  NoDraft(n) \in DraftRow
BY DEF NoDraft, DraftRow, EmptyFields, EMPTY_FIELD_REVISIONS, Content
-----------------------------------------------------------------------------
(* SessionMutations *)

\* A handler that only stores its answer keeps the invariant.
LEMMA AnswerKeepsInv ==
    ASSUME TypeInv, NEW m \in MutationId, NEW kind \in Kind, NEW u \in User,
           NEW outcome \in Outcome, StoreResponse(m, kind, u, outcome),
           UNCHANGED <<session, members, logs, events, invites, draftVars,
                       realtimeVars>>
    PROVE  TypeInv'
<1>1. IsTable(processed', MutationId, Response)
  BY StoreResponseType DEF TypeInv
<1>. QED
  BY <1>1 DEF TypeInv, TypeOK, StoreTypeOK, DraftTypeOK, RealtimeTypeOK, draftVars,
     realtimeVars, HistoryInv, EventLogContiguous

\* The UPDATE of the Session row, its event, and what publishing that yields.
LEMMA WriteSessionKeepsHistory ==
    ASSUME TypeInv, NEW row \in SessionRow, row.seq = session.seq,
           row.minSeq = session.minSeq, NEW type \in EventType, NEW n \in Nat,
           NEW m \in MutationId \cup {NoMutation}, WriteSession(type, row, n, m)
    PROVE  /\ session' \in SessionRow
           /\ IsTable(events', Nat, Event)
           /\ HistoryInv'
           /\ IsTable(Published(type, row, n, m), Conn, ConnRow)
<1>. DEFINE e == EventOf(type, SessionId, SessionBodyOf(row, n), m)
<1>1. e \in Event
  BY SessionBodyType, EventOfType
<1>2. session.seq + 1 \in Nat
  BY DEF TypeInv, TypeOK, StoreTypeOK, SessionRow
<1>3. IsTable(Published(type, row, n, m), Conn, ConnRow)
  BY <1>1, <1>2, PublishType DEF Published, TypeInv
<1>4. AppendEvent(row, e)
  BY DEF WriteSession
<1>. HIDE DEF e
<1>. QED
  BY <1>1, <1>3, <1>4, AppendEventKeepsHistory

\* The columns of the Session row that handlers compute with.
LEMMA SessionColumns ==
    ASSUME TypeInv
    PROVE  /\ session \in SessionRow
           /\ session.version \in Nat /\ session.version + 1 \in Nat
           /\ session.seq \in Nat /\ session.minSeq \in Nat
           /\ session.owner \in User
BY DEF TypeInv, TypeOK, StoreTypeOK, SessionRow

\* A handler that sets the status, the title or the deletion of the Session
\* makes a row of the next version.
LEMMA NextSessionRow ==
    ASSUME TypeInv, NEW row,
           \/ \E status \in Status :
                 row = [session EXCEPT !.status = status, !.version = @ + 1]
           \/ \E title \in Text :
                 row = [session EXCEPT !.title = title, !.version = @ + 1]
           \/ row = [session EXCEPT !.deleted = TRUE, !.version = @ + 1]
    PROVE  row \in SessionRow /\ row.seq = session.seq /\ row.minSeq = session.minSeq
<1>1. session \in SessionRow /\ session.version + 1 \in Nat
  BY SessionColumns
<1>. DEFINE v == session.version + 1
<1>3. \/ \E status \in Status : row = [session EXCEPT !.status = status, !.version = v]
      \/ \E title \in Text : row = [session EXCEPT !.title = title, !.version = v]
      \/ row = [session EXCEPT !.deleted = TRUE, !.version = v]
  OBVIOUS
<1>. HIDE DEF v
<1>4. v \in Nat
  BY <1>1 DEF v
<1>. QED
  BY <1>1, <1>3, <1>4 DEF SessionRow

\* Completing a promotion changes neither the history nor which Logs there are.
LEMMA PromotionType ==
    ASSUME TypeInv, NEW u \in User, NEW revision,
           completePersonalPromotion(u, revision)
    PROVE  /\ IsTable(logs', Log, LogRow)
           /\ PromotedRow(u, revision) \in SessionRow
           /\ PromotedRow(u, revision) = [session EXCEPT
                                            !.promoted = PromotedRow(u, revision).promoted]
<1>1. session \in SessionRow /\ IsTable(logs, Log, LogRow)
  BY DEF TypeInv, TypeOK, StoreTypeOK
<1>2. IsTable(logs', Log, LogRow)
  <2>1. ASSUME NEW l \in DOMAIN logs
        PROVE  [logs[l] EXCEPT !.stamp = "personal"] \in LogRow
    <3>1. logs[l] \in LogRow
      BY <1>1, RowOfTable
    <3>. QED
      BY <3>1 DEF LogRow
  <2>. QED
    BY <1>1, <2>1 DEF completePersonalPromotion, IsTable
<1>3. session.promoted \cup {u} \in SUBSET User /\ session.promoted \in SUBSET User
  BY <1>1 DEF SessionRow
<1>. QED
  BY <1>1, <1>2, <1>3 DEF PromotedRow, SessionRow

\* The Session row that activating makes of the one before.
IsActivation(row) ==
    /\ row \in SessionRow
    /\ row.seq = session.seq /\ row.minSeq = session.minSeq
    /\ row.status = "active" /\ row.version = session.version + 1
    /\ row.title = session.title /\ row.deleted = session.deleted
    /\ row.owner = session.owner

LEMMA ActivationType ==
    ASSUME TypeInv, NEW u \in User, NEW revision, NEW m, Activate(u, revision, m)
    PROVE  \E row : LET e == EventOf("session.activated", SessionId,
                                     SessionBodyOf(row, 0), m)
                    IN  IsActivation(row) /\ AppendEvent(row, e) /\ PublishOnly(e)
<1>. DEFINE before == PromotedRow(u, revision)
            v == session.version + 1
            row == [before EXCEPT !.status = "active", !.version = v]
            e == EventOf("session.activated", SessionId, SessionBodyOf(row, 0), m)
<1>1. /\ before \in SessionRow /\ before = [session EXCEPT !.promoted = before.promoted]
  BY PromotionType DEF Activate
<1>2. IsActivation(row)
  <2>1. v \in Nat /\ session \in SessionRow
    BY SessionColumns
  <2>. HIDE DEF before
  <2>. QED
    BY <1>1, <2>1 DEF IsActivation, SessionRow, Status
<1>3. AppendEvent(row, e) /\ PublishOnly(e)
  BY DEF Activate
<1>. HIDE DEF row
<1>. QED
  BY <1>2, <1>3

\* Creating, filling and activating a Session.
LEMMA BeginningKeepsInv ==
    ASSUME TypeInv, NEW u \in User, NEW m \in MutationId,
           \/ \E title \in Text : CreateSession(u, title, m)
           \/ ConfirmSession(u, m)
           \/ \E S \in (SUBSET Log) \ {{}} : \E batch \in [S -> LogValue] :
                 BootstrapLogs(u, batch, m)
           \/ \E revision \in {"none", "named"} : \/ Activate(u, revision, m)
                                                  \/ ActivateAgain(u, revision, m)
    PROVE  TypeInv'
<1>. USE DEF TypeInv, TypeOK, StoreTypeOK, DraftTypeOK, RealtimeTypeOK, draftVars,
         realtimeVars
<1>1. ASSUME NEW title \in Text, CreateSession(u, title, m)  PROVE TypeInv'
  <2>1. /\ session' \in SessionRow /\ session'.seq = session.seq
        /\ session'.minSeq = session.minSeq
    BY <1>1 DEF CreateSession, SessionRow, Status
  <2>2. [role |-> "owner", version |-> 1, removed |-> FALSE] \in MemberRow
    BY DEF MemberRow, Role
  <2>3. IsTable(members', User, MemberRow)
    BY <1>1, <2>2, PutIsTable DEF CreateSession
  <2>4. IsTable(processed', MutationId, Response)
    BY <1>1, StoreResponseType DEF CreateSession, Kind, Outcome
  <2>5. HistoryInv'
    BY <1>1, <2>1 DEF CreateSession, HistoryInv, EventLogContiguous
  <2>. QED
    BY <1>1, <2>1, <2>3, <2>4, <2>5 DEF CreateSession
<1>2. CASE ConfirmSession(u, m)
  BY <1>2, AnswerKeepsInv DEF ConfirmSession, Kind, Outcome
<1>3. ASSUME NEW S \in SUBSET Log, NEW batch \in [S -> LogValue],
             BootstrapLogs(u, batch, m)
      PROVE  TypeInv'
  <2>1. ASSUME NEW l \in S
        PROVE  NewLog(batch[l]) \in LogRow
    BY NewLogType DEF LogValue
  <2>2. IsTable(logs', Log, LogRow)
    BY <1>3, <2>1 DEF BootstrapLogs, IsTable
  <2>3. IsTable(processed', MutationId, Response)
    BY <1>3, StoreResponseType DEF BootstrapLogs, Kind, Outcome
  <2>4. HistoryInv'
    BY <1>3 DEF BootstrapLogs, HistoryInv, EventLogContiguous
  <2>. QED
    BY <1>3, <2>2, <2>3, <2>4 DEF BootstrapLogs
<1>4. ASSUME NEW revision, Activate(u, revision, m)  PROVE TypeInv'
  <2>1. PICK row : LET e == EventOf("session.activated", SessionId,
                                    SessionBodyOf(row, 0), m)
                   IN  IsActivation(row) /\ AppendEvent(row, e) /\ PublishOnly(e)
    BY <1>4, ActivationType
  <2>2. /\ WriteSession("session.activated", row, 0, m)
        /\ conns' = Published("session.activated", row, 0, m)
        /\ UNCHANGED <<members, invites, draftVars, tickets>>
    BY <1>4, <2>1 DEF Activate, WriteSession, Published, PublishOnly
  <2>3. /\ session' \in SessionRow /\ IsTable(events', Nat, Event) /\ HistoryInv'
        /\ IsTable(conns', Conn, ConnRow)
    BY <2>1, <2>2, WriteSessionKeepsHistory DEF EventType, IsActivation
  <2>4. IsTable(processed', MutationId, Response)
    <3>1. session.version \in Nat
      BY DEF SessionRow
    <3>. QED
      BY <1>4, <3>1, StoreAcceptedType DEF Activate, Kind
  <2>5. IsTable(logs', Log, LogRow)
    BY <1>4, PromotionType DEF Activate
  <2>. QED
    BY <2>2, <2>3, <2>4, <2>5
<1>5. ASSUME NEW revision, ActivateAgain(u, revision, m)  PROVE TypeInv'
  <2>1. /\ IsTable(logs', Log, LogRow) /\ session' \in SessionRow
        /\ session' = [session EXCEPT !.promoted = session'.promoted]
    BY <1>5, PromotionType DEF ActivateAgain
  <2>2. session'.seq = session.seq /\ session'.minSeq = session.minSeq
    BY <2>1 DEF SessionRow
  <2>3. IsTable(processed', MutationId, Response)
    BY <1>5, StoreResponseType DEF ActivateAgain, Kind, Outcome
  <2>4. HistoryInv'
    BY <1>5, <2>2 DEF ActivateAgain, HistoryInv, EventLogContiguous
  <2>. QED
    BY <1>5, <2>1, <2>3, <2>4 DEF ActivateAgain
<1>. QED
  BY <1>1, <1>2, <1>3, <1>4, <1>5

\* A change of the Session row, once what it does to the other tables is known.
LEMMA SessionChangeKeepsInv ==
    ASSUME TypeInv, NEW row,
           \/ \E status \in Status :
                 row = [session EXCEPT !.status = status, !.version = @ + 1]
           \/ \E title \in Text :
                 row = [session EXCEPT !.title = title, !.version = @ + 1]
           \/ row = [session EXCEPT !.deleted = TRUE, !.version = @ + 1],
           NEW type \in EventType, NEW n \in Nat,
           NEW m \in MutationId \cup {NoMutation}, WriteSession(type, row, n, m),
           \/ conns' = Published(type, row, n, m)
           \/ conns' = Closed(Published(type, row, n, m), User),
           IsTable(processed', MutationId, Response),
           IsTable(invites', Invite, InviteRow),
           IsTable(tickets', Ticket, TicketRow),
           DraftTypeOK', UNCHANGED <<members, logs>>
    PROVE  TypeInv'
<1>1. row \in SessionRow /\ row.seq = session.seq /\ row.minSeq = session.minSeq
  BY NextSessionRow
<1>2. /\ session' \in SessionRow
      /\ IsTable(events', Nat, Event)
      /\ HistoryInv'
      /\ IsTable(Published(type, row, n, m), Conn, ConnRow)
  BY <1>1, WriteSessionKeepsHistory
<1>3. IsTable(conns', Conn, ConnRow)
  BY <1>2, ClosedType
<1>. QED
  BY <1>2, <1>3 DEF TypeInv, TypeOK, StoreTypeOK, RealtimeTypeOK

\* Both ways to close a Session and discard its draft.
LEMMA DiscardKeepsInv ==
    ASSUME TypeInv, NEW m \in MutationId \cup {NoMutation}, Discard(m),
           IsTable(processed', MutationId, Response)
    PROVE  TypeInv'
<1>. DEFINE row == [session EXCEPT !.status = "closed", !.version = @ + 1]
            next == IF draft.present THEN draft.version + 1 ELSE 0
<1>1. next \in Nat /\ draft.id \in Nat
  BY DEF TypeInv, TypeOK, DraftTypeOK, DraftRow
<1>2. \E status \in Status :
         row = [session EXCEPT !.status = status, !.version = @ + 1]
  BY DEF Status
<1>3. WriteSession("session.closed", row, next, m)
      /\ conns' = Published("session.closed", row, next, m)
  BY DEF Discard
<1>4. DraftTypeOK'
  <2>1. draft' \in DraftRow
    BY <1>1, NoDraftType DEF Discard
  <2>2. /\ IsTable(deviceState', User \X Device, Nat)
        /\ IsTable(locks', Field, LockRow)
    BY NoRowsIsTable DEF Discard, clearSession
  <2>. QED
    BY <2>1, <2>2 DEF Discard, DraftTypeOK, TypeInv, TypeOK
<1>5. /\ IsTable(invites', Invite, InviteRow)
      /\ IsTable(tickets', Ticket, TicketRow)
      /\ UNCHANGED <<members, logs>>
  BY DEF Discard, TypeInv, TypeOK, StoreTypeOK, RealtimeTypeOK
<1>. HIDE DEF row, next
<1>. QED
  BY <1>1, <1>2, <1>3, <1>4, <1>5, SessionChangeKeepsInv DEF EventType

\* Editing, closing, reopening and deleting a Session.
LEMMA SessionUpdatesKeepInv ==
    ASSUME TypeInv, NEW path \in {"batch", "admin"}, NEW u \in User,
           NEW base \in BaseVersion, NEW m \in MutationId,
           \/ \E title \in Text : UpdateSession(path, u, title, base, m)
           \/ CloseSession(path, u, base, m)
           \/ CloseDiscardingLiveDraft(u, base, m)
           \/ ReopenSession(path, u, base, m)
           \/ DeleteSession(path, u, base, m)
    PROVE  TypeInv'
<1>1. StoreAccepted(m, path, u, base) \/ StoreAccepted(m, "admin", u, base)
  BY DEF UpdateSession, CloseSession, CloseDiscardingLiveDraft, ReopenSession,
     DeleteSession
<1>2. IsTable(processed', MutationId, Response)
  BY <1>1, StoreAcceptedType, MutationAssumption DEF TypeInv, Kind
<1>3. ASSUME NEW title \in Text, UpdateSession(path, u, title, base, m)
      PROVE  TypeInv'
  <2>. DEFINE row == [session EXCEPT !.title = title, !.version = @ + 1]
  <2>1. /\ WriteSession("session.updated", row, 0, m)
        /\ conns' = Published("session.updated", row, 0, m)
        /\ UNCHANGED <<members, logs, invites, draftVars, tickets>>
    BY <1>3 DEF UpdateSession
  <2>2. /\ DraftTypeOK' /\ IsTable(tickets', Ticket, TicketRow)
        /\ IsTable(invites', Invite, InviteRow)
    BY <2>1 DEF TypeInv, TypeOK, StoreTypeOK, DraftTypeOK, RealtimeTypeOK, draftVars
  <2>3. \E t \in Text : row = [session EXCEPT !.title = t, !.version = @ + 1]
    OBVIOUS
  <2>. HIDE DEF row
  <2>. QED
    BY <1>2, <2>1, <2>2, <2>3, SessionChangeKeepsInv DEF EventType
<1>4. CASE CloseSession(path, u, base, m) \/ ReopenSession(path, u, base, m)
  <2>1. PICK status \in Status, type \in EventType :
           LET row == [session EXCEPT !.status = status, !.version = @ + 1]
           IN  /\ WriteSession(type, row, 0, m)
               /\ conns' = Published(type, row, 0, m)
    BY <1>4 DEF CloseSession, ReopenSession, Status, EventType
  <2>. DEFINE row == [session EXCEPT !.status = status, !.version = @ + 1]
  <2>2. /\ locks' = NoRows \/ UNCHANGED locks
        /\ UNCHANGED <<members, logs, invites, draft, deviceState, preview, tickets>>
    BY <1>4 DEF CloseSession, ReopenSession, clearSession, draftVars
  <2>3. /\ DraftTypeOK' /\ IsTable(tickets', Ticket, TicketRow)
        /\ IsTable(invites', Invite, InviteRow)
    BY <2>2, NoRowsIsTable DEF TypeInv, TypeOK, StoreTypeOK, DraftTypeOK,
       RealtimeTypeOK
  <2>4. \E s \in Status : row = [session EXCEPT !.status = s, !.version = @ + 1]
    OBVIOUS
  <2>5. WriteSession(type, row, 0, m) /\ conns' = Published(type, row, 0, m)
    BY <2>1
  <2>. HIDE DEF row
  <2>. QED
    BY <1>2, <2>2, <2>3, <2>4, <2>5, SessionChangeKeepsInv
<1>5. CASE CloseDiscardingLiveDraft(u, base, m)
  BY <1>2, <1>5, DiscardKeepsInv DEF CloseDiscardingLiveDraft
<1>6. CASE DeleteSession(path, u, base, m)
  <2>. DEFINE row == [session EXCEPT !.deleted = TRUE, !.version = @ + 1]
  <2>1. /\ WriteSession("session.deleted", row, 0, m)
        /\ conns' = Closed(Published("session.deleted", row, 0, m), User)
        /\ UNCHANGED <<members, logs, preview>>
    BY <1>6 DEF DeleteSession
  <2>2. IsTable(tickets', Ticket, TicketRow)
    BY <1>6, NoRowsIsTable DEF DeleteSession
  <2>3. IsTable(invites', Invite, InviteRow)
    BY <1>6 DEF DeleteSession, IsTable, InviteRow, TypeInv, TypeOK, StoreTypeOK
  <2>4. DraftTypeOK'
    <3>1. draft' \in DraftRow
      BY <1>6, NoDraftType DEF DeleteSession, TypeInv, TypeOK, DraftTypeOK, DraftRow
    <3>2. /\ IsTable(deviceState', User \X Device, Nat)
          /\ IsTable(locks', Field, LockRow)
      BY <1>6, NoRowsIsTable
         DEF DeleteSession, clearSession, TypeInv, TypeOK, DraftTypeOK
    <3>. QED
      BY <2>1, <3>1, <3>2 DEF DraftTypeOK, TypeInv, TypeOK
  <2>5. row = [session EXCEPT !.deleted = TRUE, !.version = @ + 1]
    OBVIOUS
  <2>. HIDE DEF row
  <2>. QED
    BY <1>2, <2>1, <2>2, <2>3, <2>4, <2>5, SessionChangeKeepsInv DEF EventType
<1>. QED
  BY <1>3, <1>4, <1>5, <1>6

\* sweepInactiveSessions
LEMMA SweepKeepsInv ==
    ASSUME TypeInv, SweepInactiveSession
    PROVE  TypeInv'
BY DiscardKeepsInv DEF SweepInactiveSession, TypeInv, TypeOK, StoreTypeOK

\* Every handler of the life of a Session.
LEMMA LifecycleKeepsInv ==
    ASSUME TypeInv, LifecycleStep
    PROVE  TypeInv'
<1>1. PICK u \in User, m \in MutationId :
        \/ \E title \in Text : CreateSession(u, title, m)
        \/ ConfirmSession(u, m)
        \/ \E S \in (SUBSET Log) \ {{}} : \E batch \in [S -> LogValue] :
              BootstrapLogs(u, batch, m)
        \/ \E revision \in {"none", "named"} : \/ Activate(u, revision, m)
                                               \/ ActivateAgain(u, revision, m)
        \/ \E base \in BaseVersion, path \in {"batch", "admin"} :
              \/ \E title \in Text : UpdateSession(path, u, title, base, m)
              \/ CloseSession(path, u, base, m)
              \/ ReopenSession(path, u, base, m)
              \/ DeleteSession(path, u, base, m)
        \/ \E base \in BaseVersion : CloseDiscardingLiveDraft(u, base, m)
  BY DEF LifecycleStep
<1>2. CASE \E base \in BaseVersion, path \in {"batch", "admin"} :
              \/ \E title \in Text : UpdateSession(path, u, title, base, m)
              \/ CloseSession(path, u, base, m)
              \/ ReopenSession(path, u, base, m)
              \/ DeleteSession(path, u, base, m)
  BY <1>2, SessionUpdatesKeepInv
<1>3. CASE \E base \in BaseVersion : CloseDiscardingLiveDraft(u, base, m)
  <2>1. "admin" \in {"batch", "admin"}
    OBVIOUS
  <2>. QED
    BY <1>3, <2>1, SessionUpdatesKeepInv
<1>4. CASE \/ \E title \in Text : CreateSession(u, title, m)
           \/ ConfirmSession(u, m)
           \/ \E S \in (SUBSET Log) \ {{}} : \E batch \in [S -> LogValue] :
                 BootstrapLogs(u, batch, m)
           \/ \E revision \in {"none", "named"} : \/ Activate(u, revision, m)
                                                  \/ ActivateAgain(u, revision, m)
  BY <1>4, BeginningKeepsInv
<1>. QED
  BY <1>1, <1>2, <1>3, <1>4

\* The row that mutateLog writes.
LEMMA WrittenLogType ==
    ASSUME TypeInv, NEW op \in LogOperation, NEW l \in Log, NEW base,
           NEW content \in LogValue, Applies(op, l, base)
    PROVE  WrittenLog(op, l, content) \in LogRow
<1>1. content \in Content
  BY DEF LogValue
<1>2. CASE op = "create"
  BY <1>1, <1>2, NewLogType DEF WrittenLog
<1>3. CASE op # "create"
  <2>1. l \in DOMAIN logs
    BY <1>3 DEF Applies
  <2>2. logs[l] \in LogRow
    BY <2>1, RowOfTable DEF TypeInv, TypeOK, StoreTypeOK
  <2>. DEFINE v == logs[l].version + 1
  <2>3. v \in Nat
    BY <2>2 DEF LogRow
  <2>4. \/ WrittenLog(op, l, content) = [logs[l] EXCEPT !.version = v, !.deleted = TRUE,
                                                        !.stamp = "server"]
        \/ WrittenLog(op, l, content) = [NewLog(content) EXCEPT !.version = v]
    BY <1>3 DEF WrittenLog, LogOperation
  <2>. HIDE DEF v
  <2>5. [logs[l] EXCEPT !.version = v, !.deleted = TRUE, !.stamp = "server"] \in LogRow
    BY <2>2, <2>3 DEF LogRow
  <2>6. [NewLog(content) EXCEPT !.version = v] \in LogRow
    BY <1>1, <2>3 DEF LogRow, NewLog
  <2>. QED
    BY <2>4, <2>5, <2>6
<1>. QED
  BY <1>2, <1>3

\* A Log row and its event, written by mutateLog or by the commit of a draft.
LEMMA LogChangeKeepsInv ==
    ASSUME TypeInv, NEW l \in Log, NEW row \in LogRow, NEW type \in EventType,
           NEW m \in MutationId, logs' = Put(logs, l, row),
           AppendEvent(session, EventOf(type, l, row, m)),
           PublishOnly(EventOf(type, l, row, m)),
           IsTable(processed', MutationId, Response), DraftTypeOK',
           UNCHANGED <<members, invites>>
    PROVE  TypeInv'
<1>. DEFINE e == EventOf(type, l, row, m)
<1>1. e \in Event
  BY EventOfType
<1>2. AppendEvent(session, e) /\ PublishOnly(e)
  OBVIOUS
<1>. HIDE DEF e
<1>3. session' \in SessionRow /\ IsTable(events', Nat, Event) /\ HistoryInv'
  BY <1>1, <1>2, SessionColumns, AppendEventKeepsHistory
<1>4. RealtimeTypeOK'
  BY <1>1, <1>2, PublishOnlyType DEF TypeInv
<1>5. IsTable(logs', Log, LogRow)
  BY PutIsTable DEF TypeInv, TypeOK, StoreTypeOK
<1>. QED
  BY <1>3, <1>4, <1>5 DEF TypeInv, TypeOK, StoreTypeOK

\* mutateLog on each of its paths.
LEMMA LogStepKeepsInv ==
    ASSUME TypeInv, LogStep
    PROVE  TypeInv'
<1>1. PICK path \in Path, u \in User, op \in LogOperation, l \in Log,
          base \in BaseVersion, content \in LogValue, m \in MutationId :
          MutateLog(path, u, op, l, base, content, m)
  BY DEF LogStep
<1>. DEFINE row == WrittenLog(op, l, content)
<1>2. row \in LogRow
  BY <1>1, WrittenLogType DEF MutateLog
<1>3. LogEventType[op] \in EventType
  BY DEF LogEventType, LogOperation, EventType
<1>4. IsTable(processed', MutationId, Response)
  BY <1>1, StoreAcceptedType, MutationAssumption DEF MutateLog, TypeInv, Kind, Path
<1>5. DraftTypeOK'
  BY <1>1 DEF MutateLog, draftVars, TypeInv, TypeOK, DraftTypeOK
<1>6. /\ logs' = Put(logs, l, row)
      /\ AppendEvent(session, EventOf(LogEventType[op], l, row, m))
      /\ PublishOnly(EventOf(LogEventType[op], l, row, m))
      /\ UNCHANGED <<members, invites>>
  BY <1>1 DEF MutateLog
<1>. HIDE DEF row
<1>. QED
  BY <1>2, <1>3, <1>4, <1>5, <1>6, LogChangeKeepsInv

\* What one application of corrections writes, event by event.
LEMMA CorrectionsType ==
    ASSUME TypeInv, NEW corrections \in Selections, NEW m \in MutationId,
           Fitting(corrections)
    PROVE  /\ Len(corrections) \in Nat \ {0}
           /\ DOMAIN corrections = 1..Len(corrections)
           /\ Len(CorrectionEvents(corrections, m)) = Len(corrections)
           /\ CorrectionEvents(corrections, m) \in Seq(Event)
           /\ \A i \in 1..Len(corrections) :
                 /\ corrections[i].log \in Log /\ corrections[i].log \in DOMAIN logs
                 /\ CorrectedLog(corrections[i]) \in LogRow
                 /\ CorrectedLog(corrections[i]).version =
                        logs[corrections[i].log].version + 1
                 /\ CorrectionEvents(corrections, m)[i] =
                       EventOf("log.updated", corrections[i].log,
                               CorrectedLog(corrections[i]), m)
           /\ IsTable(CorrectedLogs(corrections), Log, LogRow)
<1>. DEFINE Proposal == [log : Log, content : LogValue]
            run == CorrectionEvents(corrections, m)
<1>1. PICK n \in 1..MaxProposals : corrections \in [1..n -> Proposal]
  BY DEF Selections
<1>2. n \in Nat \ {0}
  BY MutationAssumption
<1>3. Len(corrections) = n /\ DOMAIN corrections = 1..n
  <2>1. corrections \in Seq(Proposal)
    <3>. HIDE DEF Proposal
    <3>. QED
      BY <1>1, <1>2, SeqDef
  <2>2. Len(corrections) \in Nat /\ DOMAIN corrections = 1..Len(corrections)
    <3>. HIDE DEF Proposal
    <3>. QED
      BY <2>1, LenProperties
  <2>. QED
    BY <1>1, <1>2, <2>2
<1>4. ASSUME NEW i \in 1..n
      PROVE  /\ corrections[i].log \in Log /\ corrections[i].log \in DOMAIN logs
             /\ CorrectedLog(corrections[i]) \in LogRow
             /\ CorrectedLog(corrections[i]).version =
                    logs[corrections[i].log].version + 1
  <2>1. /\ corrections[i].log \in Log /\ corrections[i].content \in Content
    BY <1>1 DEF LogValue
  <2>2. corrections[i].log \in DOMAIN logs
    BY <1>3 DEF Fitting
  <2>. DEFINE l == corrections[i].log
              v == logs[l].version + 1
  <2>3. v \in Nat
    <3>1. logs[l] \in LogRow
      BY <2>2, RowOfTable DEF TypeInv, TypeOK, StoreTypeOK
    <3>. QED
      BY <3>1 DEF LogRow
  <2>4. CorrectedLog(corrections[i]) = [NewLog(corrections[i].content) EXCEPT !.version = v]
    BY DEF CorrectedLog, WrittenLog
  <2>. HIDE DEF v
  <2>5. CorrectedLog(corrections[i]) \in LogRow /\ CorrectedLog(corrections[i]).version = v
    BY <2>1, <2>3, <2>4 DEF LogRow, NewLog
  <2>. QED
    BY <2>1, <2>2, <2>5 DEF v
<1>5. run = [i \in 1..n |-> EventOf("log.updated", corrections[i].log,
                                   CorrectedLog(corrections[i]), m)]
  BY <1>3 DEF CorrectionEvents
<1>6. \A i \in 1..n : EventOf("log.updated", corrections[i].log,
                            CorrectedLog(corrections[i]), m) \in Event
  BY <1>4, EventOfType DEF EventType
<1>7. run \in [1..n -> Event]
  BY <1>5, <1>6
<1>. HIDE DEF run
<1>8. run \in Seq(Event)
  BY <1>2, <1>7, SeqDef
<1>9. Len(run) = n
  <2>1. Len(run) \in Nat /\ DOMAIN run = 1..Len(run)
    BY <1>8, LenProperties
  <2>. QED
    BY <1>2, <1>7, <2>1
<1>10. IsTable(CorrectedLogs(corrections), Log, LogRow)
  <2>1. IsTable(logs, Log, LogRow)
    BY DEF TypeInv, TypeOK, StoreTypeOK
  <2>2. ASSUME NEW l \in DOMAIN logs, NEW j \in DOMAIN corrections, corrections[j].log = l
        PROVE  CorrectedLog(corrections[CHOOSE i \in DOMAIN corrections :
                                            corrections[i].log = l]) \in LogRow
    <3>. DEFINE i0 == CHOOSE i \in DOMAIN corrections : corrections[i].log = l
    <3>1. i0 \in DOMAIN corrections
      BY <2>2
    <3>. HIDE DEF i0
    <3>2. CorrectedLog(corrections[i0]) \in LogRow
      BY <1>3, <1>4, <3>1
    <3>. QED
      BY <3>2 DEF i0
  <2>3. ASSUME NEW l \in DOMAIN logs
        PROVE  CorrectedLogs(corrections)[l] \in LogRow
    <3>1. CASE \E i \in DOMAIN corrections : corrections[i].log = l
      BY <2>2, <3>1 DEF CorrectedLogs
    <3>2. CASE ~\E i \in DOMAIN corrections : corrections[i].log = l
      BY <2>1, <3>2, RowOfTable DEF CorrectedLogs
    <3>. QED
      BY <3>1, <3>2
  <2>4. CorrectedLogs(corrections) = [l \in DOMAIN logs |-> CorrectedLogs(corrections)[l]]
    BY DEF CorrectedLogs
  <2>. QED
    BY <2>1, <2>3, <2>4 DEF IsTable
<1>. QED
  BY <1>2, <1>3, <1>4, <1>5, <1>8, <1>9, <1>10 DEF run

\* One application of corrections, entry by entry and Log by Log.
CorrectionsAreMade(corrections, n, m) ==
    /\ n \in Nat \ {0}
    /\ session' = [session EXCEPT !.seq = session.seq + n]
    /\ session'.seq = session.seq + n /\ session'.minSeq = session.minSeq
    /\ DOMAIN events' = DOMAIN events \cup (session.seq + 1)..(session.seq + n)
    /\ \A i \in DOMAIN events : events'[i] = events[i]
    /\ \A i \in 1..n :
          LET e == events'[session.seq + i]
              l == corrections[i].log
          IN  /\ l \in Log /\ l \in DOMAIN logs
              /\ e.entity = l /\ e.mutation = m /\ e.type = "log.updated"
              /\ e.body = logs'[l]
              /\ e.version = logs'[l].version
              /\ logs'[l].version = logs[l].version + 1
    /\ \A i, j \in 1..n : corrections[i].log = corrections[j].log => i = j
    /\ DOMAIN logs' = DOMAIN logs
    /\ \A l \in DOMAIN logs :
          (\A i \in 1..n : corrections[i].log # l) => logs'[l] = logs[l]

LEMMA CorrectionsApplied ==
    ASSUME TypeInv, NEW u \in User, NEW corrections \in Selections,
           NEW m \in MutationId, ApplyCorrections(u, corrections, m)
    PROVE  CorrectionsAreMade(corrections, Len(corrections), m)
<1>. DEFINE n == Len(corrections)
            run == CorrectionEvents(corrections, m)
            added == [i \in (session.seq + 1)..(session.seq + n) |-> run[i - session.seq]]
<1>1. /\ n \in Nat \ {0} /\ DOMAIN corrections = 1..n
      /\ Len(run) = n /\ run \in Seq(Event)
      /\ \A i \in 1..n :
            /\ corrections[i].log \in Log /\ corrections[i].log \in DOMAIN logs
            /\ CorrectedLog(corrections[i]).version =
                   logs[corrections[i].log].version + 1
            /\ run[i] = EventOf("log.updated", corrections[i].log,
                                CorrectedLog(corrections[i]), m)
  BY CorrectionsType DEF ApplyCorrections
<1>2. /\ session \in SessionRow /\ session.seq \in Nat
      /\ DOMAIN events = (session.minSeq + 1)..session.seq /\ session.minSeq \in Nat
  BY SessionColumns DEF TypeInv, HistoryInv, EventLogContiguous
<1>3. /\ session' = [session EXCEPT !.seq = session.seq + n]
      /\ events' = PutAll(events, added)
      /\ logs' = CorrectedLogs(corrections)
      /\ Fitting(corrections)
  BY <1>1 DEF ApplyCorrections, AppendRun
<1>4. session'.seq = session.seq + n /\ session'.minSeq = session.minSeq
  <2>. HIDE DEF n
  <2>. QED
    BY <1>2, <1>3 DEF SessionRow
<1>5. DOMAIN added = (session.seq + 1)..(session.seq + n)
  OBVIOUS
<1>6. \A i \in 1..n : session.seq + i \in DOMAIN added /\ added[session.seq + i] = run[i]
  <2>1. ASSUME NEW i \in 1..n
        PROVE  session.seq + i \in DOMAIN added /\ added[session.seq + i] = run[i]
    <3>. DEFINE x == session.seq + i
    <3>1. x \in (session.seq + 1)..(session.seq + n) /\ x - session.seq = i
      BY <1>1, <1>2
    <3>. HIDE DEF x, run, n
    <3>2. x \in DOMAIN added /\ added[x] = run[i]
      BY <3>1
    <3>. QED
      BY <3>2 DEF x
  <2>. QED
    BY <2>1
<1>. HIDE DEF added, run, n
<1>7. /\ DOMAIN events' = DOMAIN events \cup DOMAIN added
      /\ \A i \in DOMAIN added : events'[i] = added[i]
      /\ \A i \in DOMAIN events \ DOMAIN added : events'[i] = events[i]
  <2>1. events' = PutAll(events, added)
    BY <1>3
  <2>. QED
    BY <2>1 DEF PutAll
<1>8. \A i \in DOMAIN events : events'[i] = events[i]
  BY <1>1, <1>2, <1>5, <1>7
<1>9. \A i, j \in 1..n : corrections[i].log = corrections[j].log => i = j
  BY <1>1, <1>3 DEF Fitting
<1>10. ASSUME NEW i \in 1..n
       PROVE  logs'[corrections[i].log] = CorrectedLog(corrections[i])
  <2>. DEFINE l == corrections[i].log
              i0 == CHOOSE j \in DOMAIN corrections : corrections[j].log = l
  <2>1. i0 \in 1..n /\ corrections[i0].log = l
    BY <1>1
  <2>2. i0 = i
    BY <1>9, <2>1
  <2>3. logs'[l] = CorrectedLog(corrections[i0])
    BY <1>1, <1>3 DEF CorrectedLogs
  <2>. HIDE DEF i0
  <2>. QED
    BY <2>2, <2>3
<1>11. /\ DOMAIN logs' = DOMAIN logs
       /\ \A l \in DOMAIN logs :
             (\A i \in 1..n : corrections[i].log # l) => logs'[l] = logs[l]
  BY <1>1, <1>3 DEF CorrectedLogs
<1>12. ASSUME NEW i \in 1..n
       PROVE  LET e == events'[session.seq + i]
                  l == corrections[i].log
              IN  /\ l \in Log /\ l \in DOMAIN logs
                  /\ e.entity = l /\ e.mutation = m /\ e.type = "log.updated"
                  /\ e.body = logs'[l]
                  /\ e.version = logs'[l].version
                  /\ logs'[l].version = logs[l].version + 1
  <2>1. events'[session.seq + i] = EventOf("log.updated", corrections[i].log,
                                           logs'[corrections[i].log], m)
    BY <1>1, <1>6, <1>7, <1>10
  <2>. QED
    BY <1>1, <1>10, <2>1 DEF EventOf
<1>. QED
  BY <1>1, <1>3, <1>4, <1>5, <1>7, <1>8, <1>9, <1>11, <1>12
     DEF CorrectionsAreMade, n

\* Corrections from an Excel file.
LEMMA CorrectionsKeepInv ==
    ASSUME TypeInv, CorrectionStep
    PROVE  TypeInv'
<1>1. PICK u \in User, corrections \in Selections, m \in MutationId :
          ApplyCorrections(u, corrections, m)
  BY DEF CorrectionStep
<1>. DEFINE run == CorrectionEvents(corrections, m)
<1>2. run \in Seq(Event) /\ IsTable(CorrectedLogs(corrections), Log, LogRow)
  BY <1>1, CorrectionsType DEF ApplyCorrections
<1>3. /\ AppendRun(run) /\ conns' = publishRun(conns, session.seq, run)
      /\ logs' = CorrectedLogs(corrections)
      /\ UNCHANGED <<members, invites, draftVars, tickets>>
  BY <1>1 DEF ApplyCorrections
<1>4. IsTable(processed', MutationId, Response)
  BY <1>1, StoreResponseType DEF ApplyCorrections, TypeInv, Kind, Outcome
<1>. HIDE DEF run
<1>5. session' \in SessionRow /\ IsTable(events', Nat, Event) /\ HistoryInv'
  BY <1>2, <1>3, AppendRunKeepsHistory
<1>6. IsTable(conns', Conn, ConnRow)
  BY <1>2, <1>3, SessionColumns, PublishRunType DEF TypeInv
<1>. QED
  BY <1>2, <1>3, <1>4, <1>5, <1>6
     DEF TypeInv, TypeOK, StoreTypeOK, DraftTypeOK, RealtimeTypeOK, draftVars

\* Stored conflicts and rejections.
LEMMA RefusalKeepsInv ==
    ASSUME TypeInv, RefusalStep
    PROVE  TypeInv'
BY AnswerKeepsInv DEF RefusalStep, StoreConflict, StoreRejection, Kind, Outcome

\* Pruning moves the lower end of the history up to, at most, event_seq.
LEMMA RetentionKeepsInv ==
    ASSUME TypeInv, RetentionStep
    PROVE  TypeInv'
<1>1. PICK u \in User, m \in MutationId, target \in session.minSeq..session.seq :
          PruneEvents(u, target, m)
  BY DEF RetentionStep
<1>2. session.seq \in Nat /\ session.minSeq \in Nat /\ target \in Nat
  BY SessionColumns
<1>3. /\ session' \in SessionRow /\ session'.seq = session.seq
      /\ session'.minSeq = target
  BY <1>1, <1>2, SessionColumns DEF PruneEvents, SessionRow
<1>4. IsTable(events', Nat, Event)
  BY <1>1, WithoutIsTable DEF PruneEvents, TypeInv, TypeOK, StoreTypeOK
<1>5. IsTable(processed', MutationId, Response)
  BY <1>1, StoreResponseType DEF PruneEvents, TypeInv, Kind, Outcome
<1>6. DOMAIN events' = DOMAIN events \ ((session.minSeq + 1)..target)
  BY <1>1, RowsAfterWithout DEF PruneEvents
<1>7. HistoryInv'
  BY <1>2, <1>3, <1>6 DEF TypeInv, HistoryInv, EventLogContiguous
<1>. QED
  BY <1>1, <1>3, <1>4, <1>5, <1>7 DEF PruneEvents, TypeInv, TypeOK, StoreTypeOK,
     DraftTypeOK, RealtimeTypeOK, draftVars, realtimeVars

-----------------------------------------------------------------------------
(* SessionMembers *)

\* What the handlers make of the rows of session_members.
LEMMA MemberRowsType ==
    ASSUME TypeInv, NEW u \in User, NEW role \in Role
    PROVE  /\ IsTable(Joined(u, role), User, MemberRow)
           /\ u \in DOMAIN members =>
                 /\ IsTable(WithRole(u, role), User, MemberRow)
                 /\ IsTable(Removed(u), User, MemberRow)
<1>1. IsTable(members, User, MemberRow)
  BY DEF TypeInv, TypeOK, StoreTypeOK
<1>2. ASSUME NEW x \in DOMAIN members
      PROVE  /\ members[x] \in MemberRow
             /\ members[x].role \in Role /\ members[x].version + 1 \in Nat
             /\ members[x].removed \in BOOLEAN
  <2>1. members[x] \in MemberRow
    BY <1>1, RowOfTable
  <2>. QED
    BY <2>1 DEF MemberRow
<1>3. IsTable(Joined(u, role), User, MemberRow)
  <2>. DEFINE version == IF u \in DOMAIN members THEN members[u].version + 1 ELSE 1
  <2>1. version \in Nat
    BY <1>2
  <2>2. Joined(u, role) =
          Put(members, u, [role |-> role, removed |-> FALSE, version |-> version])
    BY DEF Joined
  <2>. HIDE DEF version
  <2>3. [role |-> role, removed |-> FALSE, version |-> version] \in MemberRow
    BY <2>1 DEF MemberRow
  <2>. QED
    BY <1>1, <2>2, <2>3, PutIsTable
<1>4. ASSUME u \in DOMAIN members
      PROVE  /\ IsTable(WithRole(u, role), User, MemberRow)
             /\ IsTable(Removed(u), User, MemberRow)
  <2>1. /\ WithRole(u, role) \in [DOMAIN members -> MemberRow]
        /\ DOMAIN WithRole(u, role) = DOMAIN members
    BY <1>1, <1>2, <1>4 DEF WithRole, MemberRow
  <2>2. /\ Removed(u) \in [DOMAIN members -> MemberRow]
        /\ DOMAIN Removed(u) = DOMAIN members
    BY <1>1, <1>2, <1>4 DEF Removed, MemberRow
  <2>. QED
    BY <1>1, <2>1, <2>2 DEF IsTable
<1>. QED
  BY <1>3, <1>4

\* The two rows of an ownership transfer.
LEMMA TransferredRows ==
    ASSUME TypeInv, NEW old \in DOMAIN members, NEW new \in DOMAIN members,
           old # new
    PROVE  /\ DOMAIN Transferred(old, new) = DOMAIN members
           /\ Transferred(old, new)[old] =
                 [members[old] EXCEPT !.role = "editor", !.version = @ + 1]
           /\ Transferred(old, new)[new] =
                 [members[new] EXCEPT !.role = "owner", !.version = @ + 1]
           /\ \A x \in DOMAIN members \ {old, new} :
                 Transferred(old, new)[x] = members[x]
           /\ IsTable(Transferred(old, new), User, MemberRow)
<1>1. IsTable(members, User, MemberRow)
  BY DEF TypeInv, TypeOK, StoreTypeOK
<1>2. /\ DOMAIN Transferred(old, new) = DOMAIN members
      /\ \A x \in DOMAIN members \ {old, new} :
            Transferred(old, new)[x] = members[x]
  BY DEF Transferred
<1>3. Transferred(old, new)[old] =
        [members[old] EXCEPT !.role = "editor", !.version = @ + 1]
  BY <1>1 DEF Transferred, IsTable, MemberRow
<1>4. Transferred(old, new)[new] =
        [members[new] EXCEPT !.role = "owner", !.version = @ + 1]
  BY <1>1 DEF Transferred, IsTable, MemberRow
<1>5. ASSUME NEW x \in DOMAIN members, NEW role \in Role
      PROVE  /\ members[x] \in MemberRow
             /\ [members[x] EXCEPT !.role = role, !.version = @ + 1] \in MemberRow
  <2>. DEFINE row == members[x]
              v == row.version + 1
  <2>1. row \in MemberRow
    BY <1>1, RowOfTable
  <2>2. v \in Nat
    BY <2>1 DEF MemberRow
  <2>. HIDE DEF row, v
  <2>3. [row EXCEPT !.role = role, !.version = v] \in MemberRow
    BY <2>1, <2>2 DEF MemberRow
  <2>. QED
    BY <2>1, <2>3 DEF row, v
<1>6. ASSUME NEW x \in DOMAIN members
      PROVE  Transferred(old, new)[x] \in MemberRow
  BY <1>2, <1>3, <1>4, <1>5 DEF Role
<1>7. IsTable(Transferred(old, new), User, MemberRow)
  <2>1. Transferred(old, new) = [x \in DOMAIN members |-> Transferred(old, new)[x]]
    BY <1>2 DEF Transferred
  <2>. QED
    BY <1>1, <1>2, <1>6, <2>1 DEF IsTable
<1>. QED
  BY <1>2, <1>3, <1>4, <1>7

\* A change of memberships or invites, once the rows it writes are known.
LEMMA MemberChangeKeepsInv ==
    ASSUME TypeInv,
           IsTable(members', User, MemberRow),
           IsTable(processed', MutationId, Response),
           IsTable(invites', Invite, InviteRow),
           IsTable(deviceState', User \X Device, Nat),
           IsTable(locks', Field, LockRow),
           preview' \in PreviewRow \cup {NoPreview},
           RealtimeTypeOK',
           session' = session \/ \E u \in User : session' = [session EXCEPT !.owner = u],
           UNCHANGED Keeps
    PROVE  TypeInv'
<1>1. /\ session' \in SessionRow /\ session'.seq = session.seq
      /\ session'.minSeq = session.minSeq
  BY SessionColumns DEF SessionRow
<1>2. HistoryInv'
  BY <1>1 DEF Keeps, TypeInv, HistoryInv, EventLogContiguous
<1>. QED
  BY <1>1, <1>2 DEF Keeps, TypeInv, TypeOK, StoreTypeOK, DraftTypeOK

\* clearUser and DropDevices keep their tables tables.
LEMMA ClearedType ==
    ASSUME TypeInv, NEW u
    PROVE  /\ IsTable(clearUser(locks, u), Field, LockRow)
           /\ IsTable(DropDevices(u), User \X Device, Nat)
           /\ \A v : IsTable(clearUser(clearUser(locks, u), v), Field, LockRow)
BY WithoutIsTable DEF clearUser, DropDevices, TypeInv, TypeOK, DraftTypeOK

\* A change of memberships and what follows its commit.
LEMMA RevocationKeepsInv ==
    ASSUME TypeInv, NEW users, NEW kept,
           IsTable(members', User, MemberRow),
           IsTable(processed', MutationId, Response),
           IsTable(invites', Invite, InviteRow),
           IsTable(deviceState', User \X Device, Nat),
           IsTable(kept, Field, LockRow), AfterCommit(users, kept),
           session' = session \/ \E u \in User : session' = [session EXCEPT !.owner = u],
           UNCHANGED Keeps
    PROVE  TypeInv'
BY AfterCommitType, MemberChangeKeepsInv DEF TypeInv

\* Leaving, changing roles, removing members and transferring ownership.
LEMMA MembershipEndsKeepInv ==
    ASSUME TypeInv, NEW u \in User, NEW m \in MutationId,
           \/ LeaveSession(u, m)
           \/ NothingToChange(u, m)
           \/ \E target \in User :
                 \/ \E role \in MemberRole : ChangeRole(u, target, role, m)
                 \/ RemoveMember(u, target, m)
                 \/ TransferOwnership(u, target, m)
    PROVE  TypeInv'
<1>. USE DEF TypeInv, TypeOK, StoreTypeOK, DraftTypeOK
<1>1. CASE NothingToChange(u, m)
  BY <1>1, AnswerKeepsInv DEF NothingToChange, Keeps, draftVars, Kind, Outcome
<1>2. CASE LeaveSession(u, m)
  <2>1. u \in DOMAIN members /\ "viewer" \in Role
    BY <1>2 DEF LeaveSession, RequireMembership, IsMember, Role
  <2>2. IsTable(members', User, MemberRow)
    BY <1>2, <2>1, MemberRowsType DEF LeaveSession
  <2>3. IsTable(processed', MutationId, Response)
    BY <1>2, StoreResponseType DEF LeaveSession, Kind, Outcome
  <2>. QED
    BY <1>2, <2>2, <2>3, ClearedType, RevocationKeepsInv DEF LeaveSession
<1>3. ASSUME NEW target \in User, NEW role \in MemberRole,
             ChangeRole(u, target, role, m)
      PROVE  TypeInv'
  <2>1. target \in DOMAIN members /\ role \in Role
    BY <1>3 DEF ChangeRole, IsMember, MemberRole, Role
  <2>2. IsTable(members', User, MemberRow)
    BY <1>3, <2>1, MemberRowsType DEF ChangeRole
  <2>3. IsTable(processed', MutationId, Response)
    BY <1>3, StoreResponseType DEF ChangeRole, Kind, Outcome
  <2>. QED
    BY <1>3, <2>2, <2>3, ClearedType, RevocationKeepsInv DEF ChangeRole
<1>4. ASSUME NEW target \in User, RemoveMember(u, target, m)
      PROVE  TypeInv'
  <2>1. target \in DOMAIN members /\ "viewer" \in Role
    BY <1>4 DEF RemoveMember, IsMember, Role
  <2>2. IsTable(members', User, MemberRow)
    BY <1>4, <2>1, MemberRowsType DEF RemoveMember
  <2>3. IsTable(processed', MutationId, Response)
    BY <1>4, StoreResponseType DEF RemoveMember, Kind, Outcome
  <2>. QED
    BY <1>4, <2>2, <2>3, ClearedType, RevocationKeepsInv DEF RemoveMember
<1>5. ASSUME NEW target \in User, TransferOwnership(u, target, m)
      PROVE  TypeInv'
  <2>1. u \in DOMAIN members /\ target \in DOMAIN members /\ target # u
    BY <1>5 DEF TransferOwnership, RequireMembership, IsMember
  <2>2. IsTable(members', User, MemberRow)
    BY <1>5, <2>1, TransferredRows DEF TransferOwnership
  <2>3. IsTable(processed', MutationId, Response)
    BY <1>5, StoreResponseType DEF TransferOwnership, Kind, Outcome
  <2>. QED
    BY <1>5, <2>2, <2>3, ClearedType, RevocationKeepsInv DEF TransferOwnership
<1>. QED
  BY <1>1, <1>2, <1>3, <1>4, <1>5

\* What the handlers make of the rows of collaboration_invites.
LEMMA InviteRowsType ==
    ASSUME TypeInv, NEW i \in Invite
    PROVE  /\ \A role \in MemberRole, max \in MaxUses :
                 IsTable(Put(invites, i, [role |-> role, used |-> 0, max |-> max,
                                          open |-> TRUE, redeemers |-> {}]),
                         Invite, InviteRow)
           /\ IsTable([invites EXCEPT ![i].open = FALSE], Invite, InviteRow)
           /\ \A u \in User :
                 IsTable([invites EXCEPT ![i].used = @ + 1,
                                         ![i].redeemers = @ \cup {u}],
                         Invite, InviteRow)
<1>1. IsTable(invites, Invite, InviteRow)
  BY DEF TypeInv, TypeOK, StoreTypeOK
<1>2. ASSUME NEW role \in MemberRole, NEW max \in MaxUses
      PROVE  IsTable(Put(invites, i, [role |-> role, used |-> 0, max |-> max,
                                      open |-> TRUE, redeemers |-> {}]),
                     Invite, InviteRow)
  <2>1. [role |-> role, used |-> 0, max |-> max, open |-> TRUE, redeemers |-> {}]
           \in InviteRow
    BY RequestAssumption DEF MemberRole, InviteRow
  <2>. QED
    BY <1>1, <2>1, PutIsTable
<1>3. ASSUME NEW x \in DOMAIN invites
      PROVE  /\ invites[x] \in InviteRow
             /\ invites[x].used + 1 \in Nat /\ invites[x].redeemers \in SUBSET User
  <2>1. invites[x] \in InviteRow
    BY <1>1, RowOfTable
  <2>. QED
    BY <2>1 DEF InviteRow
<1>4. IsTable([invites EXCEPT ![i].open = FALSE], Invite, InviteRow)
  BY <1>1, <1>3 DEF IsTable, InviteRow
<1>5. ASSUME NEW u \in User
      PROVE  IsTable([invites EXCEPT ![i].used = @ + 1,
                                     ![i].redeemers = @ \cup {u}],
                     Invite, InviteRow)
  BY <1>1, <1>3 DEF IsTable, InviteRow
<1>. QED
  BY <1>2, <1>4, <1>5

\* Creating, revoking, expiry and redemption of invites.
LEMMA InvitesKeepInv ==
    ASSUME TypeInv, NEW u \in User, NEW i \in Invite,
           \/ \E m \in MutationId :
                 \/ \E role \in MemberRole, max \in MaxUses :
                       CreateInvite(u, i, role, max, m)
                 \/ RevokeInvite(u, i, m)
                 \/ AdminRevokeInvite(u, i, m)
           \/ InviteExpires(i)
           \/ RedeemInvite(u, i)
    PROVE  TypeInv'
<1>. USE DEF TypeInv, TypeOK, StoreTypeOK, DraftTypeOK
<1>1. ASSUME UNCHANGED <<session, members, Keeps, deviceState, locks, preview,
                         realtimeVars>>,
             IsTable(invites', Invite, InviteRow),
             IsTable(processed', MutationId, Response)
      PROVE  TypeInv'
  BY <1>1, MemberChangeKeepsInv DEF realtimeVars, RealtimeTypeOK
<1>2. ASSUME NEW m \in MutationId, NEW role \in MemberRole, NEW max \in MaxUses,
             CreateInvite(u, i, role, max, m)
      PROVE  TypeInv'
  <2>1. IsTable(invites', Invite, InviteRow)
    BY <1>2, InviteRowsType DEF CreateInvite
  <2>2. IsTable(processed', MutationId, Response)
    BY <1>2, StoreResponseType DEF CreateInvite, Kind, Outcome
  <2>. QED
    BY <1>1, <1>2, <2>1, <2>2 DEF CreateInvite
<1>3. ASSUME NEW m \in MutationId, RevokeInvite(u, i, m) \/ AdminRevokeInvite(u, i, m)
      PROVE  TypeInv'
  <2>1. IsTable(invites', Invite, InviteRow)
    BY <1>3, InviteRowsType DEF RevokeInvite, AdminRevokeInvite
  <2>2. IsTable(processed', MutationId, Response)
    BY <1>3, StoreResponseType DEF RevokeInvite, AdminRevokeInvite, Kind, Outcome
  <2>. QED
    BY <1>1, <1>3, <2>1, <2>2 DEF RevokeInvite, AdminRevokeInvite
<1>4. CASE InviteExpires(i)
  <2>1. IsTable(invites', Invite, InviteRow)
    BY <1>4, InviteRowsType DEF InviteExpires
  <2>. QED
    BY <1>1, <1>4, <2>1 DEF InviteExpires
<1>5. CASE RedeemInvite(u, i)
  <2>1. IsTable(invites', Invite, InviteRow)
    BY <1>5, InviteRowsType DEF RedeemInvite
  <2>2. i \in DOMAIN invites /\ invites[i].role \in MemberRole
    <3>1. i \in DOMAIN invites
      BY <1>5 DEF RedeemInvite, Redeemable
    <3>2. invites[i] \in InviteRow
      BY <3>1, RowOfTable
    <3>. QED
      BY <3>1, <3>2 DEF InviteRow, MemberRole
  <2>. DEFINE role == IF IsMember(u)
                      THEN effectiveRole(members[u].role, invites[i].role)
                      ELSE invites[i].role
  <2>3. role \in Role
    <3>1. ASSUME IsMember(u) PROVE members[u].role \in Role
      <4>1. members[u] \in MemberRow
        BY <3>1, RowOfTable DEF IsMember
      <4>. QED
        BY <4>1 DEF MemberRow
    <3>. QED
      BY <2>2, <3>1 DEF effectiveRole, Role, MemberRole
  <2>4. members' = Joined(u, role)
    BY <1>5 DEF RedeemInvite
  <2>5. /\ RealtimeTypeOK' /\ IsTable(locks', Field, LockRow)
        /\ preview' \in PreviewRow \cup {NoPreview}
    <3>1. AfterCommit({u}, locks) \/ UNCHANGED <<realtimeVars, locks, preview>>
      BY <1>5 DEF RedeemInvite
    <3>. QED
      BY <3>1, AfterCommitType DEF realtimeVars, RealtimeTypeOK
  <2>. HIDE DEF role
  <2>6. IsTable(members', User, MemberRow)
    BY <2>3, <2>4, MemberRowsType
  <2>7. UNCHANGED <<session, processed, Keeps, deviceState>>
    BY <1>5 DEF RedeemInvite
  <2>. QED
    BY <2>1, <2>5, <2>6, <2>7, MemberChangeKeepsInv
<1>. QED
  BY <1>2, <1>3, <1>4, <1>5

\* Every handler of the members and their invites.
LEMMA MemberStepKeepsInv ==
    ASSUME TypeInv, MemberStep
    PROVE  TypeInv'
<1>1. CASE \E u \in User, m \in MutationId :
             \/ LeaveSession(u, m)
             \/ NothingToChange(u, m)
             \/ \E target \in User :
                   \/ \E role \in MemberRole : ChangeRole(u, target, role, m)
                   \/ RemoveMember(u, target, m)
                   \/ TransferOwnership(u, target, m)
  BY <1>1, MembershipEndsKeepInv
<1>2. CASE \/ \E u \in User, m \in MutationId, i \in Invite :
                 \/ \E role \in MemberRole, max \in MaxUses :
                       CreateInvite(u, i, role, max, m)
                 \/ RevokeInvite(u, i, m)
           \/ \E u \in User, i \in Invite : RedeemInvite(u, i)
  BY <1>2, InvitesKeepInv
<1>3. CASE \E i \in Invite : InviteExpires(i)
  <2>1. \E u \in User : u = session.owner
    BY SessionColumns
  <2>. QED
    BY <1>3, <2>1, InvitesKeepInv
<1>. QED
  BY <1>1, <1>2, <1>3 DEF MemberStep

\* The administrator's commands.
LEMMA AdminStepKeepsInv ==
    ASSUME TypeInv, AdminMemberStep
    PROVE  TypeInv'
<1>1. PICK a \in Admin, u \in User, m \in MutationId :
        \/ \E role \in MemberRole : AdminAddMember(a, u, role, m)
        \/ \E role \in MemberRole : AdminChangeRole(a, u, role, m)
        \/ AdminRemoveMember(a, u, m)
        \/ AdminTransfer(a, u, m)
        \/ \E i \in Invite : AdminRevokeInvite(a, i, m)
  BY DEF AdminMemberStep
<1>. USE DEF TypeInv, TypeOK, StoreTypeOK, DraftTypeOK
<1>2. a \in User
  BY StoreAssumption
<1>3. ASSUME AdminCommand(a, m)
      PROVE  IsTable(processed', MutationId, Response)
  BY <1>2, <1>3, StoreResponseType DEF AdminCommand, Kind, Outcome
<1>4. ASSUME NEW role \in MemberRole,
             AdminAddMember(a, u, role, m) \/ AdminChangeRole(a, u, role, m)
      PROVE  TypeInv'
  <2>1. IsTable(members', User, MemberRow)
    BY <1>4, MemberRowsType
       DEF AdminAddMember, AdminChangeRole, IsMember, MemberRole, Role
  <2>2. IsTable(processed', MutationId, Response) /\ AfterCommit({u}, locks)
    BY <1>3, <1>4 DEF AdminAddMember, AdminChangeRole
  <2>3. UNCHANGED <<session, invites, Keeps, deviceState>>
    BY <1>4 DEF AdminAddMember, AdminChangeRole
  <2>. QED
    BY <2>1, <2>2, <2>3, RevocationKeepsInv
<1>5. CASE AdminRemoveMember(a, u, m)
  <2>1. u \in DOMAIN members /\ "viewer" \in Role
    BY <1>5 DEF AdminRemoveMember, IsMember, Role
  <2>2. IsTable(members', User, MemberRow)
    BY <1>5, <2>1, MemberRowsType DEF AdminRemoveMember
  <2>3. RealtimeTypeOK'
    BY <1>5, WithoutIsTable, ClosedType DEF AdminRemoveMember, RealtimeTypeOK
  <2>. QED
    BY <1>3, <1>5, <2>2, <2>3, MemberChangeKeepsInv DEF AdminRemoveMember
<1>6. CASE AdminTransfer(a, u, m)
  <2>1. /\ u \in DOMAIN members /\ session.owner \in DOMAIN members
        /\ u # session.owner
    BY <1>6 DEF AdminTransfer, IsMember, MemberRole
  <2>2. IsTable(members', User, MemberRow)
    BY <1>6, <2>1, TransferredRows DEF AdminTransfer
  <2>. QED
    BY <1>3, <1>6, <2>2, RevocationKeepsInv DEF AdminTransfer
<1>7. CASE \E i \in Invite : AdminRevokeInvite(a, i, m)
  BY <1>2, <1>7, InvitesKeepInv
<1>. QED
  BY <1>1, <1>4, <1>5, <1>6, <1>7

-----------------------------------------------------------------------------
(* LiveDraft *)

\* A change of the draft that neither appends an event nor publishes one.
LEMMA DraftChangeKeepsInv ==
    ASSUME TypeInv, IsTable(processed', MutationId, Response),
           UNCHANGED <<session, members, logs, events, invites, realtimeVars>>,
           draft' \in DraftRow, IsTable(deviceState', User \X Device, Nat),
           IsTable(locks', Field, LockRow), preview' \in PreviewRow \cup {NoPreview}
    PROVE  TypeInv'
BY DEF TypeInv, TypeOK, StoreTypeOK, DraftTypeOK, RealtimeTypeOK, HistoryInv,
   EventLogContiguous, realtimeVars

\* Writing some fields of a draft makes a draft of the next version.
LEMMA WrittenDraftType ==
    ASSUME NEW row \in DraftRow, NEW fields \in Content, NEW revs \in [Field -> Nat]
    PROVE  [row EXCEPT !.version = @ + 1, !.fields = fields, !.revs = revs]
              \in DraftRow
<1>. DEFINE v == row.version + 1
<1>1. v \in Nat
  BY DEF DraftRow
<1>. HIDE DEF v
<1>2. [row EXCEPT !.version = v, !.fields = fields, !.revs = revs] \in DraftRow
  BY <1>1 DEF DraftRow
<1>. QED
  BY <1>2 DEF v

\* Locks and the preview.
LEMMA LocksKeepInv ==
    ASSUME TypeInv, NEW u \in User, NEW d \in Device,
           \/ \E f \in Field : AcquireLock(u, d, f) \/ ReleaseLock(u, d, f)
           \/ \E candidate \in [Reuse -> Text \cup {Blank}] :
                 PublishPreview(u, d, candidate)
           \/ ClearPreview(u, d)
    PROVE  TypeInv'
<1>. USE DEF TypeInv, TypeOK, StoreTypeOK, DraftTypeOK
<1>1. ASSUME NEW f \in Field, AcquireLock(u, d, f)
      PROVE  TypeInv'
  <2>1. draft' \in DraftRow
    BY <1>1, EnsureDraftType DEF AcquireLock
  <2>2. [user |-> u, device |-> d, draft |-> draft'.id] \in LockRow
    BY <2>1 DEF DraftRow, LockRow
  <2>3. IsTable(locks', Field, LockRow)
    BY <1>1, <2>2, PutIsTable DEF AcquireLock
  <2>. QED
    BY <1>1, <2>1, <2>3, DraftChangeKeepsInv DEF AcquireLock, storeVars
<1>2. ASSUME NEW f \in Field, ReleaseLock(u, d, f)
      PROVE  TypeInv'
  <2>1. IsTable(locks', Field, LockRow)
    BY <1>2, WithoutIsTable DEF ReleaseLock
  <2>. QED
    BY <1>2, <2>1, DraftChangeKeepsInv DEF ReleaseLock, storeVars
<1>3. ASSUME NEW candidate \in [Reuse -> Text \cup {Blank}],
             PublishPreview(u, d, candidate)
      PROVE  TypeInv'
  <2>1. draft' \in DraftRow
    BY <1>3, EnsureDraftType DEF PublishPreview
  <2>2. Callsign \in Field /\ draft'.fields[Callsign] # Blank
    BY <1>3, DraftAssumption, StoreAssumption DEF PublishPreview
  <2>3. draft'.fields[Callsign] \in Text /\ draft'.id \in Nat
    BY <2>1, <2>2 DEF DraftRow, Content
  <2>4. preview' \in PreviewRow
    BY <1>3, <2>3 DEF PublishPreview, PreviewRow
  <2>. QED
    BY <1>3, <2>1, <2>4, DraftChangeKeepsInv DEF PublishPreview, storeVars
<1>4. CASE ClearPreview(u, d)
  BY <1>4, DraftChangeKeepsInv DEF ClearPreview, storeVars
<1>. QED
  BY <1>1, <1>2, <1>3, <1>4

\* Writing fields of the draft, by hand or from the history preview.
LEMMA FieldWritesKeepInv ==
    ASSUME TypeInv, NEW u \in User, NEW d \in Device,
           \/ \E m \in MutationId : SelectPreview(u, d, m)
           \/ \E seq \in ClientSeq, updates \in Updates, consume \in BOOLEAN :
                 PatchDraft(u, d, seq, updates, consume)
    PROVE  TypeInv'
<1>. USE DEF TypeInv, TypeOK, StoreTypeOK, DraftTypeOK
<1>1. ASSUME NEW m \in MutationId, SelectPreview(u, d, m)
      PROVE  TypeInv'
  <2>. DEFINE picked(f) == f \in Reuse /\ preview.candidate[f] # Blank
              fields(row) == [f \in Field |-> IF picked(f) THEN preview.candidate[f]
                                              ELSE row.fields[f]]
              revs(row) == [f \in Field |-> IF picked(f) THEN row.revs[f] + 1
                                            ELSE row.revs[f]]
  <2>1. PICK row \in ensureDraft :
          draft' = [row EXCEPT !.version = @ + 1, !.fields = fields(row),
                               !.revs = revs(row)]
    BY <1>1 DEF SelectPreview
  <2>2. row \in DraftRow
    BY EnsureDraftType
  <2>3. preview \in PreviewRow
    BY <1>1 DEF SelectPreview, PreviewOf
  <2>4. fields(row) \in Content
    BY <2>2, <2>3, DraftAssumption DEF Content, DraftRow, PreviewRow
  <2>5. revs(row) \in [Field -> Nat]
    BY <2>2 DEF DraftRow
  <2>. HIDE DEF fields, revs
  <2>6. draft' \in DraftRow
    BY <2>1, <2>2, <2>4, <2>5, WrittenDraftType
  <2>7. IsTable(locks', Field, LockRow)
    BY <1>1, WithoutIsTable DEF SelectPreview, clearFields
  <2>8. IsTable(processed', MutationId, Response)
    BY <1>1, StoreResponseType DEF SelectPreview, Kind, Outcome
  <2>. QED
    BY <1>1, <2>6, <2>7, <2>8, DraftChangeKeepsInv DEF SelectPreview
<1>2. ASSUME NEW seq \in ClientSeq, NEW updates \in Updates, NEW consume \in BOOLEAN,
             PatchDraft(u, d, seq, updates, consume)
      PROVE  TypeInv'
  <2>. DEFINE fields(row) == [f \in Field |-> IF f \in DOMAIN updates
                                              THEN updates[f] ELSE row.fields[f]]
              revs(row) == [f \in Field |-> IF f \in DOMAIN updates
                                            THEN row.revs[f] + 1 ELSE row.revs[f]]
  <2>1. PICK row \in ensureDraft :
          draft' = [row EXCEPT !.version = @ + 1, !.fields = fields(row),
                               !.revs = revs(row)]
    BY <1>2 DEF PatchDraft
  <2>2. row \in DraftRow
    BY EnsureDraftType
  <2>3. \A f \in DOMAIN updates : updates[f] \in Text \cup {Blank}
    BY DEF Updates
  <2>4. fields(row) \in Content
    BY <2>2, <2>3 DEF Content, DraftRow
  <2>5. revs(row) \in [Field -> Nat]
    BY <2>2 DEF DraftRow
  <2>. HIDE DEF fields, revs
  <2>6. draft' \in DraftRow
    BY <2>1, <2>2, <2>4, <2>5, WrittenDraftType
  <2>7. IsTable(deviceState', User \X Device, Nat)
    <3>1. seq \in Nat /\ <<u, d>> \in User \X Device
      BY RequestAssumption
    <3>. QED
      BY <1>2, <3>1, PutIsTable DEF PatchDraft
  <2>8. IsTable(locks', Field, LockRow)
    BY <1>2, WithoutIsTable DEF PatchDraft
  <2>. QED
    BY <1>2, <2>6, <2>7, <2>8, DraftChangeKeepsInv DEF PatchDraft, storeVars
<1>. QED
  BY <1>1, <1>2

\* Committing and discarding the draft.
LEMMA GenerationsKeepInv ==
    ASSUME TypeInv, NEW u \in User, NEW d \in Device, NEW m \in MutationId,
           DiscardDraft(u, d, m) \/ \E l \in Log : CommitDraft(u, d, l, m)
    PROVE  TypeInv'
<1>. USE DEF TypeInv, TypeOK, StoreTypeOK
<1>1. ASSUME StartGeneration
      PROVE  /\ IsTable(deviceState', User \X Device, Nat)
             /\ IsTable(locks', Field, LockRow)
             /\ preview' \in PreviewRow \cup {NoPreview}
  BY <1>1, NoRowsIsTable DEF StartGeneration, clearSession
<1>2. CASE DiscardDraft(u, d, m)
  <2>1. draft' \in DraftRow
    BY <1>2, EnsureDraftType, ResetDraftType DEF DiscardDraft
  <2>2. IsTable(processed', MutationId, Response)
    BY <1>2, StoreResponseType DEF DiscardDraft, Kind, Outcome
  <2>. QED
    BY <1>1, <1>2, <2>1, <2>2, DraftChangeKeepsInv DEF DiscardDraft
<1>3. ASSUME NEW l \in Log, CommitDraft(u, d, l, m)
      PROVE  TypeInv'
  <2>. DEFINE row == NewLog(draft.fields)
  <2>1. row \in LogRow
    BY NewLogType DEF DraftTypeOK, DraftRow
  <2>2. DraftTypeOK'
    BY <1>1, <1>3, ResetDraftType DEF CommitDraft, DraftTypeOK
  <2>3. IsTable(processed', MutationId, Response)
    BY <1>3, StoreAcceptedType DEF CommitDraft, Kind
  <2>4. /\ logs' = Put(logs, l, row)
        /\ AppendEvent(session, EventOf("log.created", l, row, m))
        /\ PublishOnly(EventOf("log.created", l, row, m))
        /\ UNCHANGED <<members, invites>>
    BY <1>3 DEF CommitDraft
  <2>. HIDE DEF row
  <2>. QED
    BY <2>1, <2>2, <2>3, <2>4, LogChangeKeepsInv DEF EventType
<1>. QED
  BY <1>2, <1>3

\* Every handler of the live draft.
LEMMA DraftStepKeepsInv ==
    ASSUME TypeInv, DraftStep
    PROVE  TypeInv'
<1>1. CASE \E u \in User : ReadDraft(u) \/ RefusedDraftRequest(u)
  <2>. USE DEF TypeInv, TypeOK, StoreTypeOK, DraftTypeOK
  <2>1. draft' \in DraftRow /\ preview' \in PreviewRow \cup {NoPreview}
    BY <1>1, EnsureDraftType DEF ReadDraft, RefusedDraftRequest
  <2>. QED
    BY <1>1, <2>1, DraftChangeKeepsInv DEF ReadDraft, RefusedDraftRequest, storeVars
<1>2. ASSUME NEW u \in User, NEW d \in Device,
             \/ \E f \in Field : AcquireLock(u, d, f)
             \/ \E f \in Field : ReleaseLock(u, d, f)
             \/ \E candidate \in [Reuse -> Text \cup {Blank}] :
                   PublishPreview(u, d, candidate)
             \/ ClearPreview(u, d)
      PROVE  TypeInv'
  BY <1>2, LocksKeepInv
<1>3. ASSUME NEW u \in User, NEW d \in Device,
             \/ \E m \in MutationId : SelectPreview(u, d, m)
             \/ \E seq \in ClientSeq, updates \in Updates, consume \in BOOLEAN :
                   PatchDraft(u, d, seq, updates, consume)
      PROVE  TypeInv'
  BY <1>3, FieldWritesKeepInv
<1>4. ASSUME NEW u \in User, NEW d \in Device, NEW m \in MutationId,
             DiscardDraft(u, d, m) \/ \E l \in Log : CommitDraft(u, d, l, m)
      PROVE  TypeInv'
  BY <1>4, GenerationsKeepInv
<1>. QED
  BY <1>1, <1>2, <1>3, <1>4 DEF DraftStep

\* Leases and previews that expire.
LEMMA TimerStepKeepsInv ==
    ASSUME TypeInv, TimerStep
    PROVE  TypeInv'
<1>. USE DEF TypeInv, TypeOK, StoreTypeOK, DraftTypeOK
<1>1. ASSUME NEW f \in Field, LeaseExpires(f)
      PROVE  TypeInv'
  BY <1>1, WithoutIsTable, DraftChangeKeepsInv DEF LeaseExpires, storeVars
<1>2. CASE PreviewExpires
  BY <1>2, DraftChangeKeepsInv DEF PreviewExpires, storeVars
<1>. QED
  BY <1>1, <1>2, SweepKeepsInv DEF TimerStep

-----------------------------------------------------------------------------
(* RealtimeStream *)

\* The backlog of a cursor that retention has not overtaken is made of events.
LEMMA BacklogType ==
    ASSUME TypeInv, NEW u \in User, NEW after \in Nat, session.minSeq <= after
    PROVE  Backlog(u, after) \in ConnRow
<1>. DEFINE missing == session.seq - after
            sent == IF missing <= MaxBuffered + 1 THEN missing ELSE MaxBuffered + 1
            Msg == [seq : Nat, event : Event]
            wire == [i \in 1..sent |-> [seq |-> after + i, event |-> events[after + i]]]
<1>1. session.seq \in Nat /\ session.minSeq \in Nat /\ MaxBuffered \in Nat
  BY SessionColumns, RealtimeAssumption
<1>2. sent \in Int /\ sent <= missing /\ after + sent \in Nat
  BY <1>1
<1>3. ASSUME NEW i \in 1..sent
      PROVE  [seq |-> after + i, event |-> events[after + i]] \in Msg
  <2>1. after + i \in Nat /\ after + i \in DOMAIN events
    BY <1>1, <1>2 DEF TypeInv, HistoryInv, EventLogContiguous
  <2>2. events[after + i] \in Event
    BY <2>1, RowOfTable DEF TypeInv, TypeOK, StoreTypeOK
  <2>. QED
    BY <2>1, <2>2
<1>4. wire \in Seq(Msg)
  <2>1. PICK n \in Nat : 1..sent = 1..n
    <3>1. CASE sent \in Nat
      BY <3>1
    <3>2. CASE sent \notin Nat
      <4>1. 1..sent = 1..0
        BY <1>2, <3>2
      <4>. QED
        BY <4>1
    <3>. QED
      BY <3>1, <3>2
  <2>2. wire \in [1..n -> Msg]
    BY <1>3, <2>1
  <2>. HIDE DEF wire, Msg
  <2>. QED
    BY <2>2
<1>5. Backlog(u, after) = [user |-> u, cursor |-> after + sent,
                           open |-> sent = missing, wire |-> wire]
  BY DEF Backlog
<1>. HIDE DEF sent, missing, wire
<1>. QED
  BY <1>2, <1>4, <1>5 DEF ConnRow

\* Tickets and sockets that come and go.
LEMMA StreamStepKeepsInv ==
    ASSUME TypeInv, StreamStep
    PROVE  TypeInv'
<1>. USE DEF TypeInv, TypeOK, StoreTypeOK, DraftTypeOK, RealtimeTypeOK
<1>1. ASSUME UNCHANGED storeVars, RealtimeTypeOK'
      PROVE  TypeInv'
  BY <1>1 DEF StreamStep, storeVars, draftVars, HistoryInv, EventLogContiguous
<1>2. ASSUME NEW u \in User, NEW t \in Ticket, NEW after \in session.minSeq..session.seq,
             IssueTicket(u, t, after)
      PROVE  TypeInv'
  <2>1. after \in Nat
    BY SessionColumns
  <2>2. members[u] \in MemberRow
    BY <1>2, RowOfTable DEF IssueTicket, CanRead, RequireMembership, IsMember
  <2>3. [user |-> u, role |-> members[u].role, version |-> members[u].version,
         after |-> after, consumed |-> FALSE] \in TicketRow
    BY <2>1, <2>2 DEF MemberRow, TicketRow
  <2>. QED
    BY <1>1, <1>2, <2>3, PutIsTable DEF IssueTicket
<1>3. ASSUME NEW t \in Ticket, TicketExpires(t)
      PROVE  TypeInv'
  BY <1>1, <1>3, WithoutIsTable DEF TicketExpires
<1>4. ASSUME NEW t \in Ticket, NEW c \in Conn, Connect(t, c)
      PROVE  TypeInv'
  <2>. DEFINE u == tickets[t].user
              after == tickets[t].after
  <2>1. t \in DOMAIN tickets
    BY <1>4 DEF Connect, memberTicketIsActive
  <2>2. tickets[t] \in TicketRow
    BY <2>1, RowOfTable
  <2>3. u \in User /\ after \in Nat
    BY <2>2 DEF TicketRow
  <2>4. IsTable(tickets', Ticket, TicketRow)
    BY <1>4, <2>1, <2>2 DEF Connect, IsTable, TicketRow
  <2>5. [user |-> u, cursor |-> after, open |-> FALSE, wire |-> << >>] \in ConnRow
    BY <2>3 DEF ConnRow
  <2>6. after < session.minSeq \/ Backlog(u, after) \in ConnRow
    BY <2>3, SessionColumns, BacklogType
  <2>7. IsTable(conns', Conn, ConnRow)
    BY <1>4, <2>5, <2>6, PutIsTable DEF Connect
  <2>. QED
    BY <1>1, <1>4, <2>4, <2>7 DEF Connect
<1>5. ASSUME NEW c \in Conn, Receive(c)
      PROVE  TypeInv'
  <2>1. c \in DOMAIN conns /\ conns[c] \in ConnRow /\ conns[c].wire # << >>
    BY <1>5, RowOfTable DEF Receive
  <2>2. Tail(conns[c].wire) \in Seq([seq : Nat, event : Event])
    BY <2>1 DEF ConnRow
  <2>3. [conns[c] EXCEPT !.wire = Tail(@)] \in ConnRow
    BY <2>1, <2>2 DEF ConnRow
  <2>4. IsTable(conns', Conn, ConnRow)
    BY <1>5, <2>1, <2>3 DEF Receive, IsTable
  <2>. QED
    BY <1>1, <1>5, <2>4 DEF Receive
<1>6. ASSUME NEW c \in Conn, Disconnect(c)
      PROVE  TypeInv'
  BY <1>1, <1>6, WithoutIsTable DEF Disconnect
<1>. QED
  BY <1>2, <1>3, <1>4, <1>5, <1>6 DEF StreamStep

-----------------------------------------------------------------------------
(* The theorems *)

\* An empty database is of the right type and has an empty history.
LEMMA InitEstablishesInv ==
    ASSUME Init
    PROVE  TypeInv
<1>1. session \in SessionRow /\ session.seq = 0 /\ session.minSeq = 0
  BY DEF Init, StoreInit, SessionRow, Status
<1>2. StoreTypeOK
  BY <1>1, NoRowsIsTable DEF Init, StoreInit, StoreTypeOK
<1>3. DraftTypeOK
  BY NoDraftType, NoRowsIsTable DEF Init, DraftInit, DraftTypeOK
<1>4. RealtimeTypeOK
  BY NoRowsIsTable DEF Init, RealtimeInit, RealtimeTypeOK
<1>5. HistoryInv
  BY <1>1 DEF Init, StoreInit, NoRows, HistoryInv, EventLogContiguous
<1>. QED
  BY <1>2, <1>3, <1>4, <1>5 DEF TypeInv, TypeOK

\* Every step, whichever handler, timer, socket or restart it is.
LEMMA NextKeepsInv ==
    ASSUME TypeInv, [Next]_vars
    PROVE  TypeInv'
<1>1. CASE Restart
  BY <1>1, NoRowsIsTable DEF Restart, storeVars, TypeInv, TypeOK, StoreTypeOK,
     DraftTypeOK, RealtimeTypeOK, HistoryInv, EventLogContiguous
<1>2. CASE UNCHANGED vars
  BY <1>2 DEF vars, storeVars, draftVars, realtimeVars, TypeInv, TypeOK, StoreTypeOK,
     DraftTypeOK, RealtimeTypeOK, HistoryInv, EventLogContiguous
<1>. QED
  BY <1>1, <1>2, LifecycleKeepsInv, LogStepKeepsInv, CorrectionsKeepInv,
     RefusalKeepsInv, RetentionKeepsInv, MemberStepKeepsInv, AdminStepKeepsInv, DraftStepKeepsInv,
     TimerStepKeepsInv, StreamStepKeepsInv DEF Next

\* The inductive invariant holds in every reachable state.
THEOREM TypeInvariant == Spec => []TypeInv
<1>1. Init => TypeInv
  BY InitEstablishesInv
<1>2. TypeInv /\ [Next]_vars => TypeInv'
  BY NextKeepsInv
<1>. QED
  BY <1>1, <1>2, PTL DEF Spec

\* Every table, draft, lease, ticket and socket stays of its type, whatever
\* requests arrive in whatever order.
THEOREM TypeCorrect == Spec => []TypeOK
<1>1. TypeInv => TypeOK
  BY DEF TypeInv
<1>. QED
  BY <1>1, TypeInvariant, PTL

\* appendSessionEvent and executeRetentionPlan keep the retained history without
\* a gap up to event_seq.
THEOREM HistoryIsContiguous == Spec => []EventLogContiguous
<1>1. TypeInv => EventLogContiguous
  BY DEF TypeInv, HistoryInv
<1>. QED
  BY <1>1, TypeInvariant, PTL

-----------------------------------------------------------------------------
(* Exactly once, and on the ledger *)

\* What every step must be shown to do: keep ExactlyOnce, and be a step of
\* EventLedger or a stutter.
HistoryStep ==
    /\ ExactlyOnce => ExactlyOnce'
    /\ [Ledger!Next]_(Ledger!vars)

\* What ExactlyOnce says of an event that some request asked for.
Answered(i) ==
    LET m == events[i].mutation IN
    /\ m \in DOMAIN processed
    /\ \/ /\ Accepted(m)
          /\ processed[m].seq = i
          /\ events[i].version = processed[m].base + 1
       \/ processed[m].kind = "excel" /\ EnteredTogether(m)

\* Stored responses stay, retained events stay, and later events are about
\* requests that were not answered before: what holds of an event goes on to.
LEMMA EventsStayAnswered ==
    ASSUME TypeInv, ExactlyOnce, session.seq \in Int,
           \A x \in DOMAIN processed :
              x \in DOMAIN processed' /\ processed'[x] = processed[x],
           DOMAIN events' \subseteq Int,
           \A i, j \in DOMAIN events' : i..j \subseteq DOMAIN events',
           \A i \in DOMAIN events' :
              \/ i <= session.seq /\ i \in DOMAIN events /\ events'[i] = events[i]
              \/ i > session.seq /\ events'[i].mutation \notin DOMAIN processed,
           NEW i \in DOMAIN events', i <= session.seq, events'[i].mutation # NoMutation
    PROVE  Answered(i)'
<1>. DEFINE m == events[i].mutation
<1>1. i \in DOMAIN events /\ events'[i] = events[i] /\ m # NoMutation
  OBVIOUS
<1>2. m \in DOMAIN processed /\ m \in DOMAIN processed' /\ processed'[m] = processed[m]
  BY <1>1 DEF ExactlyOnce
<1>3. CASE /\ Accepted(m) /\ processed[m].seq = i
           /\ events[i].version = processed[m].base + 1
  BY <1>1, <1>2, <1>3 DEF Answered, Accepted
<1>4. CASE processed[m].kind = "excel" /\ EnteredTogether(m)
  <2>1. ASSUME NEW j \in DOMAIN events', NEW k \in DOMAIN events',
               events'[j].mutation = m, events'[k].mutation = m
        PROVE  /\ \A x \in j..k : events'[x].mutation = m
               /\ events'[j].entity = events'[k].entity => j = k
    <3>1. /\ j \in DOMAIN events /\ events'[j] = events[j] /\ j <= session.seq
          /\ k \in DOMAIN events /\ events'[k] = events[k] /\ k <= session.seq
          /\ j \in Int /\ k \in Int
      BY <1>2, <2>1
    <3>2. /\ \A x \in j..k : events[x].mutation = m
          /\ events[j].entity = events[k].entity => j = k
      BY <1>4, <2>1, <3>1 DEF EnteredTogether
    <3>3. ASSUME NEW x \in j..k  PROVE events'[x] = events[x]
      <4>1. x \in DOMAIN events' /\ x <= session.seq
        BY <2>1, <3>1
      <4>. QED
        BY <4>1
    <3>. QED
      BY <3>1, <3>2, <3>3
  <2>2. EnteredTogether(m)'
    BY <2>1, <1>1 DEF EnteredTogether
  <2>. HIDE DEF m
  <2>3. events'[i].mutation = m
    BY <1>1 DEF m
  <2>4. processed'[m].kind = "excel"
    BY <1>2, <1>4
  <2>5. \A x : x = m => /\ x \in DOMAIN processed' /\ processed'[x].kind = "excel"
    BY <1>2, <2>4
  <2>6. EnteredTogether(events[i].mutation)'
    BY <2>1, <2>3 DEF EnteredTogether
  <2>. QED
    BY <2>3, <2>5, <2>6 DEF Answered
<1>. QED
  BY <1>1, <1>3, <1>4 DEF ExactlyOnce

\* An accepted operation appends an event under a mutationId that no event bears
\* yet, stores the response that names this event, and its version follows the
\* base version of the request.
LEMMA AcceptedOnce ==
    ASSUME TypeInv, ExactlyOnce, NEW m \in MutationId, Fresh(m), NEW kind, NEW u,
           NEW base \in Nat, StoreAccepted(m, kind, u, base), NEW row, NEW e,
           row.seq = session.seq, row.minSeq = session.minSeq, row \in SessionRow,
           AppendEvent(row, e), e.mutation = m, e.version = base + 1
    PROVE  ExactlyOnce'
<1>. DEFINE answer == [kind |-> kind, user |-> u, outcome |-> "accepted",
                       seq |-> session.seq + 1, base |-> base]
<1>1. /\ session.seq \in Nat /\ session.minSeq \in Nat /\ session.minSeq <= session.seq
      /\ DOMAIN events = (session.minSeq + 1)..session.seq
  BY SessionColumns DEF TypeInv, HistoryInv, EventLogContiguous
<1>2. /\ session'.seq = session.seq + 1 /\ session'.minSeq = session.minSeq
      /\ DOMAIN events' = DOMAIN events \cup {session.seq + 1}
      /\ events'[session.seq + 1] = e
      /\ \A i \in DOMAIN events \ {session.seq + 1} : events'[i] = events[i]
  BY DEF AppendEvent, Put, SessionRow
<1>3. /\ DOMAIN processed' = DOMAIN processed \cup {m}
      /\ processed'[m] = answer
      /\ \A x \in DOMAIN processed \ {m} : processed'[x] = processed[x]
  BY DEF StoreAccepted, Put
<1>4. m \notin DOMAIN processed
  BY DEF Fresh
<1>5. \A x \in MutationId \ {m} :
         /\ Accepted(x)' <=> Accepted(x)
         /\ Accepted(x) => processed'[x] = processed[x]
  BY <1>3 DEF Accepted
<1>6. Accepted(m)' /\ processed'[m].seq = session.seq + 1 /\ processed'[m].base = base
  BY <1>3 DEF Accepted
<1>. HIDE DEF answer
<1>7. ASSUME NEW i \in DOMAIN events', events'[i].mutation # NoMutation
      PROVE  Answered(i)'
  <2>1. CASE i = session.seq + 1
    BY <1>2, <1>3, <1>6, <2>1 DEF Answered, Accepted
  <2>2. CASE i <= session.seq
    <3>1. /\ DOMAIN events' \subseteq Int
          /\ \A j, k \in DOMAIN events' : j..k \subseteq DOMAIN events'
      BY <1>1, <1>2
    <3>2. \A j \in DOMAIN events' :
             \/ j <= session.seq /\ j \in DOMAIN events /\ events'[j] = events[j]
             \/ j > session.seq /\ events'[j].mutation \notin DOMAIN processed
      BY <1>1, <1>2, <1>4
    <3>3. \A x \in DOMAIN processed : x \in DOMAIN processed' /\ processed'[x] = processed[x]
      BY <1>3, <1>4
    <3>. QED
      BY <1>1, <1>7, <2>2, <3>1, <3>2, <3>3, EventsStayAnswered
  <2>. QED
    BY <1>1, <1>2, <2>1, <2>2
<1>8. ASSUME NEW x \in MutationId, Accepted(x)'
      PROVE  /\ processed'[x].seq \in 1..session'.seq
             /\ processed'[x].seq > session'.minSeq =>
                   events'[processed'[x].seq].mutation = x
  <2>1. CASE x = m
    BY <1>1, <1>2, <1>6, <2>1
  <2>2. CASE x # m
    <3>1. Accepted(x) /\ processed'[x] = processed[x]
      BY <1>5, <1>8, <2>2
    <3>2. /\ processed[x].seq \in 1..session.seq
          /\ processed[x].seq > session.minSeq =>
                events[processed[x].seq].mutation = x
      BY <3>1 DEF ExactlyOnce
    <3>. QED
      BY <1>1, <1>2, <3>1, <3>2
  <2>. QED
    BY <2>1, <2>2
<1>. QED
  BY <1>7, <1>8 DEF ExactlyOnce, Answered, Accepted, EnteredTogether

\* A step that appends nothing, stores at most an answer that is not an
\* acceptance, and at most drops old events.
LEMMA NothingAccepted ==
    ASSUME TypeInv, ExactlyOnce,
           \/ UNCHANGED processed
           \/ \E m, kind, u, outcome :
                 /\ outcome # "accepted"
                 /\ Fresh(m)
                 /\ StoreResponse(m, kind, u, outcome),
           session'.seq = session.seq,
           \/ UNCHANGED events /\ session'.minSeq = session.minSeq
           \/ \E target \in session.minSeq..session.seq :
                 /\ session'.minSeq = target
                 /\ events' = Without(events, (session.minSeq + 1)..target)
    PROVE  ExactlyOnce'
<1>1. /\ session.seq \in Nat /\ session.minSeq \in Nat
      /\ DOMAIN events = (session.minSeq + 1)..session.seq
  BY SessionColumns DEF TypeInv, HistoryInv, EventLogContiguous
<1>2. /\ \A x : Accepted(x)' <=> Accepted(x)
      /\ \A x \in DOMAIN processed : x \in DOMAIN processed' /\ processed'[x] = processed[x]
  <2>1. CASE UNCHANGED processed
    BY <2>1 DEF Accepted
  <2>2. ASSUME NEW m, NEW kind, NEW u, NEW outcome, outcome # "accepted",
               Fresh(m), StoreResponse(m, kind, u, outcome)
        PROVE  /\ \A x : Accepted(x)' <=> Accepted(x)
               /\ \A x \in DOMAIN processed :
                     x \in DOMAIN processed' /\ processed'[x] = processed[x]
    <3>1. /\ DOMAIN processed' = DOMAIN processed \cup {m}
          /\ processed'[m].outcome = outcome
          /\ \A x \in DOMAIN processed \ {m} : processed'[x] = processed[x]
      BY <2>2 DEF StoreResponse, Put
    <3>. QED
      BY <2>2, <3>1 DEF Accepted, Fresh
  <2>. QED
    BY <2>1, <2>2
<1>3. /\ session'.minSeq \in Nat /\ session'.minSeq >= session.minSeq
      /\ DOMAIN events' = (session'.minSeq + 1)..session.seq
      /\ \A i \in DOMAIN events' : i \in DOMAIN events /\ events'[i] = events[i]
  <2>1. CASE UNCHANGED events /\ session'.minSeq = session.minSeq
    BY <1>1, <2>1
  <2>2. ASSUME NEW target \in session.minSeq..session.seq,
               session'.minSeq = target,
               events' = Without(events, (session.minSeq + 1)..target)
        PROVE  /\ session'.minSeq \in Nat /\ session'.minSeq >= session.minSeq
               /\ DOMAIN events' = (session'.minSeq + 1)..session.seq
               /\ \A i \in DOMAIN events' : i \in DOMAIN events /\ events'[i] = events[i]
    BY <1>1, <2>2 DEF Without, Restrict
  <2>. QED
    BY <2>1, <2>2
<1>4. ASSUME NEW i \in DOMAIN events', events'[i].mutation # NoMutation
      PROVE  Answered(i)'
  <2>1. /\ DOMAIN events' \subseteq Int
        /\ \A j, k \in DOMAIN events' : j..k \subseteq DOMAIN events'
        /\ \A j \in DOMAIN events' : j <= session.seq
    BY <1>1, <1>3
  <2>. QED
    BY <1>1, <1>2, <1>3, <1>4, <2>1, EventsStayAnswered
<1>5. ASSUME NEW x \in MutationId, Accepted(x)'
      PROVE  /\ processed'[x].seq \in 1..session'.seq
             /\ processed'[x].seq > session'.minSeq =>
                   events'[processed'[x].seq].mutation = x
  <2>1. Accepted(x) /\ processed'[x] = processed[x]
    BY <1>2, <1>5 DEF Accepted
  <2>. QED
    BY <1>1, <1>3, <2>1 DEF ExactlyOnce
<1>. QED
  BY <1>4, <1>5 DEF ExactlyOnce, Answered, Accepted, EnteredTogether

\* The inactivity sweep appends an event under a mutationId no client knows.
LEMMA SweepKeepsExactlyOnce ==
    ASSUME TypeInv, ExactlyOnce, SweepInactiveSession
    PROVE  ExactlyOnce'
<1>. DEFINE row == [session EXCEPT !.status = "closed", !.version = @ + 1]
            next == IF draft.present THEN draft.version + 1 ELSE 0
            e == EventOf("session.closed", SessionId, SessionBodyOf(row, next),
                         NoMutation)
<1>1. /\ session.seq \in Nat /\ session.minSeq \in Nat /\ session.minSeq <= session.seq
      /\ DOMAIN events = (session.minSeq + 1)..session.seq
  BY SessionColumns DEF TypeInv, HistoryInv, EventLogContiguous
<1>2. row.seq = session.seq /\ row.minSeq = session.minSeq /\ row \in SessionRow
  BY NextSessionRow DEF Status
<1>3. e.mutation = NoMutation
  BY DEF EventOf
<1>4. AppendEvent(row, e) /\ UNCHANGED processed
  BY DEF SweepInactiveSession, Discard, WriteSession
<1>. HIDE DEF row, e
<1>5. /\ session'.seq = session.seq + 1 /\ session'.minSeq = session.minSeq
      /\ DOMAIN events' = DOMAIN events \cup {session.seq + 1}
      /\ events'[session.seq + 1] = e
      /\ \A i \in DOMAIN events \ {session.seq + 1} : events'[i] = events[i]
  BY <1>2, <1>4 DEF AppendEvent, Put, SessionRow
<1>6. \A x : /\ Accepted(x)' <=> Accepted(x)
             /\ processed'[x] = processed[x]
  BY <1>4 DEF Accepted
<1>7. ASSUME NEW i \in DOMAIN events', events'[i].mutation # NoMutation
      PROVE  Answered(i)'
  <2>1. i \in DOMAIN events \ {session.seq + 1} /\ i <= session.seq
    BY <1>1, <1>3, <1>5, <1>7
  <2>2. /\ DOMAIN events' \subseteq Int
        /\ \A j, k \in DOMAIN events' : j..k \subseteq DOMAIN events'
    BY <1>1, <1>5
  <2>3. NoMutation \notin DOMAIN processed
    BY StoreAssumption DEF TypeInv, TypeOK, StoreTypeOK, IsTable
  <2>4. \A j \in DOMAIN events' :
           \/ j <= session.seq /\ j \in DOMAIN events /\ events'[j] = events[j]
           \/ j > session.seq /\ events'[j].mutation \notin DOMAIN processed
    BY <1>1, <1>3, <1>5, <2>3
  <2>. QED
    BY <1>1, <1>4, <1>7, <2>1, <2>2, <2>4, EventsStayAnswered
<1>8. ASSUME NEW x \in MutationId, Accepted(x)'
      PROVE  /\ processed'[x].seq \in 1..session'.seq
             /\ processed'[x].seq > session'.minSeq =>
                   events'[processed'[x].seq].mutation = x
  <2>1. /\ processed[x].seq \in 1..session.seq
        /\ processed[x].seq > session.minSeq => events[processed[x].seq].mutation = x
    BY <1>6, <1>8 DEF ExactlyOnce
  <2>. QED
    BY <1>1, <1>5, <1>6, <2>1
<1>. QED
  BY <1>7, <1>8 DEF ExactlyOnce, Answered, Accepted, EnteredTogether

\* An application of corrections enters its events next to each other, each about
\* a Log of its own, under a mutationId that no event bears yet.
LEMMA CorrectionsKeepExactlyOnce ==
    ASSUME TypeInv, ExactlyOnce, NEW u \in User, NEW corrections \in Selections,
           NEW m \in MutationId, ApplyCorrections(u, corrections, m)
    PROVE  ExactlyOnce'
<1>. DEFINE n == Len(corrections)
<1>1. /\ session.seq \in Nat /\ session.minSeq \in Nat /\ session.minSeq <= session.seq
      /\ DOMAIN events = (session.minSeq + 1)..session.seq
  BY SessionColumns DEF TypeInv, HistoryInv, EventLogContiguous
<1>0. CorrectionsAreMade(corrections, n, m)
  BY CorrectionsApplied
<1>. HIDE DEF n
<1>2. /\ n \in Nat \ {0}
      /\ session'.seq = session.seq + n /\ session'.minSeq = session.minSeq
      /\ DOMAIN events' = DOMAIN events \cup (session.seq + 1)..(session.seq + n)
      /\ \A i \in DOMAIN events : events'[i] = events[i]
      /\ \A i \in 1..n : /\ events'[session.seq + i].mutation = m
                         /\ events'[session.seq + i].entity = corrections[i].log
      /\ \A i, j \in 1..n : corrections[i].log = corrections[j].log => i = j
  BY <1>0 DEF CorrectionsAreMade
<1>3. /\ m \notin DOMAIN processed /\ DOMAIN processed' = DOMAIN processed \cup {m}
      /\ processed'[m].kind = "excel" /\ processed'[m].outcome = "done"
      /\ \A x \in DOMAIN processed : processed'[x] = processed[x]
  BY DEF ApplyCorrections, Fresh, StoreResponse, Put
<1>4. \A x : Accepted(x)' <=> Accepted(x)
  BY <1>3 DEF Accepted
<1>5. DOMAIN events' = (session.minSeq + 1)..(session.seq + n)
  BY <1>1, <1>2
<1>6. ASSUME NEW i \in DOMAIN events', i > session.seq
      PROVE  /\ i - session.seq \in 1..n /\ events'[i].mutation = m
             /\ events'[i].entity = corrections[i - session.seq].log
  <2>1. i - session.seq \in 1..n /\ session.seq + (i - session.seq) = i
    BY <1>1, <1>2, <1>5, <1>6
  <2>. QED
    BY <1>2, <2>1
<1>7. ASSUME NEW i \in DOMAIN events', i <= session.seq
      PROVE  /\ i \in DOMAIN events /\ events'[i] = events[i] /\ events'[i].mutation # m
  <2>1. i \in DOMAIN events /\ events'[i] = events[i]
    BY <1>1, <1>2, <1>5, <1>7
  <2>2. m # NoMutation
    BY StoreAssumption
  <2>. QED
    BY <1>3, <2>1, <2>2 DEF ExactlyOnce
<1>8. ASSUME NEW i \in DOMAIN events', i <= session.seq, events'[i].mutation # NoMutation
      PROVE  Answered(i)'
  <2>1. /\ DOMAIN events' \subseteq Int
        /\ \A j, k \in DOMAIN events' : j..k \subseteq DOMAIN events'
    BY <1>1, <1>2, <1>5
  <2>2. \A j \in DOMAIN events' :
           \/ j <= session.seq /\ j \in DOMAIN events /\ events'[j] = events[j]
           \/ j > session.seq /\ events'[j].mutation \notin DOMAIN processed
    BY <1>1, <1>3, <1>5, <1>6, <1>7
  <2>3. \A x \in DOMAIN processed : x \in DOMAIN processed' /\ processed'[x] = processed[x]
    BY <1>3
  <2>. QED
    BY <1>1, <1>8, <2>1, <2>2, <2>3, EventsStayAnswered
<1>9. EnteredTogether(m)'
  <2>1. ASSUME NEW i \in DOMAIN events', NEW j \in DOMAIN events',
               events'[i].mutation = m, events'[j].mutation = m
        PROVE  /\ \A k \in i..j : events'[k].mutation = m
               /\ events'[i].entity = events'[j].entity => i = j
    <3>1. i > session.seq /\ j > session.seq /\ i \in Int /\ j \in Int
      BY <1>1, <1>5, <1>7, <2>1
    <3>2. ASSUME NEW k \in i..j  PROVE events'[k].mutation = m
      <4>1. k \in DOMAIN events' /\ k > session.seq
        BY <1>1, <1>2, <1>5, <3>1
      <4>. QED
        BY <1>6, <4>1
    <3>3. ASSUME events'[i].entity = events'[j].entity  PROVE i = j
      <4>1. i - session.seq = j - session.seq
        BY <1>2, <1>6, <3>1, <3>3
      <4>. QED
        BY <1>1, <3>1, <4>1
    <3>. QED
      BY <3>2, <3>3
  <2>. QED
    BY <2>1 DEF EnteredTogether
<1>10. ASSUME NEW i \in DOMAIN events', i > session.seq
       PROVE  Answered(i)'
  <2>1. events'[i].mutation = m
    BY <1>6, <1>10
  <2>2. EnteredTogether(events[i].mutation)'
    BY <1>9, <2>1 DEF EnteredTogether
  <2>. QED
    BY <1>3, <2>1, <2>2 DEF Answered
<1>11. ASSUME NEW x \in MutationId, Accepted(x)'
       PROVE  /\ processed'[x].seq \in 1..session'.seq
              /\ processed'[x].seq > session'.minSeq =>
                    events'[processed'[x].seq].mutation = x
  <2>1. Accepted(x) /\ processed'[x] = processed[x]
    BY <1>3, <1>4, <1>11 DEF Accepted
  <2>2. /\ processed[x].seq \in 1..session.seq
        /\ processed[x].seq > session.minSeq => events[processed[x].seq].mutation = x
    BY <2>1 DEF ExactlyOnce
  <2>. QED
    BY <1>1, <1>2, <2>1, <2>2
<1>12. \A i \in DOMAIN events' : i <= session.seq \/ i > session.seq
  BY <1>1, <1>5
<1>. QED
  BY <1>8, <1>10, <1>11, <1>12 DEF ExactlyOnce, Answered, Accepted, EnteredTogether

\* An application of corrections is one entering of the ledger.
LEMMA CorrectionsEntered ==
    ASSUME TypeInv, NEW u \in User, NEW corrections \in Selections,
           NEW m \in MutationId, ApplyCorrections(u, corrections, m)
    PROVE  Ledger!Next
<1>. DEFINE n == Len(corrections)
<1>1. session.seq \in Nat
  BY SessionColumns
<1>0. CorrectionsAreMade(corrections, n, m)
  BY CorrectionsApplied
<1>. HIDE DEF n
<1>2. /\ n \in Nat \ {0}
      /\ session'.seq = session.seq + n /\ session'.minSeq = session.minSeq
      /\ DOMAIN events' = DOMAIN events \cup (session.seq + 1)..(session.seq + n)
      /\ \A i \in DOMAIN events : events'[i] = events[i]
      /\ \A i \in 1..n : /\ events'[session.seq + i].mutation = m
                         /\ events'[session.seq + i].entity = corrections[i].log
      /\ \A i, j \in 1..n : corrections[i].log = corrections[j].log => i = j
  BY <1>0 DEF CorrectionsAreMade
<1>3. /\ m \notin DOMAIN processed /\ DOMAIN processed' = DOMAIN processed \cup {m}
      /\ processed'[m].seq = 0
      /\ \A x \in DOMAIN processed : processed'[x] = processed[x]
  BY DEF ApplyCorrections, Fresh, StoreResponse, Put
<1>4. [x \in DOMAIN processed' |-> processed'[x].seq]
        = Put([x \in DOMAIN processed |-> processed[x].seq], m, 0)
  BY <1>3 DEF Put
<1>5. \A i \in (session.seq + 1)..session'.seq :
         /\ i - session.seq \in 1..n /\ events'[i].mutation = m
         /\ events'[i].entity = corrections[i - session.seq].log
  <2>1. ASSUME NEW i \in (session.seq + 1)..session'.seq
        PROVE  /\ i - session.seq \in 1..n /\ events'[i].mutation = m
               /\ events'[i].entity = corrections[i - session.seq].log
    <3>1. i - session.seq \in 1..n /\ session.seq + (i - session.seq) = i
      BY <1>1, <1>2
    <3>. QED
      BY <1>2, <3>1
  <2>. QED
    BY <2>1
<1>6. \A i, j \in (session.seq + 1)..session'.seq :
         events'[i].entity = events'[j].entity => i = j
  <2>1. ASSUME NEW i \in (session.seq + 1)..session'.seq,
               NEW j \in (session.seq + 1)..session'.seq,
               events'[i].entity = events'[j].entity
        PROVE  i = j
    <3>1. i - session.seq = j - session.seq
      BY <1>2, <1>5, <2>1
    <3>. QED
      BY <1>1, <3>1
  <2>. QED
    BY <2>1
<1>7. session'.seq \in Nat /\ session'.seq > session.seq
  BY <1>1, <1>2
<1>8. Ledger!Enter
  <2>1. \E x \in DOMAIN [y \in DOMAIN processed' |-> processed'[y].seq]
                  \ DOMAIN [y \in DOMAIN processed |-> processed[y].seq] :
           /\ [y \in DOMAIN processed' |-> processed'[y].seq]
                 = Put([y \in DOMAIN processed |-> processed[y].seq], x, 0)
           /\ \A i \in (session.seq + 1)..session'.seq : events'[i].mutation = x
    BY <1>3, <1>4, <1>5
  <2>. QED
    BY <1>2, <1>6, <1>7, <2>1 DEF Ledger!Enter, Ledger!Put, Put
<1>. QED
  BY <1>8 DEF Ledger!Next

\* An event that is appended, and the receipt of its mutationId if it has one,
\* are one entry of the ledger.
LEMMA AppendedToLedger ==
    ASSUME TypeInv, NEW row, NEW e,
           row.seq = session.seq, row.minSeq = session.minSeq, row \in SessionRow,
           AppendEvent(row, e),
           \/ e.mutation = NoMutation /\ UNCHANGED processed
           \/ \E kind, u, base : /\ Fresh(e.mutation)
                                 /\ StoreAccepted(e.mutation, kind, u, base)
    PROVE  Ledger!Next
<1>1. /\ session'.seq = session.seq + 1 /\ session'.minSeq = session.minSeq
      /\ DOMAIN events' = DOMAIN events \cup {session.seq + 1}
      /\ events'[session.seq + 1] = e
      /\ \A i \in DOMAIN events \ {session.seq + 1} : events'[i] = events[i]
  BY DEF AppendEvent, Put, SessionRow
<1>2. session.seq + 1 \notin DOMAIN events
  BY SessionColumns DEF TypeInv, HistoryInv, EventLogContiguous
<1>3. CASE e.mutation = NoMutation /\ UNCHANGED processed
  BY <1>1, <1>2, <1>3 DEF Ledger!Next, Ledger!Append
<1>4. ASSUME NEW kind, NEW u, NEW base, Fresh(e.mutation),
             StoreAccepted(e.mutation, kind, u, base)
      PROVE  Ledger!Next
  <2>1. e.mutation # NoMutation /\ e.mutation \notin DOMAIN processed
    BY <1>4, StoreAssumption DEF Fresh
  <2>2. /\ DOMAIN processed' = DOMAIN processed \cup {e.mutation}
        /\ processed'[e.mutation].seq = session.seq + 1
        /\ \A x \in DOMAIN processed : processed'[x] = processed[x]
    BY <1>4, <2>1 DEF StoreAccepted, Put
  <2>3. [m \in DOMAIN processed' |-> processed'[m].seq]
          = Put([m \in DOMAIN processed |-> processed[m].seq], e.mutation,
                session.seq + 1)
    BY <2>1, <2>2 DEF Put
  <2>. QED
    BY <1>1, <1>2, <2>1, <2>2, <2>3 DEF Ledger!Next, Ledger!Append, Ledger!Put, Put
<1>. QED
  BY <1>3, <1>4

\* A step that appends nothing, and drops old events only with a new answer.
LEMMA AnsweredFromLedger ==
    ASSUME TypeInv,
           \/ UNCHANGED <<processed, events>> /\ session'.minSeq = session.minSeq
           \/ \E m, kind, u, outcome : /\ Fresh(m)
                                       /\ StoreResponse(m, kind, u, outcome),
           session'.seq = session.seq,
           \/ UNCHANGED events /\ session'.minSeq = session.minSeq
           \/ \E target \in session.minSeq..session.seq :
                 /\ session'.minSeq = target
                 /\ events' = Without(events, (session.minSeq + 1)..target)
    PROVE  [Ledger!Next]_(Ledger!vars)
<1>1. CASE UNCHANGED <<processed, events>> /\ session'.minSeq = session.minSeq
  BY <1>1 DEF Ledger!vars
<1>2. ASSUME NEW m, NEW kind, NEW u, NEW outcome, Fresh(m),
             StoreResponse(m, kind, u, outcome)
      PROVE  Ledger!Answer
  <2>1. /\ DOMAIN processed' = DOMAIN processed \cup {m}
        /\ m \notin DOMAIN processed
        /\ processed'[m].seq = 0
        /\ \A x \in DOMAIN processed : processed'[x] = processed[x]
    BY <1>2 DEF StoreResponse, Fresh, Put
  <2>2. [x \in DOMAIN processed' |-> processed'[x].seq]
          = Put([x \in DOMAIN processed |-> processed[x].seq], m, 0)
    BY <2>1 DEF Put
  <2>3. /\ session'.minSeq \in session.minSeq..session.seq
        /\ events' = Without(events, (session.minSeq + 1)..session'.minSeq)
    <3>1. /\ session.seq \in Nat /\ session.minSeq \in Nat
          /\ session.minSeq <= session.seq
      BY SessionColumns DEF TypeInv, HistoryInv
    <3>2. CASE UNCHANGED events /\ session'.minSeq = session.minSeq
      <4>1. (session.minSeq + 1)..session.minSeq = {}
        BY <3>1
      <4>2. events = [i \in DOMAIN events |-> events[i]]
        BY DEF TypeInv, TypeOK, StoreTypeOK, IsTable
      <4>. QED
        BY <3>1, <3>2, <4>1, <4>2 DEF Without, Restrict
    <3>. QED
      BY <3>1, <3>2
  <2>. QED
    BY <2>1, <2>2, <2>3 DEF Ledger!Answer, Ledger!Put, Put, Ledger!Without, Without,
       Ledger!Restrict, Restrict
<1>. QED
  BY <1>1, <1>2 DEF Ledger!Next

-----------------------------------------------------------------------------
(* The steps *)

\* An accepted operation.
LEMMA AcceptedStep ==
    ASSUME TypeInv, NEW m \in MutationId, Fresh(m), NEW kind, NEW u,
           NEW base \in Nat, StoreAccepted(m, kind, u, base), NEW row, NEW e,
           row.seq = session.seq, row.minSeq = session.minSeq, row \in SessionRow,
           AppendEvent(row, e), e.mutation = m, e.version = base + 1
    PROVE  HistoryStep
BY AcceptedOnce, AppendedToLedger DEF HistoryStep

\* A step that appends nothing.
LEMMA AnsweredStep ==
    ASSUME TypeInv,
           \/ UNCHANGED <<processed, events>> /\ session'.minSeq = session.minSeq
           \/ \E m, kind, u, outcome :
                 /\ outcome # "accepted"
                 /\ Fresh(m)
                 /\ StoreResponse(m, kind, u, outcome),
           session'.seq = session.seq,
           \/ UNCHANGED events /\ session'.minSeq = session.minSeq
           \/ \E target \in session.minSeq..session.seq :
                 /\ session'.minSeq = target
                 /\ events' = Without(events, (session.minSeq + 1)..target)
    PROVE  HistoryStep
<1>1. ExactlyOnce => ExactlyOnce'
  BY NothingAccepted
<1>2. [Ledger!Next]_(Ledger!vars)
  BY AnsweredFromLedger
<1>. QED
  BY <1>1, <1>2 DEF HistoryStep

\* The inactivity sweep.
LEMMA SweepKeepsHistory ==
    ASSUME TypeInv, SweepInactiveSession
    PROVE  HistoryStep
<1>. DEFINE row == [session EXCEPT !.status = "closed", !.version = @ + 1]
            next == IF draft.present THEN draft.version + 1 ELSE 0
            e == EventOf("session.closed", SessionId, SessionBodyOf(row, next),
                         NoMutation)
<1>1. row.seq = session.seq /\ row.minSeq = session.minSeq /\ row \in SessionRow
  BY NextSessionRow DEF Status
<1>2. e.mutation = NoMutation
  BY DEF EventOf
<1>3. AppendEvent(row, e) /\ UNCHANGED processed
  BY DEF SweepInactiveSession, Discard, WriteSession
<1>. HIDE DEF row, e
<1>4. Ledger!Next
  BY <1>1, <1>2, <1>3, AppendedToLedger
<1>. QED
  BY <1>4, SweepKeepsExactlyOnce DEF HistoryStep

\* The handlers of the life of a Session.
LEMMA LifecycleKeepsHistory ==
    ASSUME TypeInv, LifecycleStep
    PROVE  HistoryStep
<1>1. PICK u \in User, m \in MutationId :
        \/ \E title \in Text : CreateSession(u, title, m)
        \/ ConfirmSession(u, m)
        \/ \E S \in (SUBSET Log) \ {{}} : \E batch \in [S -> LogValue] :
              BootstrapLogs(u, batch, m)
        \/ \E r \in {"none", "named"} : Activate(u, r, m)
        \/ \E r \in {"none", "named"} : ActivateAgain(u, r, m)
        \/ \E base \in BaseVersion, path \in {"batch", "admin"} :
              \/ \E title \in Text : UpdateSession(path, u, title, base, m)
              \/ CloseSession(path, u, base, m)
              \/ ReopenSession(path, u, base, m)
              \/ DeleteSession(path, u, base, m)
        \/ \E base \in BaseVersion : CloseDiscardingLiveDraft(u, base, m)
  BY DEF LifecycleStep
<1>2. ASSUME \/ \E title \in Text : CreateSession(u, title, m)
             \/ ConfirmSession(u, m)
             \/ \E S \in (SUBSET Log) \ {{}} : \E batch \in [S -> LogValue] :
                   BootstrapLogs(u, batch, m)
             \/ \E r \in {"none", "named"} : ActivateAgain(u, r, m)
      PROVE  HistoryStep
  <2>1. \E kind, outcome : /\ outcome # "accepted"
                           /\ Fresh(m)
                           /\ StoreResponse(m, kind, u, outcome)
    BY <1>2 DEF CreateSession, ConfirmSession, BootstrapLogs, ActivateAgain
  <2>2. UNCHANGED events /\ session'.seq = session.seq
        /\ session'.minSeq = session.minSeq
    BY <1>2, SessionColumns
       DEF CreateSession, ConfirmSession, BootstrapLogs, ActivateAgain, PromotedRow,
           SessionRow
  <2>. QED
    BY <2>1, <2>2, AnsweredStep
<1>3. ASSUME NEW row, NEW type, NEW n, NEW kind, NEW base \in Nat,
             \/ \E status \in Status :
                   row = [session EXCEPT !.status = status, !.version = @ + 1]
             \/ \E title \in Text :
                   row = [session EXCEPT !.title = title, !.version = @ + 1]
             \/ row = [session EXCEPT !.deleted = TRUE, !.version = @ + 1],
             base = session.version, Fresh(m), WriteSession(type, row, n, m),
             StoreAccepted(m, kind, u, base)
      PROVE  HistoryStep
  <2>. DEFINE e == EventOf(type, SessionId, SessionBodyOf(row, n), m)
  <2>1. row \in SessionRow /\ row.seq = session.seq /\ row.minSeq = session.minSeq
    BY <1>3, NextSessionRow
  <2>2. row.version = session.version + 1
    BY <1>3, SessionColumns DEF SessionRow
  <2>3. e.mutation = m /\ e.version = base + 1
    BY <1>3, <2>2 DEF EventOf, SessionBodyOf
  <2>4. AppendEvent(row, e)
    BY <1>3 DEF WriteSession
  <2>. HIDE DEF e
  <2>. QED
    BY <1>3, <2>1, <2>3, <2>4, AcceptedStep
<1>4. ASSUME NEW r, Activate(u, r, m)
      PROVE  HistoryStep
  <2>1. PICK row : LET e == EventOf("session.activated", SessionId,
                                    SessionBodyOf(row, 0), m)
                   IN  IsActivation(row) /\ AppendEvent(row, e) /\ PublishOnly(e)
    BY <1>4, ActivationType
  <2>. DEFINE e == EventOf("session.activated", SessionId, SessionBodyOf(row, 0), m)
  <2>2. /\ AppendEvent(row, e) /\ Fresh(m)
        /\ StoreAccepted(m, "bootstrap", u, session.version)
    BY <1>4, <2>1 DEF Activate
  <2>3. e.mutation = m /\ e.version = session.version + 1
    BY <2>1 DEF EventOf, SessionBodyOf, IsActivation
  <2>. HIDE DEF e
  <2>. QED
    BY <2>1, <2>2, <2>3, SessionColumns, AcceptedStep DEF IsActivation
<1>5. ASSUME NEW base \in BaseVersion, NEW path \in {"batch", "admin"},
             NEW title \in Text, UpdateSession(path, u, title, base, m)
      PROVE  HistoryStep
  <2>. DEFINE row == [session EXCEPT !.title = title, !.version = @ + 1]
  <2>1. \E t \in Text : row = [session EXCEPT !.title = t, !.version = @ + 1]
    OBVIOUS
  <2>2. /\ WriteSession("session.updated", row, 0, m) /\ base = session.version
        /\ StoreAccepted(m, path, u, base) /\ Fresh(m)
    BY <1>5 DEF UpdateSession
  <2>. HIDE DEF row
  <2>. QED
    BY <1>3, <2>1, <2>2, MutationAssumption
<1>6. ASSUME NEW base \in BaseVersion, NEW path \in {"batch", "admin"},
             CloseSession(path, u, base, m) \/ ReopenSession(path, u, base, m)
      PROVE  HistoryStep
  <2>1. /\ base = session.version /\ StoreAccepted(m, path, u, base) /\ Fresh(m)
        /\ \E status \in Status : \E type : WriteSession(type,
               [session EXCEPT !.status = status, !.version = @ + 1], 0, m)
    BY <1>6 DEF CloseSession, ReopenSession, Status
  <2>. QED
    BY <1>3, <2>1, MutationAssumption
<1>7. ASSUME NEW base \in BaseVersion, NEW path \in {"batch", "admin"},
             DeleteSession(path, u, base, m)
      PROVE  HistoryStep
  <2>1. /\ base = session.version /\ StoreAccepted(m, path, u, base) /\ Fresh(m)
        /\ WriteSession("session.deleted",
               [session EXCEPT !.deleted = TRUE, !.version = @ + 1], 0, m)
    BY <1>7 DEF DeleteSession
  <2>. QED
    BY <1>3, <2>1, MutationAssumption
<1>8. ASSUME NEW base \in BaseVersion, CloseDiscardingLiveDraft(u, base, m)
      PROVE  HistoryStep
  <2>1. /\ base = session.version /\ StoreAccepted(m, "admin", u, base) /\ Fresh(m)
        /\ \E n : WriteSession("session.closed",
               [session EXCEPT !.status = "closed", !.version = @ + 1], n, m)
    BY <1>8 DEF CloseDiscardingLiveDraft, Discard
  <2>2. "closed" \in Status
    BY DEF Status
  <2>. QED
    BY <1>3, <2>1, <2>2, MutationAssumption
<1>. QED
  BY <1>1, <1>2, <1>4, <1>5, <1>6, <1>7, <1>8

\* mutateLog: the version it writes follows the one its request named.
LEMMA LogStepKeepsHistory ==
    ASSUME TypeInv, LogStep
    PROVE  HistoryStep
<1>1. PICK path \in Path, u \in User, op \in LogOperation, l \in Log,
          base \in BaseVersion, content \in LogValue, m \in MutationId :
          MutateLog(path, u, op, l, base, content, m)
  BY DEF LogStep
<1>. DEFINE row == WrittenLog(op, l, content)
            e == EventOf(LogEventType[op], l, row, m)
<1>2. row.version = base + 1
  <2>1. CASE op = "create"
    BY <1>1, <2>1, MutationAssumption DEF MutateLog, Applies, WrittenLog, NewLog
  <2>2. CASE op # "create"
    <3>1. l \in DOMAIN logs /\ base = logs[l].version
      BY <1>1, <2>2 DEF MutateLog, Applies
    <3>2. logs[l] \in LogRow
      BY <3>1, RowOfTable DEF TypeInv, TypeOK, StoreTypeOK
    <3>. QED
      BY <2>2, <3>1, <3>2 DEF WrittenLog, LogOperation, LogRow, NewLog
  <2>. QED
    BY <2>1, <2>2
<1>3. e.mutation = m /\ e.version = base + 1
  BY <1>2 DEF EventOf
<1>4. AppendEvent(session, e) /\ StoreAccepted(m, path, u, base) /\ Fresh(m)
  BY <1>1 DEF MutateLog
<1>. HIDE DEF row, e
<1>. QED
  BY <1>3, <1>4, SessionColumns, MutationAssumption, AcceptedStep

\* The live draft: a commit is accepted once, nothing else appends.
LEMMA DraftStepKeepsHistory ==
    ASSUME TypeInv, DraftStep
    PROVE  HistoryStep
<1>1. ASSUME NEW u \in User, NEW d \in Device, NEW l \in Log, NEW m \in MutationId,
             CommitDraft(u, d, l, m)
      PROVE  HistoryStep
  <2>. DEFINE row == NewLog(draft.fields)
              e == EventOf("log.created", l, row, m)
  <2>1. e.mutation = m /\ e.version = 0 + 1
    BY DEF EventOf, NewLog
  <2>2. AppendEvent(session, e) /\ StoreAccepted(m, "draft", u, 0) /\ Fresh(m)
    BY <1>1 DEF CommitDraft
  <2>. HIDE DEF e
  <2>. QED
    BY <2>1, <2>2, SessionColumns, AcceptedStep
<1>2. ASSUME NEW u \in User, NEW d \in Device, NEW m \in MutationId,
             SelectPreview(u, d, m) \/ DiscardDraft(u, d, m)
      PROVE  HistoryStep
  BY <1>2, AnsweredStep DEF SelectPreview, DiscardDraft
<1>3. ASSUME UNCHANGED storeVars
      PROVE  HistoryStep
  BY <1>3, AnsweredStep DEF storeVars
<1>4. ASSUME NEW u \in User,
             \/ ReadDraft(u)
             \/ RefusedDraftRequest(u)
             \/ \E d \in Device :
                   \/ \E f \in Field : AcquireLock(u, d, f) \/ ReleaseLock(u, d, f)
                   \/ \E candidate \in [Reuse -> Text \cup {Blank}] :
                         PublishPreview(u, d, candidate)
                   \/ ClearPreview(u, d)
                   \/ \E seq \in ClientSeq, updates \in Updates, consume \in BOOLEAN :
                         PatchDraft(u, d, seq, updates, consume)
      PROVE  HistoryStep
  BY <1>3, <1>4 DEF ReadDraft, RefusedDraftRequest, AcquireLock, ReleaseLock,
     PublishPreview, ClearPreview, PatchDraft
<1>. QED
  BY <1>1, <1>2, <1>4 DEF DraftStep

\* Members and invites: what these handlers store is never an acceptance.
LEMMA MembersKeepHistory ==
    ASSUME TypeInv, MemberStep \/ AdminMemberStep
    PROVE  HistoryStep
<1>1. ASSUME UNCHANGED events,
             UNCHANGED session \/ \E x : session' = [session EXCEPT !.owner = x],
             \/ UNCHANGED processed
             \/ \E m, kind, u : Fresh(m) /\ StoreResponse(m, kind, u, "done")
      PROVE  HistoryStep
  <2>1. session'.seq = session.seq /\ session'.minSeq = session.minSeq
    BY <1>1, SessionColumns DEF SessionRow
  <2>. QED
    BY <1>1, <2>1, AnsweredStep
<1>2. ASSUME NEW u \in User, NEW m \in MutationId,
             \/ LeaveSession(u, m)
             \/ NothingToChange(u, m)
             \/ \E target \in User :
                   \/ \E role \in MemberRole : ChangeRole(u, target, role, m)
                   \/ RemoveMember(u, target, m)
                   \/ TransferOwnership(u, target, m)
      PROVE  HistoryStep
  <2>1. UNCHANGED events /\ Fresh(m) /\ \E kind : StoreResponse(m, kind, u, "done")
    BY <1>2 DEF LeaveSession, NothingToChange, ChangeRole, RemoveMember,
       TransferOwnership, Keeps
  <2>2. UNCHANGED session \/ \E x : session' = [session EXCEPT !.owner = x]
    BY <1>2 DEF LeaveSession, NothingToChange, ChangeRole, RemoveMember,
       TransferOwnership
  <2>. QED
    BY <1>1, <2>1, <2>2
<1>3. ASSUME NEW u \in User, NEW i \in Invite,
             \/ \E m \in MutationId :
                   \/ \E role \in MemberRole, max \in MaxUses :
                         CreateInvite(u, i, role, max, m)
                   \/ RevokeInvite(u, i, m)
             \/ RedeemInvite(u, i)
             \/ InviteExpires(i)
      PROVE  HistoryStep
  <2>1. UNCHANGED <<session, events>>
    BY <1>3 DEF CreateInvite, RevokeInvite, RedeemInvite, InviteExpires, Keeps
  <2>2. \/ UNCHANGED processed
        \/ \E m, kind : Fresh(m) /\ StoreResponse(m, kind, u, "done")
    BY <1>3 DEF CreateInvite, RevokeInvite, RedeemInvite, InviteExpires
  <2>. QED
    BY <1>1, <2>1, <2>2
<1>4. ASSUME NEW a \in Admin, NEW u \in User, NEW m \in MutationId,
             \/ \E role \in MemberRole :
                   AdminAddMember(a, u, role, m) \/ AdminChangeRole(a, u, role, m)
             \/ AdminRemoveMember(a, u, m)
             \/ AdminTransfer(a, u, m)
             \/ \E i \in Invite : AdminRevokeInvite(a, i, m)
      PROVE  HistoryStep
  <2>1. UNCHANGED events /\ Fresh(m) /\ \E kind : StoreResponse(m, kind, a, "done")
    BY <1>4 DEF AdminAddMember, AdminChangeRole, AdminRemoveMember, AdminTransfer,
       AdminRevokeInvite, AdminCommand, Keeps
  <2>2. UNCHANGED session \/ \E x : session' = [session EXCEPT !.owner = x]
    BY <1>4 DEF AdminAddMember, AdminChangeRole, AdminRemoveMember, AdminTransfer,
       AdminRevokeInvite
  <2>. QED
    BY <1>1, <2>1, <2>2
<1>5. \A i \in Invite : InviteExpires(i) => HistoryStep
  <2>1. session.owner \in User
    BY SessionColumns
  <2>. QED
    BY <1>3, <2>1
<1>6. CASE MemberStep
  BY <1>2, <1>3, <1>5, <1>6 DEF MemberStep
<1>7. CASE AdminMemberStep
  BY <1>4, <1>7 DEF AdminMemberStep
<1>. QED
  BY <1>6, <1>7

\* Every step, whichever it is.
LEMMA NextKeepsHistory ==
    ASSUME TypeInv, [Next]_vars
    PROVE  HistoryStep
<1>1. CASE RefusalStep
  BY <1>1, AnsweredStep DEF RefusalStep, StoreConflict, StoreRejection
<1>2. CASE RetentionStep
  <2>1. PICK u \in User, m \in MutationId, target \in session.minSeq..session.seq :
            PruneEvents(u, target, m)
    BY <1>2 DEF RetentionStep
  <2>2. session'.seq = session.seq /\ session'.minSeq = target
    BY <2>1, SessionColumns DEF PruneEvents, SessionRow
  <2>. QED
    BY <2>1, <2>2, AnsweredStep DEF PruneEvents
<1>3. CASE TimerStep
  BY <1>3, AnsweredStep, SweepKeepsHistory
     DEF TimerStep, LeaseExpires, PreviewExpires, storeVars
<1>4. CASE UNCHANGED storeVars
  BY <1>4, AnsweredStep DEF storeVars
<1>5. CASE StreamStep \/ Restart \/ UNCHANGED vars
  BY <1>4, <1>5 DEF StreamStep, IssueTicket, TicketExpires, Connect, Receive,
     Disconnect, Restart, vars
<1>6. CASE CorrectionStep
  BY <1>6, CorrectionsKeepExactlyOnce, CorrectionsEntered
     DEF CorrectionStep, HistoryStep
<1>. QED
  BY <1>1, <1>2, <1>3, <1>5, <1>6, LifecycleKeepsHistory, LogStepKeepsHistory,
     DraftStepKeepsHistory, MembersKeepHistory DEF Next

\* A mutationId is applied at most once, and to the version its author saw,
\* however often and however late its request arrives (readStoredResponse,
\* storeResponse and the version tests of mutateLog and mutateSession).
THEOREM MutationsApplyOnce == Spec => []ExactlyOnce
<1>1. Init => ExactlyOnce
  BY DEF Init, StoreInit, NoRows, ExactlyOnce, Accepted
<1>2. TypeInv /\ ExactlyOnce /\ [Next]_vars => ExactlyOnce'
  BY NextKeepsHistory DEF HistoryStep
<1>. QED
  BY <1>1, <1>2, TypeInvariant, PTL DEF Spec

\* The handlers implement the ledger of EventLedger: numbered without gaps, never
\* rewritten, forgotten from the old end only, entered in one step for a request,
\* the one entry its receipt names or the corrections it makes together.
THEOREM HandlersImplementLedger == Spec => KeepsLedger
<1>1. Init => Ledger!Init
  BY DEF Init, StoreInit, NoRows, Ledger!Init, Ledger!NoRows
<1>2. TypeInv /\ [Next]_vars => [Ledger!Next]_(Ledger!vars)
  BY NextKeepsHistory DEF HistoryStep
<1>. QED
  BY <1>1, <1>2, TypeInvariant, PTL DEF Spec, KeepsLedger, Ledger!Spec

-----------------------------------------------------------------------------
(* One owner *)

\* OneOwner says nothing of a Session that is absent; that it has no members
\* yet is what makes its creator the only owner.
OwnerInv ==
    /\ OneOwner
    /\ session.status = "absent" => members = NoRows

IsOwner(u) == IsMember(u) /\ members[u].role = "owner"

\* A step that leaves memberships, the owner column and the existence of the
\* Session alone.
LEMMA OwnerUntouched ==
    ASSUME OwnerInv, UNCHANGED members, session'.owner = session.owner,
           session'.status = "absent" <=> session.status = "absent"
    PROVE  OwnerInv'
BY DEF OwnerInv, OneOwner, IsMember

\* The handlers that write the Session row: they keep the owner, and there is
\* a Session before and after.
LEMMA SessionWritesKeepOwner ==
    ASSUME TypeInv, OwnerInv, NEW row, NEW type, NEW n, NEW m,
           WriteSession(type, row, n, m), session.status # "absent",
           \/ \E status \in Status \ {"absent"} :
                 row = [session EXCEPT !.status = status, !.version = @ + 1]
           \/ \E title \in Text :
                 row = [session EXCEPT !.title = title, !.version = @ + 1]
           \/ row = [session EXCEPT !.deleted = TRUE, !.version = @ + 1],
           UNCHANGED members
    PROVE  OwnerInv'
<1>1. row \in SessionRow
  BY NextSessionRow
<1>2. row.owner = session.owner /\ row.status # "absent"
  BY SessionColumns DEF SessionRow
<1>3. session'.owner = row.owner /\ session'.status = row.status
  BY <1>1 DEF WriteSession, AppendEvent, SessionRow
<1>. QED
  BY <1>2, <1>3, OwnerUntouched

\* The handlers of the life of a Session; its creator becomes the owner.
LEMMA LifecycleKeepsOwner ==
    ASSUME TypeInv, OwnerInv, LifecycleStep
    PROVE  OwnerInv'
<1>1. PICK u \in User, m \in MutationId :
        \/ \E title \in Text : CreateSession(u, title, m)
        \/ ConfirmSession(u, m)
        \/ \E S \in (SUBSET Log) \ {{}} : \E batch \in [S -> LogValue] :
              BootstrapLogs(u, batch, m)
        \/ \E r \in {"none", "named"} : Activate(u, r, m)
        \/ \E r \in {"none", "named"} : ActivateAgain(u, r, m)
        \/ \E base \in BaseVersion, path \in {"batch", "admin"} :
              \/ \E title \in Text : UpdateSession(path, u, title, base, m)
              \/ CloseSession(path, u, base, m)
              \/ ReopenSession(path, u, base, m)
              \/ DeleteSession(path, u, base, m)
        \/ \E base \in BaseVersion : CloseDiscardingLiveDraft(u, base, m)
  BY DEF LifecycleStep
<1>2. ASSUME NEW title \in Text, CreateSession(u, title, m)
      PROVE  OwnerInv'
  <2>1. session'.status = "initializing" /\ session'.owner = u
    BY <1>2, SessionColumns DEF CreateSession, SessionRow
  <2>2. members = NoRows
    BY <1>2 DEF CreateSession, OwnerInv
  <2>3. /\ DOMAIN members' = {u}
        /\ members'[u] = [role |-> "owner", version |-> 1, removed |-> FALSE]
    BY <1>2, <2>2 DEF CreateSession, Put, NoRows
  <2>. QED
    BY <2>1, <2>3 DEF OwnerInv, OneOwner, IsMember
<1>3. CASE ConfirmSession(u, m) \/ \E r \in {"none", "named"} : ActivateAgain(u, r, m)
           \/ \E S \in (SUBSET Log) \ {{}} : \E batch \in [S -> LogValue] :
                 BootstrapLogs(u, batch, m)
  <2>1. /\ UNCHANGED members /\ session'.owner = session.owner
        /\ session'.status = session.status
    BY <1>3, SessionColumns
       DEF ConfirmSession, ActivateAgain, BootstrapLogs, PromotedRow, SessionRow
  <2>. QED
    BY <2>1, OwnerUntouched
<1>4. ASSUME NEW base, NEW path, NEW title \in Text, UpdateSession(path, u, title, base, m)
      PROVE  OwnerInv'
  BY <1>4, SessionWritesKeepOwner DEF UpdateSession, MayChangeSession
<1>5. ASSUME NEW status \in Status \ {"absent"}, NEW type, NEW n,
             session.status # "absent", UNCHANGED members,
             WriteSession(type, [session EXCEPT !.status = status, !.version = @ + 1], n, m)
      PROVE  OwnerInv'
  BY <1>5, SessionWritesKeepOwner
<1>6. ASSUME NEW r, Activate(u, r, m)
      PROVE  OwnerInv'
  <2>1. PICK row : LET e == EventOf("session.activated", SessionId,
                                    SessionBodyOf(row, 0), m)
                   IN  IsActivation(row) /\ AppendEvent(row, e) /\ PublishOnly(e)
    BY <1>6, ActivationType
  <2>2. /\ session'.owner = session.owner /\ session'.status = "active"
        /\ session.status = "initializing" /\ UNCHANGED members
    BY <1>6, <2>1 DEF Activate, AppendEvent, IsActivation, SessionRow
  <2>. QED
    BY <2>2, OwnerUntouched
<1>7. ASSUME NEW base, NEW path,
             \/ CloseSession(path, u, base, m)
             \/ ReopenSession(path, u, base, m)
             \/ CloseDiscardingLiveDraft(u, base, m)
      PROVE  OwnerInv'
  <2>1. /\ session.status # "absent" /\ UNCHANGED members
        /\ \E status \in Status \ {"absent"} : \E type, n : WriteSession(type,
              [session EXCEPT !.status = status, !.version = @ + 1], n, m)
    BY <1>7 DEF CloseSession, ReopenSession, CloseDiscardingLiveDraft, Discard, Status,
       MayChangeSession
  <2>. QED
    BY <1>5, <2>1
<1>8. ASSUME NEW base, NEW path, DeleteSession(path, u, base, m)
      PROVE  OwnerInv'
  BY <1>8, SessionWritesKeepOwner DEF DeleteSession, MayChangeSession
<1>. QED
  BY <1>1, <1>2, <1>3, <1>4, <1>6, <1>7, <1>8

\* Logs, refusals, retention, the draft, the timers and the sockets do not touch
\* memberships.
LEMMA OtherStepsKeepOwner ==
    ASSUME TypeInv, OwnerInv,
           \/ LogStep \/ CorrectionStep \/ RefusalStep \/ RetentionStep
           \/ DraftStep \/ TimerStep \/ StreamStep \/ Restart \/ UNCHANGED vars
    PROVE  OwnerInv'
<1>1. ASSUME NEW e, AppendEvent(session, e), UNCHANGED members
      PROVE  OwnerInv'
  BY <1>1, SessionColumns, OwnerUntouched DEF AppendEvent, SessionRow
<1>2. ASSUME UNCHANGED <<session, members>>
      PROVE  OwnerInv'
  BY <1>2, OwnerUntouched
<1>3. CASE LogStep
  BY <1>1, <1>3 DEF LogStep, MutateLog
<1>4. CASE RefusalStep
  BY <1>2, <1>4 DEF RefusalStep, StoreConflict, StoreRejection
<1>5. CASE RetentionStep
  BY <1>5, SessionColumns, OwnerUntouched DEF RetentionStep, PruneEvents, SessionRow
<1>6. CASE DraftStep
  <2>1. ASSUME NEW u, NEW d, NEW l, NEW m, CommitDraft(u, d, l, m)
        PROVE  OwnerInv'
    BY <1>1, <2>1 DEF CommitDraft
  <2>2. ASSUME NEW u, NEW d, NEW m, SelectPreview(u, d, m) \/ DiscardDraft(u, d, m)
        PROVE  OwnerInv'
    BY <1>2, <2>2 DEF SelectPreview, DiscardDraft
  <2>3. ASSUME NEW u,
               \/ ReadDraft(u) \/ RefusedDraftRequest(u)
               \/ \E d, f : AcquireLock(u, d, f) \/ ReleaseLock(u, d, f)
               \/ \E d, candidate : PublishPreview(u, d, candidate)
               \/ \E d : ClearPreview(u, d)
               \/ \E d, seq, updates, consume : PatchDraft(u, d, seq, updates, consume)
        PROVE  OwnerInv'
    BY <1>2, <2>3 DEF ReadDraft, RefusedDraftRequest, AcquireLock, ReleaseLock,
       PublishPreview, ClearPreview, PatchDraft, storeVars
  <2>. QED
    BY <1>6, <2>1, <2>2, <2>3 DEF DraftStep
<1>7. CASE TimerStep
  <2>1. CASE SweepInactiveSession
    <3>1. /\ session.status # "absent" /\ UNCHANGED members
          /\ \E n : WriteSession("session.closed",
                [session EXCEPT !.status = "closed", !.version = @ + 1], n, NoMutation)
      BY <2>1 DEF SweepInactiveSession, Discard, RequireMembership
    <3>2. "closed" \in Status \ {"absent"}
      BY DEF Status
    <3>. QED
      BY <3>1, <3>2, SessionWritesKeepOwner
  <2>. QED
    BY <1>2, <1>7, <2>1 DEF TimerStep, LeaseExpires, PreviewExpires, storeVars
<1>8. CASE StreamStep \/ Restart \/ UNCHANGED vars
  BY <1>2, <1>8 DEF StreamStep, IssueTicket, TicketExpires, Connect, Receive,
     Disconnect, Restart, vars, storeVars
<1>9. CASE CorrectionStep
  <2>1. PICK u \in User, corrections \in Selections, m \in MutationId :
            ApplyCorrections(u, corrections, m)
    BY <1>9 DEF CorrectionStep
  <2>2. UNCHANGED members /\ \E n : session' = [session EXCEPT !.seq = n]
    BY <2>1 DEF ApplyCorrections, AppendRun
  <2>. QED
    BY <2>2, SessionColumns, OwnerUntouched DEF SessionRow
<1>. QED
  BY <1>3, <1>4, <1>5, <1>6, <1>7, <1>8, <1>9

\* Both rows of a transfer change hands at once.
LEMMA TransferKeepsOwner ==
    ASSUME TypeInv, OwnerInv, session.status # "absent",
           NEW target \in User, target # session.owner, IsMember(target),
           IsMember(session.owner),
           members' = Transferred(session.owner, target),
           session' = [session EXCEPT !.owner = target]
    PROVE  OwnerInv'
<1>1. session'.owner = target /\ session'.status = session.status
  BY SessionColumns DEF SessionRow
<1>2. session.owner \in DOMAIN members /\ target \in DOMAIN members
  BY DEF IsMember
<1>3. members[session.owner] \in MemberRow /\ members[target] \in MemberRow
  BY <1>2, RowOfTable DEF TypeInv, TypeOK, StoreTypeOK
<1>4. /\ DOMAIN members' = DOMAIN members
      /\ members'[session.owner].role = "editor"
      /\ members'[target].role = "owner"
      /\ members'[target].removed = members[target].removed
      /\ \A x \in DOMAIN members \ {session.owner, target} : members'[x] = members[x]
  <2>. DEFINE rows == Transferred(session.owner, target)
  <2>1. /\ DOMAIN rows = DOMAIN members
        /\ rows[session.owner] =
              [members[session.owner] EXCEPT !.role = "editor", !.version = @ + 1]
        /\ rows[target] =
              [members[target] EXCEPT !.role = "owner", !.version = @ + 1]
        /\ \A x \in DOMAIN members \ {session.owner, target} : rows[x] = members[x]
    BY <1>2, TransferredRows
  <2>2. members' = rows
    OBVIOUS
  <2>. HIDE DEF rows
  <2>. QED
    BY <1>3, <2>1, <2>2 DEF MemberRow
<1>5. ASSUME NEW u \in User
      PROVE  IsOwner(u)' <=> u = target
  BY <1>4 DEF OwnerInv, OneOwner, IsMember, IsOwner
<1>. QED
  BY <1>1, <1>5 DEF OwnerInv, OneOwner, IsOwner

\* One membership changes, and it is not that of the owner.
LEMMA OtherMemberKeepsOwner ==
    ASSUME TypeInv, OwnerInv, session.status # "absent", UNCHANGED session,
           NEW u \in User, u # session.owner,
           \/ members' = Removed(u) /\ IsMember(u)
           \/ \E role \in MemberRole :
                 \/ members' = WithRole(u, role) /\ IsMember(u)
                 \/ members' = Joined(u, role)
    PROVE  OwnerInv'
<1>1. /\ DOMAIN members' = DOMAIN members \cup {u}
      /\ \A x \in DOMAIN members \ {u} : members'[x] = members[x]
  BY DEF Removed, WithRole, Joined, Put, IsMember
<1>2. ~IsOwner(u)'
  <2>1. CASE members' = Removed(u) /\ IsMember(u)
    <3>1. u \in DOMAIN members /\ members[u] \in MemberRow
      BY <2>1, RowOfTable DEF IsMember, TypeInv, TypeOK, StoreTypeOK
    <3>2. members'[u].removed
      BY <2>1, <3>1 DEF Removed, MemberRow
    <3>. QED
      BY <3>2 DEF IsOwner, IsMember
  <2>2. ASSUME NEW role \in MemberRole, members' = WithRole(u, role), IsMember(u)
        PROVE  ~IsOwner(u)'
    <3>1. u \in DOMAIN members /\ members[u] \in MemberRow
      BY <2>2, RowOfTable DEF IsMember, TypeInv, TypeOK, StoreTypeOK
    <3>2. members'[u].role = role
      BY <2>2, <3>1 DEF WithRole, MemberRow
    <3>. QED
      BY <3>2 DEF IsOwner, MemberRole
  <2>3. ASSUME NEW role \in MemberRole, members' = Joined(u, role)
        PROVE  ~IsOwner(u)'
    BY <2>3 DEF Joined, Put, IsOwner, MemberRole
  <2>. QED
    BY <2>1, <2>2, <2>3
<1>3. ASSUME NEW x \in User
      PROVE  IsOwner(x)' <=> x = session.owner
  BY <1>1, <1>2 DEF OwnerInv, OneOwner, IsMember, IsOwner
<1>. QED
  BY <1>3 DEF OwnerInv, OneOwner, IsOwner

\* The handlers of members and invites.
LEMMA MembersKeepOwner ==
    ASSUME TypeInv, OwnerInv, MemberStep \/ AdminMemberStep
    PROVE  OwnerInv'
<1>1. ASSUME NEW u \in User, session.status # "absent"
      PROVE  IsOwner(u) <=> u = session.owner
  BY <1>1 DEF OwnerInv, OneOwner, IsOwner
<1>2. ASSUME NEW u \in User, NEW m,
             \/ LeaveSession(u, m)
             \/ \E target \in User, role \in MemberRole : ChangeRole(u, target, role, m)
             \/ \E target \in User : RemoveMember(u, target, m)
      PROVE  OwnerInv'
  <2>1. PICK x \in User :
           /\ IsMember(x) /\ members[x].role \in MemberRole
           /\ session.status # "absent" /\ UNCHANGED session
           /\ \/ members' = Removed(x)
              \/ \E role \in MemberRole : members' = WithRole(x, role)
    BY <1>2 DEF LeaveSession, ChangeRole, RemoveMember, RequireMembership
  <2>2. x # session.owner
    BY <1>1, <2>1 DEF IsOwner, MemberRole
  <2>. QED
    BY <2>1, <2>2, OtherMemberKeepsOwner
<1>3. ASSUME NEW u \in User, NEW target \in User, NEW m, TransferOwnership(u, target, m)
      PROVE  OwnerInv'
  <2>1. /\ session.status # "absent" /\ IsMember(u) /\ members[u].role = "owner"
        /\ target # u /\ IsMember(target) /\ members' = Transferred(u, target)
        /\ session' = [session EXCEPT !.owner = target]
    BY <1>3 DEF TransferOwnership, RequireMembership
  <2>2. u = session.owner
    BY <1>1, <2>1 DEF IsOwner
  <2>. QED
    BY <2>1, <2>2, TransferKeepsOwner
<1>4. ASSUME UNCHANGED <<session, members>>
      PROVE  OwnerInv'
  BY <1>4, OwnerUntouched
<1>5. ASSUME NEW u \in User, NEW i \in Invite, RedeemInvite(u, i)
      PROVE  OwnerInv'
  <2>. DEFINE role == IF IsMember(u)
                      THEN effectiveRole(members[u].role, invites[i].role)
                      ELSE invites[i].role
  <2>1. /\ members' = Joined(u, role) /\ UNCHANGED session
        /\ session.status # "absent" /\ i \in DOMAIN invites
    BY <1>5 DEF RedeemInvite, Redeemable
  <2>2. invites[i].role \in MemberRole
    <3>1. invites[i] \in InviteRow
      BY <2>1, RowOfTable DEF TypeInv, TypeOK, StoreTypeOK
    <3>. QED
      BY <3>1 DEF InviteRow, MemberRole
  <2>3. CASE u = session.owner
    <3>1. IsOwner(u) /\ role = "owner"
      BY <1>1, <2>1, <2>3 DEF effectiveRole, IsOwner
    <3>2. /\ DOMAIN members' = DOMAIN members /\ IsOwner(u)'
          /\ \A x \in DOMAIN members \ {u} : members'[x] = members[x]
      BY <2>1, <3>1 DEF Joined, Put, IsOwner, IsMember
    <3>3. ASSUME NEW x \in User
          PROVE  IsOwner(x)' <=> x = session.owner
      BY <1>1, <2>1, <2>3, <3>2 DEF IsOwner, IsMember
    <3>. QED
      BY <2>1, <3>3 DEF OwnerInv, OneOwner, IsOwner
  <2>4. CASE u # session.owner
    <3>1. ASSUME IsMember(u) PROVE members[u].role \in MemberRole
      <4>1. members[u] \in MemberRow
        BY <3>1, RowOfTable DEF IsMember, TypeInv, TypeOK, StoreTypeOK
      <4>. QED
        BY <1>1, <2>1, <2>4, <3>1, <4>1 DEF IsOwner, MemberRow, Role, MemberRole
    <3>2. role \in MemberRole
      BY <2>2, <3>1 DEF effectiveRole, MemberRole
    <3>. HIDE DEF role
    <3>. QED
      BY <2>1, <2>4, <3>2, OtherMemberKeepsOwner
  <2>. QED
    BY <2>3, <2>4
<1>6. ASSUME NEW a, NEW u \in User, NEW m, NEW role \in MemberRole,
             \/ AdminAddMember(a, u, role, m)
             \/ AdminChangeRole(a, u, role, m)
             \/ AdminRemoveMember(a, u, m)
      PROVE  OwnerInv'
  <2>1. /\ session.status # "absent" /\ UNCHANGED session
        /\ ~IsMember(u) \/ members[u].role \in MemberRole
        /\ \/ members' = Removed(u) /\ IsMember(u)
           \/ members' = WithRole(u, role) /\ IsMember(u)
           \/ members' = Joined(u, role)
    BY <1>6 DEF AdminAddMember, AdminChangeRole, AdminRemoveMember, AdminCommand
  <2>2. u # session.owner
    BY <1>1, <2>1 DEF IsOwner, MemberRole
  <2>. QED
    BY <2>1, <2>2, OtherMemberKeepsOwner
<1>7. ASSUME NEW a, NEW target \in User, NEW m, AdminTransfer(a, target, m)
      PROVE  OwnerInv'
  <2>1. /\ session.status # "absent" /\ IsMember(target) /\ IsMember(session.owner)
        /\ target # session.owner
        /\ members' = Transferred(session.owner, target)
        /\ session' = [session EXCEPT !.owner = target]
    BY <1>7 DEF AdminTransfer, AdminCommand, MemberRole
  <2>. QED
    BY <2>1, TransferKeepsOwner
<1>8. CASE MemberStep
  <2>1. ASSUME NEW u, NEW m, NothingToChange(u, m)
        PROVE  OwnerInv'
    BY <1>4, <2>1 DEF NothingToChange
  <2>2. ASSUME NEW u, NEW i, NEW m,
               \/ \E role, max : CreateInvite(u, i, role, max, m)
               \/ RevokeInvite(u, i, m) \/ InviteExpires(i)
        PROVE  OwnerInv'
    BY <1>4, <2>2 DEF CreateInvite, RevokeInvite, InviteExpires
  <2>. QED
    BY <1>2, <1>3, <1>5, <1>8, <2>1, <2>2 DEF MemberStep
<1>9. CASE AdminMemberStep
  <2>1. ASSUME NEW a, NEW i, NEW m, AdminRevokeInvite(a, i, m)
        PROVE  OwnerInv'
    BY <1>4, <2>1 DEF AdminRevokeInvite
  <2>2. "viewer" \in MemberRole
    BY DEF MemberRole
  <2>. QED
    BY <1>6, <1>7, <1>9, <2>1, <2>2 DEF AdminMemberStep
<1>. QED
  BY <1>8, <1>9

\* OwnerInv holds in every reachable state.
LEMMA OwnerInvariant == Spec => []OwnerInv
<1>1. Init => OwnerInv
  BY DEF Init, StoreInit, OwnerInv, OneOwner
<1>2. TypeInv /\ OwnerInv /\ [Next]_vars => OwnerInv'
  BY LifecycleKeepsOwner, OtherStepsKeepOwner, MembersKeepOwner DEF Next
<1>. QED
  BY <1>1, <1>2, TypeInvariant, PTL DEF Spec

\* A Session always has exactly one owner, a member in good standing, and its
\* owner column names that member (uq_session_members_active_owner, the transfers).
THEOREM SessionHasOneOwner == Spec => []OneOwner
<1>1. OwnerInv => OneOwner
  BY DEF OwnerInv
<1>. QED
  BY <1>1, OwnerInvariant, PTL

-----------------------------------------------------------------------------
(* What a step does to the rows that events are about *)

\* A handler writes the Log l under its next version and announces it.
LogIsWritten(l, row, type, m) ==
    /\ session.status \in {"active", "closed"} /\ ~session.deleted
    /\ row.version = IF l \in DOMAIN logs THEN logs[l].version + 1 ELSE 1
    /\ logs' = Put(logs, l, row)
    /\ AppendEvent(session, EventOf(type, l, row, m))
    /\ PublishOnly(EventOf(type, l, row, m))
    /\ UNCHANGED <<members, invites>>

LogWritten ==
    \E l \in Log, row \in LogRow, type \in EventType, m \in MutationId :
        LogIsWritten(l, row, type, m)

\* What a promotion may do to the Logs: nothing that readers compare, and nothing
\* at all when the account is on record already.
LogsAreAlike ==
    /\ DOMAIN logs' = DOMAIN logs
    /\ \A l \in DOMAIN logs : SameLog(logs'[l], logs[l])
    /\ session'.promoted = session.promoted => UNCHANGED logs

\* A handler writes the Session row and announces it; a deletion is none of these.
SessionIsWritten(row, n, type, m) ==
    /\ session.status # "absent" /\ ~session.deleted
    /\ row.version = session.version + 1 /\ row.owner = session.owner
    /\ row.seq = session.seq /\ row.minSeq = session.minSeq
    /\ row.status \in {session.status, "active", "closed"} /\ ~row.deleted
    /\ WriteSession(type, row, n, m)
    /\ conns' = Published(type, row, n, m)
    /\ LogsAreAlike
    /\ UNCHANGED <<members, invites, tickets>>

SessionWritten ==
    \E row \in SessionRow, n \in Nat, type \in EventType,
       m \in MutationId \cup {NoMutation} : SessionIsWritten(row, n, type, m)

SessionDeleted ==
    \E path \in {"batch", "admin"}, u \in User, base \in BaseVersion, m \in MutationId :
        DeleteSession(path, u, base, m)

SessionCreated ==
    \E u \in User, title \in Text, m \in MutationId : CreateSession(u, title, m)

SessionFilled ==
    \E u \in User, m \in MutationId, S \in SUBSET Log : \E batch \in [S -> LogValue] :
        BootstrapLogs(u, batch, m)

\* A step that no event tells of: at most the owner changes, or a promotion is
\* completed.
NothingWritten ==
    /\ \/ UNCHANGED session
       \/ \E u \in User : session' = [session EXCEPT !.owner = u] /\ session.status # "absent"
       \/ session' = [session EXCEPT !.promoted = session'.promoted]
    /\ LogsAreAlike
    /\ UNCHANGED events

\* A request that is only answered: its response is stored, and at most a promotion
\* is completed late.
OnlyAnswered ==
    /\ session' = [session EXCEPT !.promoted = session'.promoted]
    /\ LogsAreAlike
    /\ UNCHANGED <<members, events, invites, draftVars, realtimeVars>>

\* Logs that do not change are alike.
LEMMA UnchangedLogsAreAlike ==
    ASSUME UNCHANGED logs
    PROVE  LogsAreAlike
BY DEF LogsAreAlike, SameLog

\* Completing a promotion leaves the Logs alike.
LEMMA PromotedLogsAreAlike ==
    ASSUME TypeInv, NEW u, NEW revision, completePersonalPromotion(u, revision),
           session'.promoted = PromotedRow(u, revision).promoted
    PROVE  LogsAreAlike
<1>1. session \in SessionRow
  BY SessionColumns
<1>2. CASE Promotes(u, revision)
  <2>1. session'.promoted = session.promoted \cup {u} /\ u \notin session.promoted
    BY <1>1, <1>2 DEF PromotedRow, Promotes, SessionRow
  <2>2. ASSUME NEW l \in DOMAIN logs
        PROVE  SameLog(logs'[l], logs[l])
    <3>1. logs[l] \in LogRow
      BY RowOfTable DEF TypeInv, TypeOK, StoreTypeOK
    <3>2. logs'[l] = [logs[l] EXCEPT !.stamp = "personal"]
      BY <1>2 DEF completePersonalPromotion
    <3>. QED
      BY <3>1, <3>2 DEF SameLog, LogRow
  <2>3. DOMAIN logs' = DOMAIN logs
    BY <1>2 DEF completePersonalPromotion
  <2>. QED
    BY <2>1, <2>2, <2>3 DEF LogsAreAlike
<1>3. CASE ~Promotes(u, revision)
  BY <1>3, UnchangedLogsAreAlike DEF completePersonalPromotion
<1>. QED
  BY <1>2, <1>3

\* The handlers of the life of a Session.
LEMMA LifecycleWrites ==
    ASSUME TypeInv, LifecycleStep
    PROVE  \/ SessionWritten \/ SessionDeleted \/ SessionCreated \/ SessionFilled
           \/ OnlyAnswered
<1>1. PICK u \in User, m \in MutationId :
        \/ \E title \in Text : CreateSession(u, title, m)
        \/ ConfirmSession(u, m)
        \/ \E S \in (SUBSET Log) \ {{}} : \E batch \in [S -> LogValue] :
              BootstrapLogs(u, batch, m)
        \/ \E r \in {"none", "named"} : Activate(u, r, m)
        \/ \E r \in {"none", "named"} : ActivateAgain(u, r, m)
        \/ \E base \in BaseVersion, path \in {"batch", "admin"} :
              \/ \E title \in Text : UpdateSession(path, u, title, base, m)
              \/ CloseSession(path, u, base, m)
              \/ ReopenSession(path, u, base, m)
              \/ DeleteSession(path, u, base, m)
        \/ \E base \in BaseVersion : CloseDiscardingLiveDraft(u, base, m)
  BY DEF LifecycleStep
<1>2. ASSUME NEW row, NEW n \in Nat, NEW type \in EventType,
             \/ \E status \in {"active", "closed"} :
                   row = [session EXCEPT !.status = status, !.version = @ + 1]
             \/ \E title \in Text :
                   row = [session EXCEPT !.title = title, !.version = @ + 1],
             session.status # "absent", ~session.deleted,
             WriteSession(type, row, n, m), conns' = Published(type, row, n, m),
             UNCHANGED <<members, logs, invites, tickets>>
      PROVE  SessionWritten
  <2>1. row \in SessionRow /\ row.seq = session.seq /\ row.minSeq = session.minSeq
    BY <1>2, NextSessionRow DEF Status
  <2>2. /\ row.version = session.version + 1 /\ row.owner = session.owner
        /\ row.status \in {session.status, "active", "closed"} /\ ~row.deleted
    BY <1>2, SessionColumns DEF SessionRow
  <2>3. SessionIsWritten(row, n, type, m)
    BY <1>2, <2>1, <2>2, UnchangedLogsAreAlike DEF SessionIsWritten
  <2>. QED
    BY <2>1, <2>3 DEF SessionWritten
<1>3. ASSUME NEW r, Activate(u, r, m)
      PROVE  SessionWritten
  <2>1. PICK row : LET e == EventOf("session.activated", SessionId,
                                    SessionBodyOf(row, 0), m)
                   IN  IsActivation(row) /\ AppendEvent(row, e) /\ PublishOnly(e)
    BY <1>3, ActivationType
  <2>2. LogsAreAlike
    <3>1. session'.promoted = PromotedRow(u, r).promoted /\ completePersonalPromotion(u, r)
      <4>. DEFINE after == [PromotedRow(u, r) EXCEPT !.status = "active",
                                                    !.version = session.version + 1]
      <4>1. session' = [after EXCEPT !.seq = after.seq + 1]
        BY <1>3 DEF Activate, AppendEvent
      <4>2. PromotedRow(u, r) \in SessionRow
        BY <1>3, PromotionType DEF Activate
      <4>. QED
        BY <1>3, <4>1, <4>2 DEF Activate, SessionRow
    <3>. QED
      BY <3>1, PromotedLogsAreAlike
  <2>3. SessionIsWritten(row, 0, "session.activated", m)
    BY <1>3, <2>1, <2>2
       DEF SessionIsWritten, IsActivation, Activate, WriteSession, Published,
           PublishOnly, RequireMembership
  <2>4. "session.activated" \in EventType /\ row \in SessionRow
    BY <2>1 DEF EventType, IsActivation
  <2>. QED
    BY <2>3, <2>4 DEF SessionWritten
<1>4. ASSUME NEW base, NEW path, NEW title \in Text, UpdateSession(path, u, title, base, m)
      PROVE  SessionWritten
  <2>. DEFINE row == [session EXCEPT !.title = title, !.version = @ + 1]
  <2>1. \E t \in Text : row = [session EXCEPT !.title = t, !.version = @ + 1]
    OBVIOUS
  <2>2. /\ session.status # "absent" /\ ~session.deleted
        /\ WriteSession("session.updated", row, 0, m)
        /\ conns' = Published("session.updated", row, 0, m)
        /\ UNCHANGED <<members, logs, invites, tickets>>
    BY <1>4 DEF UpdateSession, MayChangeSession
  <2>3. "session.updated" \in EventType
    BY DEF EventType
  <2>. HIDE DEF row
  <2>. QED
    BY <1>2, <2>1, <2>2, <2>3
<1>5. ASSUME NEW base, NEW path,
             CloseSession(path, u, base, m) \/ ReopenSession(path, u, base, m)
      PROVE  SessionWritten
  <2>1. PICK status \in {"active", "closed"}, type \in EventType :
           /\ session.status # "absent" /\ ~session.deleted
           /\ WriteSession(type, [session EXCEPT !.status = status, !.version = @ + 1], 0, m)
           /\ conns' = Published(type,
                         [session EXCEPT !.status = status, !.version = @ + 1], 0, m)
           /\ UNCHANGED <<members, logs, invites, tickets>>
    BY <1>5 DEF CloseSession, ReopenSession, MayChangeSession, EventType
  <2>. QED
    BY <1>2, <2>1
<1>6. ASSUME NEW base, CloseDiscardingLiveDraft(u, base, m)
      PROVE  SessionWritten
  <2>1. PICK n :
           /\ n = (IF draft.present THEN draft.version + 1 ELSE 0)
           /\ session.status # "absent" /\ ~session.deleted
           /\ WriteSession("session.closed",
                [session EXCEPT !.status = "closed", !.version = @ + 1], n, m)
           /\ conns' = Published("session.closed",
                         [session EXCEPT !.status = "closed", !.version = @ + 1], n, m)
           /\ UNCHANGED <<members, logs, invites, tickets>>
    BY <1>6 DEF CloseDiscardingLiveDraft, Discard, MayChangeSession
  <2>2. n \in Nat /\ "session.closed" \in EventType
    BY <2>1 DEF EventType, TypeInv, TypeOK, DraftTypeOK, DraftRow
  <2>. QED
    BY <1>2, <2>1, <2>2
<1>7. CASE ConfirmSession(u, m)
  <2>1. session' = [session EXCEPT !.promoted = session'.promoted]
    BY <1>7, SessionColumns DEF ConfirmSession, SessionRow
  <2>. QED
    BY <1>7, <2>1, UnchangedLogsAreAlike DEF ConfirmSession, OnlyAnswered
<1>8. ASSUME NEW r, ActivateAgain(u, r, m)
      PROVE  OnlyAnswered
  <2>1. LogsAreAlike
    BY <1>8, PromotedLogsAreAlike DEF ActivateAgain
  <2>2. session' = [session EXCEPT !.promoted = session'.promoted]
    BY <1>8, PromotionType DEF ActivateAgain
  <2>. QED
    BY <1>8, <2>1, <2>2 DEF ActivateAgain, OnlyAnswered
<1>. QED
  BY <1>1, <1>3, <1>4, <1>5, <1>6, <1>7, <1>8
     DEF SessionCreated, SessionFilled, SessionDeleted

\* The inactivity sweep closes the Session.
LEMMA SweepWrites ==
    ASSUME TypeInv, SweepInactiveSession
    PROVE  SessionWritten
<1>. DEFINE row == [session EXCEPT !.status = "closed", !.version = @ + 1]
            n == IF draft.present THEN draft.version + 1 ELSE 0
<1>1. row \in SessionRow /\ row.seq = session.seq /\ row.minSeq = session.minSeq
  BY NextSessionRow DEF Status
<1>2. /\ row.version = session.version + 1 /\ row.owner = session.owner
      /\ row.status = "closed" /\ row.deleted = session.deleted
  BY SessionColumns DEF SessionRow
<1>3. n \in Nat /\ "session.closed" \in EventType
  BY DEF EventType, TypeInv, TypeOK, DraftTypeOK, DraftRow
<1>4. /\ session.status # "absent" /\ ~session.deleted
      /\ WriteSession("session.closed", row, n, NoMutation)
      /\ conns' = Published("session.closed", row, n, NoMutation)
      /\ UNCHANGED <<members, logs, invites, tickets>>
  BY DEF SweepInactiveSession, Discard, RequireMembership
<1>. HIDE DEF row, n
<1>5. SessionIsWritten(row, n, "session.closed", NoMutation)
  BY <1>1, <1>2, <1>4, UnchangedLogsAreAlike DEF SessionIsWritten
<1>. QED
  BY <1>1, <1>3, <1>5 DEF SessionWritten

\* mutateLog and the commit of a draft write one Log.
LEMMA LogWrites ==
    ASSUME TypeInv,
           \/ LogStep
           \/ \E u \in User, d \in Device, l \in Log, m \in MutationId : CommitDraft(u, d, l, m)
    PROVE  LogWritten
<1>1. ASSUME NEW path \in Path, NEW u \in User, NEW op \in LogOperation, NEW l \in Log,
             NEW base \in BaseVersion, NEW content \in LogValue, NEW m \in MutationId,
             MutateLog(path, u, op, l, base, content, m)
      PROVE  LogWritten
  <2>. DEFINE row == WrittenLog(op, l, content)
  <2>1. op = "create" <=> l \notin DOMAIN logs
    BY <1>1 DEF MutateLog, Applies
  <2>2. row \in LogRow
    BY <1>1, WrittenLogType DEF MutateLog
  <2>3. row.version = IF l \in DOMAIN logs THEN logs[l].version + 1 ELSE 1
    <3>1. ASSUME l \in DOMAIN logs PROVE logs[l] \in LogRow
      BY <3>1, RowOfTable DEF TypeInv, TypeOK, StoreTypeOK
    <3>. QED
      BY <2>1, <3>1 DEF WrittenLog, LogOperation, LogRow, NewLog
  <2>4. LogEventType[op] \in EventType
    BY DEF LogEventType, LogOperation, EventType
  <2>5. LogIsWritten(l, row, LogEventType[op], m)
    BY <1>1, <2>3 DEF MutateLog, LogIsWritten, MayWriteLog, LogWritable
  <2>. HIDE DEF row
  <2>. QED
    BY <2>2, <2>4, <2>5 DEF LogWritten
<1>2. ASSUME NEW u \in User, NEW d \in Device, NEW l \in Log, NEW m \in MutationId,
             CommitDraft(u, d, l, m)
      PROVE  LogWritten
  <2>. DEFINE row == NewLog(draft.fields)
  <2>1. row \in LogRow /\ row.version = 1
    BY NewLogType DEF TypeInv, TypeOK, DraftTypeOK, DraftRow
  <2>2. LogIsWritten(l, row, "log.created", m)
    BY <1>2, <2>1 DEF CommitDraft, LogIsWritten, MayWriteDraft, RequireMembership
  <2>. HIDE DEF row
  <2>. QED
    BY <2>1, <2>2 DEF LogWritten, EventType
<1>. QED
  BY <1>1, <1>2 DEF LogStep

\* Every step, by what it writes.
LEMMA StepWrites ==
    ASSUME TypeInv, [Next]_vars
    PROVE  \/ LogWritten \/ SessionWritten \/ SessionDeleted \/ SessionCreated
           \/ SessionFilled \/ CorrectionStep \/ RetentionStep \/ NothingWritten
<1>1. CASE LogStep
  BY <1>1, LogWrites
<1>2. CASE RefusalStep
  BY <1>2, UnchangedLogsAreAlike
     DEF RefusalStep, StoreConflict, StoreRejection, NothingWritten
<1>3. CASE MemberStep
  <2>1. ASSUME NEW u \in User, NEW target \in User, NEW m, TransferOwnership(u, target, m)
        PROVE  NothingWritten
    BY <2>1, UnchangedLogsAreAlike DEF TransferOwnership, RequireMembership, Keeps, NothingWritten
  <2>2. ASSUME NEW u, NEW m,
               \/ LeaveSession(u, m) \/ NothingToChange(u, m)
               \/ \E x, role : ChangeRole(u, x, role, m)
               \/ \E x : RemoveMember(u, x, m)
               \/ \E i, role, max : CreateInvite(u, i, role, max, m)
               \/ \E i : RevokeInvite(u, i, m)
        PROVE  NothingWritten
    BY <2>2, UnchangedLogsAreAlike DEF LeaveSession, NothingToChange, ChangeRole, RemoveMember, CreateInvite,
       RevokeInvite, Keeps, NothingWritten
  <2>3. ASSUME NEW u, NEW i, InviteExpires(i) \/ RedeemInvite(u, i)
        PROVE  NothingWritten
    BY <2>3, UnchangedLogsAreAlike DEF InviteExpires, RedeemInvite, Keeps, NothingWritten
  <2>. QED
    BY <1>3, <2>1, <2>2, <2>3 DEF MemberStep
<1>4. CASE AdminMemberStep
  <2>1. ASSUME NEW a, NEW u \in User, NEW m, AdminTransfer(a, u, m)
        PROVE  NothingWritten
    BY <2>1, UnchangedLogsAreAlike DEF AdminTransfer, AdminCommand, Keeps, NothingWritten
  <2>2. ASSUME NEW a, NEW u, NEW m,
               \/ \E role : AdminAddMember(a, u, role, m) \/ AdminChangeRole(a, u, role, m)
               \/ AdminRemoveMember(a, u, m)
               \/ \E i : AdminRevokeInvite(a, i, m)
        PROVE  NothingWritten
    BY <2>2, UnchangedLogsAreAlike DEF AdminAddMember, AdminChangeRole, AdminRemoveMember, AdminRevokeInvite,
       Keeps, NothingWritten
  <2>. QED
    BY <1>4, <2>1, <2>2 DEF AdminMemberStep
<1>5. ASSUME UNCHANGED <<session, logs, events>>
      PROVE  NothingWritten
  BY <1>5, UnchangedLogsAreAlike DEF NothingWritten
<1>6. CASE DraftStep
  <2>1. ASSUME NEW u, NEW d, NEW m, SelectPreview(u, d, m) \/ DiscardDraft(u, d, m)
        PROVE  NothingWritten
    BY <1>5, <2>1 DEF SelectPreview, DiscardDraft
  <2>2. ASSUME NEW u,
               \/ ReadDraft(u) \/ RefusedDraftRequest(u)
               \/ \E d, f : AcquireLock(u, d, f) \/ ReleaseLock(u, d, f)
               \/ \E d, candidate : PublishPreview(u, d, candidate)
               \/ \E d : ClearPreview(u, d)
               \/ \E d, seq, updates, consume : PatchDraft(u, d, seq, updates, consume)
        PROVE  NothingWritten
    BY <1>5, <2>2 DEF ReadDraft, RefusedDraftRequest, AcquireLock, ReleaseLock,
       PublishPreview, ClearPreview, PatchDraft, storeVars
  <2>. QED
    BY <1>6, <2>1, <2>2, LogWrites DEF DraftStep
<1>7. CASE TimerStep
  BY <1>5, <1>7, SweepWrites DEF TimerStep, LeaseExpires, PreviewExpires, storeVars
<1>8. CASE StreamStep \/ Restart \/ UNCHANGED vars
  BY <1>5, <1>8 DEF StreamStep, IssueTicket, TicketExpires, Connect, Receive,
     Disconnect, Restart, vars, storeVars
<1>. QED
  BY <1>1, <1>2, <1>3, <1>4, <1>5, <1>6, <1>7, <1>8, LifecycleWrites
     DEF Next, OnlyAnswered, NothingWritten

-----------------------------------------------------------------------------
(* One event per change *)

\* What OneEventPerChange says of a step: a row that differs is announced.
AnnouncesChanges ==
    session.status \in {"active", "closed"} =>
        /\ Changed = Announced
        /\ \A i, j \in (session.seq + 1)..session'.seq :
              events'[i].entity = events'[j].entity => i = j
        /\ session'.promoted = session.promoted =>
              \A l \in DOMAIN logs \ Changed : logs'[l] = logs[l]

\* The write of one row and of the event about it.
LEMMA WritesAnnounce ==
    ASSUME TypeInv, LogWritten \/ SessionWritten \/ SessionDeleted
    PROVE  AnnouncesChanges
<1>1. ASSUME NEW x, session'.seq = session.seq + 1, Changed = {x},
             events'[session'.seq].entity = x,
             session'.promoted = session.promoted =>
                \A l \in DOMAIN logs \ {x} : logs'[l] = logs[l]
      PROVE  AnnouncesChanges
  <2>1. (session.seq + 1)..session'.seq = {session'.seq}
    BY <1>1, SessionColumns
  <2>2. Announced = {x}
    BY <1>1, <2>1 DEF Announced
  <2>. QED
    BY <1>1, <2>1, <2>2 DEF AnnouncesChanges
<1>2. ASSUME NEW l \in Log, NEW row \in LogRow, NEW type \in EventType,
             NEW m \in MutationId, LogIsWritten(l, row, type, m)
      PROVE  AnnouncesChanges
  <2>1. /\ session'.seq = session.seq + 1
        /\ SessionBodyOf(session', 0) = SessionBodyOf(session, 0)
        /\ events'[session'.seq].entity = l
    BY <1>2, SessionColumns
       DEF LogIsWritten, AppendEvent, EventOf, Put, SessionBodyOf, SessionRow
  <2>2. l \in DOMAIN logs => ~SameLog(row, logs[l])
    <3>1. ASSUME l \in DOMAIN logs PROVE logs[l].version \in Nat
      <4>1. logs[l] \in LogRow
        BY <3>1, RowOfTable DEF TypeInv, TypeOK, StoreTypeOK
      <4>. QED
        BY <4>1 DEF LogRow
    <3>. QED
      BY <1>2, <3>1 DEF LogIsWritten, SameLog
  <2>3. /\ l \in DOMAIN logs' /\ logs'[l] = row
        /\ \A x \in DOMAIN logs' \ {l} : x \in DOMAIN logs /\ logs'[x] = logs[x]
        /\ \A x \in DOMAIN logs \ {l} : logs'[x] = logs[x]
    BY <1>2 DEF LogIsWritten, Put
  <2>4. Changed = {l}
    <3>1. \A x \in DOMAIN logs' :
             (x \notin DOMAIN logs \/ ~SameLog(logs'[x], logs[x])) <=> x = l
      BY <2>2, <2>3 DEF SameLog
    <3>. QED
      BY <2>1, <2>3, <3>1 DEF Changed
  <2>. QED
    BY <1>1, <2>1, <2>3, <2>4
<1>3. ASSUME NEW row \in SessionRow, NEW n, NEW type, NEW m,
             row.version = session.version + 1, row.seq = session.seq,
             WriteSession(type, row, n, m), LogsAreAlike
      PROVE  AnnouncesChanges
  <2>1. /\ session'.seq = session.seq + 1 /\ session'.version = session.version + 1
        /\ events'[session'.seq].entity = SessionId
    BY <1>3, SessionColumns DEF WriteSession, AppendEvent, EventOf, Put, SessionRow
  <2>2. SessionBodyOf(session', 0) # SessionBodyOf(session, 0)
    BY <2>1, SessionColumns DEF SessionBodyOf
  <2>3. Changed = {SessionId}
    BY <1>3, <2>2 DEF Changed, LogsAreAlike
  <2>. QED
    BY <1>1, <1>3, <2>1, <2>3 DEF LogsAreAlike
<1>4. CASE LogWritten
  BY <1>2, <1>4 DEF LogWritten
<1>5. CASE SessionWritten
  BY <1>3, <1>5 DEF SessionWritten, SessionIsWritten
<1>6. CASE SessionDeleted
  <2>. DEFINE row == [session EXCEPT !.deleted = TRUE, !.version = @ + 1]
  <2>1. row \in SessionRow /\ row.seq = session.seq
    BY NextSessionRow
  <2>2. row.version = session.version + 1
    BY SessionColumns DEF SessionRow
  <2>3. LogsAreAlike /\ \E m : WriteSession("session.deleted", row, 0, m)
    BY <1>6, UnchangedLogsAreAlike DEF SessionDeleted, DeleteSession
  <2>. HIDE DEF row
  <2>. QED
    BY <1>3, <2>1, <2>2, <2>3
<1>. QED
  BY <1>4, <1>5, <1>6

\* Corrections: as many events as Logs, each about a Log of its own.
LEMMA CorrectionsAnnounce ==
    ASSUME TypeInv, CorrectionStep
    PROVE  AnnouncesChanges
<1>1. PICK u \in User, corrections \in Selections, m \in MutationId :
          ApplyCorrections(u, corrections, m)
  BY DEF CorrectionStep
<1>. DEFINE n == Len(corrections)
            corrected == {corrections[i].log : i \in 1..n}
<1>2. CorrectionsAreMade(corrections, n, m)
  BY <1>1, CorrectionsApplied
<1>. HIDE DEF n
<1>3. session \in SessionRow /\ session.seq \in Nat
  BY SessionColumns
<1>4. SessionBodyOf(session', 0) = SessionBodyOf(session, 0)
  BY <1>2, <1>3 DEF CorrectionsAreMade, SessionBodyOf, SessionRow
<1>5. \A i \in (session.seq + 1)..session'.seq :
         i - session.seq \in 1..n /\ events'[i].entity = corrections[i - session.seq].log
  <2>1. ASSUME NEW i \in (session.seq + 1)..session'.seq
        PROVE  /\ i - session.seq \in 1..n
               /\ events'[i].entity = corrections[i - session.seq].log
    <3>1. i - session.seq \in 1..n /\ session.seq + (i - session.seq) = i
      BY <1>2, <1>3 DEF CorrectionsAreMade
    <3>. QED
      BY <1>2, <3>1 DEF CorrectionsAreMade
  <2>. QED
    BY <2>1
<1>6. \A i \in 1..n : /\ session.seq + i \in (session.seq + 1)..session'.seq
                     /\ events'[session.seq + i].entity = corrections[i].log
  BY <1>2, <1>3 DEF CorrectionsAreMade
<1>7. Announced = corrected
  BY <1>5, <1>6 DEF Announced
<1>8. \A l \in corrected : l \in DOMAIN logs /\ ~SameLog(logs'[l], logs[l])
  <2>1. ASSUME NEW i \in 1..n
        PROVE  LET l == corrections[i].log
               IN  l \in DOMAIN logs /\ ~SameLog(logs'[l], logs[l])
    <3>. DEFINE l == corrections[i].log
    <3>1. l \in DOMAIN logs /\ logs'[l].version = logs[l].version + 1
      BY <1>2 DEF CorrectionsAreMade
    <3>2. logs[l].version \in Nat
      <4>1. logs[l] \in LogRow
        BY <3>1, RowOfTable DEF TypeInv, TypeOK, StoreTypeOK
      <4>. QED
        BY <4>1 DEF LogRow
    <3>. QED
      BY <3>1, <3>2 DEF SameLog
  <2>. QED
    BY <2>1
<1>9. DOMAIN logs' = DOMAIN logs /\ \A l \in DOMAIN logs \ corrected : logs'[l] = logs[l]
  BY <1>2 DEF CorrectionsAreMade
<1>10. Changed = corrected
  <2>1. \A l \in DOMAIN logs' : (l \notin DOMAIN logs \/ ~SameLog(logs'[l], logs[l]))
                               <=> l \in corrected
    BY <1>8, <1>9 DEF SameLog
  <2>2. corrected \subseteq DOMAIN logs'
    BY <1>8, <1>9
  <2>. HIDE DEF corrected
  <2>. QED
    BY <1>4, <2>1, <2>2 DEF Changed
<1>11. \A i, j \in (session.seq + 1)..session'.seq :
          events'[i].entity = events'[j].entity => i = j
  <2>1. ASSUME NEW i \in (session.seq + 1)..session'.seq,
               NEW j \in (session.seq + 1)..session'.seq,
               events'[i].entity = events'[j].entity
        PROVE  i = j
    <3>1. i - session.seq = j - session.seq
      BY <1>2, <1>5, <2>1 DEF CorrectionsAreMade
    <3>2. i \in Int /\ j \in Int
      BY <1>3, <2>1
    <3>. QED
      BY <1>3, <3>1, <3>2
  <2>. QED
    BY <2>1
<1>. HIDE DEF corrected
<1>. QED
  BY <1>7, <1>9, <1>10, <1>11 DEF AnnouncesChanges

\* Once a Session is active, every change of a Log or of its row is announced by
\* one event, about that row (appendSessionEvent in every handler), also when one
\* request changes several Logs.
THEOREM ChangesAreAnnounced == Spec => OneEventPerChange
<1>1. TypeInv /\ [Next]_vars => [AnnouncesChanges]_vars
  <2>. SUFFICES ASSUME TypeInv, Next PROVE AnnouncesChanges
    OBVIOUS
  <2>1. ASSUME session'.seq = session.seq, LogsAreAlike,
               SessionBodyOf(session', 0) = SessionBodyOf(session, 0)
        PROVE  AnnouncesChanges
    <3>1. Changed = {}
      BY <2>1 DEF Changed, LogsAreAlike
    <3>2. (session.seq + 1)..session'.seq = {}
      BY <2>1, SessionColumns
    <3>3. Announced = {}
      BY <3>2 DEF Announced
    <3>. QED
      BY <2>1, <3>1, <3>2, <3>3 DEF AnnouncesChanges, LogsAreAlike
  <2>2. CASE NothingWritten
    <3>1. /\ session'.seq = session.seq
          /\ SessionBodyOf(session', 0) = SessionBodyOf(session, 0)
      BY <2>2, SessionColumns DEF NothingWritten, SessionBodyOf, SessionRow
    <3>. QED
      BY <2>1, <2>2, <3>1 DEF NothingWritten
  <2>3. CASE RetentionStep
    <3>1. /\ session'.seq = session.seq /\ UNCHANGED logs
          /\ SessionBodyOf(session', 0) = SessionBodyOf(session, 0)
      BY <2>3, SessionColumns DEF RetentionStep, PruneEvents, SessionBodyOf, SessionRow
    <3>. QED
      BY <2>1, <3>1, UnchangedLogsAreAlike
  <2>4. CASE SessionCreated \/ SessionFilled
    BY <2>4 DEF SessionCreated, SessionFilled, CreateSession, BootstrapLogs,
       AnnouncesChanges
  <2>. QED
    BY <2>2, <2>3, <2>4, StepWrites, WritesAnnounce, CorrectionsAnnounce
<1>2. [][AnnouncesChanges]_vars => OneEventPerChange
  BY PTL DEF AnnouncesChanges, OneEventPerChange
<1>. QED
  BY <1>1, <1>2, TypeInvariant, PTL DEF Spec

-----------------------------------------------------------------------------
(* The tables follow the events *)

\* The row of the entity x is the one that the event body shows.
ShowsRow(x, body) ==
    IF x = SessionId THEN SameSession(session, body)
    ELSE x \in DOMAIN logs /\ SameLog(logs[x], body)

\* The same after the step.
NextShowsRow(x, body) ==
    IF x = SessionId THEN SameSession(session', body)
    ELSE x \in DOMAIN logs' /\ SameLog(logs'[x], body)

\* TablesFollowEvents needs of an event that it names the version of its body,
\* and of a Session that nobody published yet that it has no events.
TablesInv ==
    /\ TablesFollowEvents
    /\ \A i \in DOMAIN events : events[i].version = events[i].body.version
    /\ session.status = "absent" => session.seq = 0

\* The rows of entities without a new event stay as they are.
LEMMA PrunedTablesFollow ==
    ASSUME TypeInv, TablesInv, session'.seq = session.seq,
           session'.status = "absent" => session.status = "absent",
           \A x, body : ShowsRow(x, body) => NextShowsRow(x, body),
           \/ UNCHANGED events
           \/ \E target \in session.minSeq..session.seq :
                 events' = Without(events, (session.minSeq + 1)..target)
    PROVE  TablesInv'
<1>1. /\ session.seq \in Nat /\ session.minSeq \in Nat
      /\ DOMAIN events = (session.minSeq + 1)..session.seq
  BY SessionColumns DEF TypeInv, HistoryInv, EventLogContiguous
<1>2. PICK low \in session.minSeq..session.seq :
         /\ DOMAIN events' = (low + 1)..session.seq
         /\ \A i \in DOMAIN events' : i \in DOMAIN events /\ events'[i] = events[i]
  <2>1. CASE UNCHANGED events
    BY <1>1, <2>1 DEF TypeInv, HistoryInv
  <2>2. ASSUME NEW target \in session.minSeq..session.seq,
               events' = Without(events, (session.minSeq + 1)..target)
        PROVE  \E low \in session.minSeq..session.seq :
                 /\ DOMAIN events' = (low + 1)..session.seq
                 /\ \A i \in DOMAIN events' : i \in DOMAIN events /\ events'[i] = events[i]
    BY <1>1, <2>2 DEF Without, Restrict
  <2>. QED
    BY <2>1, <2>2
<1>3. ASSUME NEW i \in DOMAIN events', IsNewest(i)'
      PROVE  NextShowsRow(events'[i].entity, events'[i].body)
  <2>1. \A j \in DOMAIN events : j > i => j \in DOMAIN events'
    BY <1>1, <1>2
  <2>2. IsNewest(i)
    BY <1>2, <1>3, <2>1 DEF IsNewest
  <2>3. ShowsRow(events[i].entity, events[i].body)
    BY <1>2, <2>2 DEF TablesInv, TablesFollowEvents, ShowsRow
  <2>. QED
    BY <1>2, <2>3
<1>4. ASSUME NEW i \in DOMAIN events', NEW j \in DOMAIN events', i < j,
             events'[i].entity = events'[j].entity,
             \A k \in (i + 1)..(j - 1) : events'[k].entity # events'[i].entity
      PROVE  events'[j].version = events'[i].version + 1
  <2>1. \A k \in (i + 1)..(j - 1) : k \in DOMAIN events'
    BY <1>1, <1>2
  <2>2. \A k \in (i + 1)..(j - 1) : events[k].entity # events[i].entity
    BY <1>2, <1>4, <2>1
  <2>3. events[j].version = events[i].version + 1
    BY <1>2, <1>4, <2>2 DEF TablesInv, TablesFollowEvents
  <2>. QED
    BY <1>2, <2>3
<1>5. TablesFollowEvents'
  BY <1>3, <1>4 DEF TablesFollowEvents, NextShowsRow
<1>6. \A i \in DOMAIN events' : events'[i].version = events'[i].body.version
  BY <1>2 DEF TablesInv
<1>. QED
  BY <1>5, <1>6 DEF TablesInv

\* An event about x is appended: x has the row of its body, of the version after
\* the one that its newest event showed, and the other rows stay as they are.
LEMMA AppendedTablesFollow ==
    ASSUME TypeInv, TablesInv, NEW e, NEW x, e.entity = x,
           session'.status # "absent",
           events' = Put(events, session.seq + 1, e),
           e.version = e.body.version,
           NextShowsRow(x, e.body),
           \A body : ShowsRow(x, body) => e.version = body.version + 1,
           \A y, body : y # x /\ ShowsRow(y, body) => NextShowsRow(y, body)
    PROVE  TablesInv'
<1>. DEFINE N == session.seq + 1
<1>1. /\ session.seq \in Nat /\ session.minSeq \in Nat
      /\ DOMAIN events = (session.minSeq + 1)..session.seq
  BY SessionColumns DEF TypeInv, HistoryInv, EventLogContiguous
<1>2. /\ DOMAIN events' = DOMAIN events \cup {N}
      /\ events'[N] = e
      /\ \A i \in DOMAIN events : events'[i] = events[i] /\ i < N /\ i # N
      /\ N \in Nat
  BY <1>1 DEF Put
<1>. HIDE DEF N
<1>3. ASSUME NEW i \in DOMAIN events', IsNewest(i)'
      PROVE  NextShowsRow(events'[i].entity, events'[i].body)
  <2>1. CASE i = N
    BY <1>2, <2>1
  <2>2. CASE i \in DOMAIN events
    <3>1. events[i].entity # x
      BY <1>2, <1>3, <2>2 DEF IsNewest
    <3>2. IsNewest(i)
      BY <1>2, <1>3, <2>2 DEF IsNewest
    <3>3. ShowsRow(events[i].entity, events[i].body)
      BY <2>2, <3>2 DEF TablesInv, TablesFollowEvents, ShowsRow
    <3>. QED
      BY <1>2, <2>2, <3>1, <3>3
  <2>. QED
    BY <1>2, <2>1, <2>2
<1>4. ASSUME NEW i \in DOMAIN events', NEW j \in DOMAIN events', i < j,
             events'[i].entity = events'[j].entity,
             \A k \in (i + 1)..(j - 1) : events'[k].entity # events'[i].entity
      PROVE  events'[j].version = events'[i].version + 1
  <2>1. CASE j = N
    <3>1. i \in DOMAIN events /\ events'[i] = events[i] /\ events[i].entity = x
      BY <1>1, <1>2, <1>4, <2>1
    <3>2. \A k \in DOMAIN events : k > i => k \in (i + 1)..(j - 1)
      BY <1>1, <1>2, <2>1, <3>1
    <3>3. IsNewest(i)
      BY <1>2, <1>4, <3>1, <3>2 DEF IsNewest
    <3>4. ShowsRow(x, events[i].body)
      BY <3>1, <3>3 DEF TablesInv, TablesFollowEvents, ShowsRow
    <3>. QED
      BY <1>2, <2>1, <3>1, <3>4 DEF TablesInv
  <2>2. CASE j \in DOMAIN events
    <3>1. i \in DOMAIN events
      BY <1>1, <1>2, <1>4, <2>2
    <3>2. \A k \in (i + 1)..(j - 1) : k \in DOMAIN events
      BY <1>1, <2>2, <3>1
    <3>3. \A k \in (i + 1)..(j - 1) : events[k].entity # events[i].entity
      BY <1>2, <1>4, <3>1, <3>2
    <3>4. events[j].version = events[i].version + 1
      BY <1>2, <1>4, <2>2, <3>1, <3>3 DEF TablesInv, TablesFollowEvents
    <3>. QED
      BY <1>2, <2>2, <3>1, <3>4
  <2>. QED
    BY <1>2, <2>1, <2>2
<1>5. TablesFollowEvents'
  BY <1>3, <1>4 DEF TablesFollowEvents, NextShowsRow
<1>6. \A i \in DOMAIN events' : events'[i].version = events'[i].body.version
  BY <1>2 DEF TablesInv
<1>. QED
  BY <1>5, <1>6 DEF TablesInv

\* The handlers that write a Log.
LEMMA LogWrittenFollows ==
    ASSUME TypeInv, TablesInv, LogWritten
    PROVE  TablesInv'
<1>1. PICK l \in Log, row \in LogRow, type \in EventType, m \in MutationId :
          LogIsWritten(l, row, type, m)
  BY DEF LogWritten
<1>. DEFINE e == EventOf(type, l, row, m)
<1>2. /\ e.entity = l /\ e.body = row /\ e.version = row.version
      /\ events' = Put(events, session.seq + 1, e)
  BY <1>1 DEF EventOf, LogIsWritten, AppendEvent
<1>. HIDE DEF e
<1>3. /\ session'.status # "absent"
      /\ \A body : SameSession(session', body) <=> SameSession(session, body)
  BY <1>1, SessionColumns DEF LogIsWritten, AppendEvent, SessionRow, SameSession
<1>4. /\ DOMAIN logs' = DOMAIN logs \cup {l} /\ logs'[l] = row
      /\ \A y \in DOMAIN logs \ {l} : logs'[y] = logs[y]
  BY <1>1 DEF LogIsWritten, Put
<1>5. l # SessionId
  BY StoreAssumption
<1>6. NextShowsRow(l, e.body)
  BY <1>2, <1>4, <1>5 DEF NextShowsRow, SameLog
<1>7. \A body : ShowsRow(l, body) => e.version = body.version + 1
  BY <1>1, <1>2, <1>5 DEF ShowsRow, SameLog, LogIsWritten
<1>8. \A y, body : y # l /\ ShowsRow(y, body) => NextShowsRow(y, body)
  BY <1>3, <1>4 DEF ShowsRow, NextShowsRow
<1>. QED
  BY <1>2, <1>3, <1>6, <1>7, <1>8, AppendedTablesFollow

\* The handlers that write the Session row.
LEMMA SessionWrittenFollows ==
    ASSUME TypeInv, TablesInv, SessionWritten \/ SessionDeleted
    PROVE  TablesInv'
<1>1. ASSUME NEW row \in SessionRow, NEW n, NEW type, NEW m,
             row.version = session.version + 1, row.status # "absent",
             row.seq = session.seq, WriteSession(type, row, n, m), LogsAreAlike
      PROVE  TablesInv'
  <2>. DEFINE e == EventOf(type, SessionId, SessionBodyOf(row, n), m)
  <2>1. /\ e.entity = SessionId /\ e.version = row.version
        /\ e.body.version = row.version /\ SameSession(row, e.body)
        /\ events' = Put(events, session.seq + 1, e)
    BY <1>1 DEF EventOf, SessionBodyOf, WriteSession, AppendEvent, SameSession
  <2>2. session' = [row EXCEPT !.seq = row.seq + 1]
    BY <1>1 DEF WriteSession, AppendEvent
  <2>. HIDE DEF e
  <2>3. session'.status # "absent" /\ SameSession(session', e.body)
    BY <1>1, <2>1, <2>2 DEF SameSession, SessionRow
  <2>4. NextShowsRow(SessionId, e.body)
    BY <2>3 DEF NextShowsRow
  <2>5. \A body : ShowsRow(SessionId, body) => e.version = body.version + 1
    BY <1>1, <2>1 DEF ShowsRow, SameSession
  <2>6. \A y, body : y # SessionId /\ ShowsRow(y, body) => NextShowsRow(y, body)
    BY <1>1 DEF ShowsRow, NextShowsRow, LogsAreAlike, SameLog
  <2>. QED
    BY <2>1, <2>3, <2>4, <2>5, <2>6, AppendedTablesFollow
<1>2. CASE SessionWritten
  <2>1. PICK row \in SessionRow, n \in Nat, type \in EventType,
             m \in MutationId \cup {NoMutation} : SessionIsWritten(row, n, type, m)
    BY <1>2 DEF SessionWritten
  <2>2. row.status # "absent"
    BY <2>1 DEF SessionIsWritten
  <2>. QED
    BY <1>1, <2>1, <2>2 DEF SessionIsWritten
<1>3. CASE SessionDeleted
  <2>. DEFINE row == [session EXCEPT !.deleted = TRUE, !.version = @ + 1]
  <2>1. row \in SessionRow /\ row.seq = session.seq
    BY NextSessionRow
  <2>2. row.version = session.version + 1 /\ row.status = session.status
    BY SessionColumns DEF SessionRow
  <2>3. /\ LogsAreAlike /\ session.status # "absent"
        /\ \E m : WriteSession("session.deleted", row, 0, m)
    BY <1>3, UnchangedLogsAreAlike DEF SessionDeleted, DeleteSession, MayChangeSession
  <2>. HIDE DEF row
  <2>. QED
    BY <1>1, <2>1, <2>2, <2>3
<1>. QED
  BY <1>2, <1>3

\* An application of corrections announces the row of each Log it changes once.
LEMMA CorrectionsFollow ==
    ASSUME TypeInv, TablesInv, CorrectionStep
    PROVE  TablesInv'
<1>1. PICK u \in User, corrections \in Selections, m \in MutationId :
          ApplyCorrections(u, corrections, m)
  BY DEF CorrectionStep
<1>. DEFINE n == Len(corrections)
<1>0. CorrectionsAreMade(corrections, n, m)
  BY <1>1, CorrectionsApplied
<1>. HIDE DEF n
<1>2. /\ session \in SessionRow /\ session.seq \in Nat /\ session.minSeq \in Nat
      /\ DOMAIN events = (session.minSeq + 1)..session.seq
      /\ session.minSeq <= session.seq
  BY SessionColumns DEF TypeInv, HistoryInv, EventLogContiguous
<1>3. /\ n \in Nat \ {0} /\ DOMAIN events' = (session.minSeq + 1)..(session.seq + n)
      /\ \A i \in DOMAIN events : events'[i] = events[i]
  BY <1>0, <1>2 DEF CorrectionsAreMade
<1>4. /\ session'.status = session.status
      /\ \A body : SameSession(session', body) <=> SameSession(session, body)
  BY <1>0, <1>2 DEF CorrectionsAreMade, SessionRow, SameSession
<1>5. session.status # "absent"
  BY <1>1 DEF ApplyCorrections, MayCorrect
<1>6. ASSUME NEW i \in 1..n
      PROVE  LET l == corrections[i].log
                 e == events'[session.seq + i]
             IN  /\ l \in DOMAIN logs /\ l \in DOMAIN logs' /\ l # SessionId
                 /\ e.entity = l /\ e.body = logs'[l] /\ e.version = logs'[l].version
                 /\ logs'[l].version = logs[l].version + 1
                 /\ session.seq + i \in DOMAIN events'
  <2>1. corrections[i].log \in Log /\ corrections[i].log # SessionId
    BY <1>0, StoreAssumption DEF CorrectionsAreMade
  <2>2. session.seq + i \in DOMAIN events'
    BY <1>2, <1>3
  <2>. QED
    BY <1>0, <2>1, <2>2 DEF CorrectionsAreMade
<1>7. ASSUME NEW i \in DOMAIN events'
      PROVE  \/ i \in DOMAIN events /\ events'[i] = events[i] /\ i <= session.seq
             \/ \E c \in 1..n : i = session.seq + c
  <2>1. CASE i <= session.seq
    BY <1>2, <1>3, <2>1
  <2>2. CASE i > session.seq
    <3>1. i - session.seq \in 1..n /\ i = session.seq + (i - session.seq)
      BY <1>2, <1>3, <2>2
    <3>. QED
      BY <3>1
  <2>. QED
    BY <1>2, <1>3, <2>1, <2>2
<1>8. \A c, d \in 1..n : corrections[c].log = corrections[d].log => c = d
  BY <1>0 DEF CorrectionsAreMade
<1>9. /\ DOMAIN logs' = DOMAIN logs
      /\ \A l \in DOMAIN logs :
            (\A c \in 1..n : corrections[c].log # l) => logs'[l] = logs[l]
  BY <1>0 DEF CorrectionsAreMade
<1>10. ASSUME NEW i \in DOMAIN events', IsNewest(i)'
       PROVE  NextShowsRow(events'[i].entity, events'[i].body)
  <2>1. ASSUME NEW c \in 1..n, i = session.seq + c
        PROVE  NextShowsRow(events'[i].entity, events'[i].body)
    BY <1>6, <2>1 DEF NextShowsRow, SameLog
  <2>2. CASE i \in DOMAIN events /\ events'[i] = events[i] /\ i <= session.seq
    <3>1. IsNewest(i)
      <4>1. \A j \in DOMAIN events : j \in DOMAIN events'
        BY <1>2, <1>3
      <4>. QED
        BY <1>3, <1>10, <2>2, <4>1 DEF IsNewest
    <3>2. ShowsRow(events[i].entity, events[i].body)
      BY <2>2, <3>1 DEF TablesInv, TablesFollowEvents, ShowsRow
    <3>3. \A c \in 1..n : corrections[c].log # events[i].entity
      <4>1. ASSUME NEW c \in 1..n  PROVE corrections[c].log # events[i].entity
        <5>1. session.seq + c > i
          BY <1>2, <2>2
        <5>2. events'[session.seq + c].entity # events'[i].entity
          BY <1>6, <1>10, <5>1 DEF IsNewest
        <5>. QED
          BY <1>6, <2>2, <5>2
      <4>. QED
        BY <4>1
    <3>. QED
      BY <1>4, <1>9, <2>2, <3>2, <3>3 DEF ShowsRow, NextShowsRow
  <2>. QED
    BY <1>7, <2>1, <2>2
<1>11. ASSUME NEW i \in DOMAIN events', NEW j \in DOMAIN events', i < j,
              events'[i].entity = events'[j].entity,
              \A k \in (i + 1)..(j - 1) : events'[k].entity # events'[i].entity
       PROVE  events'[j].version = events'[i].version + 1
  <2>1. ASSUME NEW c \in 1..n, j = session.seq + c
        PROVE  events'[j].version = events'[i].version + 1
    <3>. DEFINE l == corrections[c].log
    <3>1. /\ l \in DOMAIN logs /\ l # SessionId /\ events'[j].entity = l
          /\ events'[j].version = logs[l].version + 1
      BY <1>6, <2>1
    <3>2. ~ \E d \in 1..n : i = session.seq + d
      <4>1. ASSUME NEW d \in 1..n, i = session.seq + d  PROVE FALSE
        <5>1. corrections[d].log = l
          BY <1>6, <1>11, <3>1, <4>1
        <5>2. d = c
          BY <1>8, <5>1
        <5>. QED
          BY <1>2, <1>11, <2>1, <4>1, <5>2
      <4>. QED
        BY <4>1
    <3>3. i \in DOMAIN events /\ events'[i] = events[i] /\ i <= session.seq
      BY <1>7, <3>2
    <3>4. events[i].entity = l
      BY <1>11, <3>1, <3>3
    <3>5. IsNewest(i)
      <4>1. ASSUME NEW k \in DOMAIN events, k > i
            PROVE  events[k].entity # events[i].entity
        <5>1. k \in (i + 1)..(j - 1)
          BY <1>2, <2>1, <3>3, <4>1
        <5>. QED
          BY <1>3, <1>11, <3>3, <5>1
      <4>. QED
        BY <4>1 DEF IsNewest
    <3>6. SameLog(logs[l], events[i].body)
      BY <3>1, <3>3, <3>4, <3>5 DEF TablesInv, TablesFollowEvents
    <3>7. events[i].version = logs[l].version
      BY <3>3, <3>6 DEF TablesInv, SameLog
    <3>. QED
      BY <3>1, <3>3, <3>7
  <2>2. CASE j \in DOMAIN events /\ events'[j] = events[j] /\ j <= session.seq
    <3>1. i \in DOMAIN events /\ events'[i] = events[i]
      BY <1>2, <1>3, <1>11, <2>2
    <3>2. ASSUME NEW k \in (i + 1)..(j - 1)
          PROVE  events[k].entity # events[i].entity
      <4>1. k \in DOMAIN events
        BY <1>2, <2>2, <3>1
      <4>. QED
        BY <1>3, <1>11, <3>1, <4>1
    <3>3. events[j].version = events[i].version + 1
      BY <1>11, <2>2, <3>1, <3>2 DEF TablesInv, TablesFollowEvents
    <3>. QED
      BY <2>2, <3>1, <3>3
  <2>. QED
    BY <1>7, <2>1, <2>2
<1>12. TablesFollowEvents'
  BY <1>10, <1>11 DEF TablesFollowEvents, NextShowsRow
<1>13. ASSUME NEW i \in DOMAIN events'
       PROVE  events'[i].version = events'[i].body.version
  <2>1. ASSUME NEW c \in 1..n, i = session.seq + c
        PROVE  events'[i].version = events'[i].body.version
    BY <1>6, <2>1
  <2>. QED
    BY <1>7, <2>1 DEF TablesInv
<1>. QED
  BY <1>4, <1>5, <1>12, <1>13 DEF TablesInv

\* Creating and filling a Session precede its first event about what they write.
LEMMA UnannouncedTablesFollow ==
    ASSUME TypeInv, TablesInv,
           SessionCreated \/ SessionFilled \/ RetentionStep \/ NothingWritten
    PROVE  TablesInv'
<1>1. CASE SessionCreated
  <2>1. DOMAIN events = {}
    <3>1. session.status = "absent"
      BY <1>1 DEF SessionCreated, CreateSession
    <3>2. session.seq = 0 /\ DOMAIN events = (session.minSeq + 1)..session.seq
      BY <3>1 DEF TablesInv, TypeInv, HistoryInv, EventLogContiguous
    <3>. QED
      BY <3>2, SessionColumns
  <2>2. UNCHANGED events /\ session'.status = "initializing"
    BY <1>1, SessionColumns DEF SessionCreated, CreateSession, SessionRow
  <2>. QED
    BY <2>1, <2>2 DEF TablesInv, TablesFollowEvents
<1>2. CASE SessionFilled
  <2>1. PICK u, m, batch : BootstrapLogs(u, batch, m)
    BY <1>2 DEF SessionFilled
  <2>2. /\ UNCHANGED <<session, events>> /\ DOMAIN logs \subseteq DOMAIN logs'
        /\ \A l \in DOMAIN logs : logs'[l] = logs[l]
    BY <2>1 DEF BootstrapLogs
  <2>3. \A x, body : ShowsRow(x, body) => NextShowsRow(x, body)
    BY <2>2 DEF ShowsRow, NextShowsRow
  <2>. QED
    BY <2>2, <2>3, PrunedTablesFollow
<1>3. CASE RetentionStep
  <2>1. PICK target \in session.minSeq..session.seq :
            /\ session' = [session EXCEPT !.minSeq = target]
            /\ events' = Without(events, (session.minSeq + 1)..target)
            /\ UNCHANGED logs
    BY <1>3 DEF RetentionStep, PruneEvents
  <2>2. /\ session'.seq = session.seq /\ session'.status = session.status
        /\ \A body : SameSession(session', body) <=> SameSession(session, body)
    BY <2>1, SessionColumns DEF SessionRow, SameSession
  <2>3. \A x, body : ShowsRow(x, body) => NextShowsRow(x, body)
    BY <2>1, <2>2 DEF ShowsRow, NextShowsRow
  <2>. QED
    BY <2>1, <2>2, <2>3, PrunedTablesFollow
<1>4. CASE NothingWritten
  <2>1. /\ session'.seq = session.seq /\ session'.status = session.status
        /\ \A body : SameSession(session', body) <=> SameSession(session, body)
    BY <1>4, SessionColumns DEF NothingWritten, SessionRow, SameSession
  <2>2. \A x, body : ShowsRow(x, body) => NextShowsRow(x, body)
    BY <1>4, <2>1 DEF ShowsRow, NextShowsRow, NothingWritten, LogsAreAlike, SameLog
  <2>3. UNCHANGED events
    BY <1>4 DEF NothingWritten
  <2>. QED
    BY <2>1, <2>2, <2>3, PrunedTablesFollow
<1>. QED
  BY <1>1, <1>2, <1>3, <1>4

\* The newest event of a Log or of the Session shows its row, and the events of
\* one row carry consecutive versions, whatever handlers wrote them and whatever
\* retention pruned.
THEOREM EventsTellTheTables == Spec => []TablesFollowEvents
<1>1. Init => TablesInv
  BY DEF Init, StoreInit, NoRows, TablesInv, TablesFollowEvents
<1>2. TypeInv /\ TablesInv /\ [Next]_vars => TablesInv'
  BY StepWrites, LogWrittenFollows, SessionWrittenFollows, CorrectionsFollow,
     UnannouncedTablesFollow
<1>3. TablesInv => TablesFollowEvents
  BY DEF TablesInv
<1>. QED
  BY <1>1, <1>2, <1>3, TypeInvariant, PTL DEF Spec

-----------------------------------------------------------------------------
(* Invites *)

\* An account is added to the redeemers of an invite when its use is counted;
\* that the redeemers are finitely many is what lets them be counted.
InvitesInv ==
    \A i \in DOMAIN invites :
        /\ IsFiniteSet(invites[i].redeemers)
        /\ invites[i].used = Cardinality(invites[i].redeemers)
        /\ invites[i].used <= invites[i].max

\* Invites are only closed.
InvitesClosed ==
    /\ DOMAIN invites' = DOMAIN invites
    /\ \A i \in DOMAIN invites :
          /\ invites'[i].redeemers = invites[i].redeemers
          /\ invites'[i].used = invites[i].used /\ invites'[i].max = invites[i].max
          /\ invites'[i].open => invites[i].open

\* Redeeming an invite and creating one are what else happens to invites.
LEMMA StepInvites ==
    ASSUME TypeInv, [Next]_vars
    PROVE  \/ UNCHANGED invites
           \/ InvitesClosed
           \/ \E u \in User, i \in Invite : RedeemInvite(u, i)
           \/ \E u \in User, i \in Invite, role \in MemberRole, max \in MaxUses,
                 m \in MutationId : CreateInvite(u, i, role, max, m)
<1>1. ASSUME NEW i \in DOMAIN invites
      PROVE  invites[i] \in InviteRow
  BY <1>1, RowOfTable DEF TypeInv, TypeOK, StoreTypeOK
<1>2. ASSUME NEW i, invites' = [invites EXCEPT ![i].open = FALSE]
      PROVE  InvitesClosed
  BY <1>1, <1>2 DEF InvitesClosed, InviteRow
<1>3. CASE SessionDeleted
  <2>1. invites' = [i \in DOMAIN invites |-> [invites[i] EXCEPT !.open = FALSE]]
    BY <1>3 DEF SessionDeleted, DeleteSession
  <2>. QED
    BY <1>1, <2>1 DEF InvitesClosed, InviteRow
<1>4. CASE LogWritten \/ SessionWritten
  BY <1>4 DEF LogWritten, LogIsWritten, SessionWritten, SessionIsWritten
<1>5. CASE SessionCreated \/ SessionFilled \/ OnlyAnswered
  BY <1>5 DEF SessionCreated, CreateSession, SessionFilled, BootstrapLogs, OnlyAnswered
<1>6. CASE LifecycleStep
  BY <1>3, <1>4, <1>5, <1>6, LifecycleWrites
<1>7. CASE LogStep
  BY <1>4, <1>7, LogWrites
<1>8. CASE RefusalStep \/ RetentionStep \/ CorrectionStep
  BY <1>8 DEF RefusalStep, StoreConflict, StoreRejection, RetentionStep, PruneEvents,
     CorrectionStep, ApplyCorrections
<1>9. CASE MemberStep
  <2>1. ASSUME NEW u, NEW m,
               \/ LeaveSession(u, m) \/ NothingToChange(u, m)
               \/ \E x, role : ChangeRole(u, x, role, m)
               \/ \E x : RemoveMember(u, x, m) \/ TransferOwnership(u, x, m)
        PROVE  UNCHANGED invites
    BY <2>1 DEF LeaveSession, NothingToChange, ChangeRole, RemoveMember, TransferOwnership
  <2>2. ASSUME NEW i, (\E u, m : RevokeInvite(u, i, m)) \/ InviteExpires(i)
        PROVE  InvitesClosed
    BY <1>2, <2>2 DEF RevokeInvite, InviteExpires
  <2>. QED
    BY <1>9, <2>1, <2>2 DEF MemberStep
<1>10. CASE AdminMemberStep
  <2>1. ASSUME NEW a, NEW u, NEW m,
               \/ \E role : AdminAddMember(a, u, role, m) \/ AdminChangeRole(a, u, role, m)
               \/ AdminRemoveMember(a, u, m) \/ AdminTransfer(a, u, m)
        PROVE  UNCHANGED invites
    BY <2>1 DEF AdminAddMember, AdminChangeRole, AdminRemoveMember, AdminTransfer
  <2>2. ASSUME NEW a, NEW i, NEW m, AdminRevokeInvite(a, i, m)
        PROVE  InvitesClosed
    BY <1>2, <2>2 DEF AdminRevokeInvite
  <2>. QED
    BY <1>10, <2>1, <2>2 DEF AdminMemberStep
<1>11. CASE DraftStep
  <2>1. ASSUME NEW u, NEW d, NEW m, SelectPreview(u, d, m) \/ DiscardDraft(u, d, m)
        PROVE  UNCHANGED invites
    BY <2>1 DEF SelectPreview, DiscardDraft
  <2>2. ASSUME NEW u,
               \/ ReadDraft(u) \/ RefusedDraftRequest(u)
               \/ \E d, f : AcquireLock(u, d, f) \/ ReleaseLock(u, d, f)
               \/ \E d, candidate : PublishPreview(u, d, candidate)
               \/ \E d : ClearPreview(u, d)
               \/ \E d, seq, updates, consume : PatchDraft(u, d, seq, updates, consume)
        PROVE  UNCHANGED invites
    BY <2>2 DEF ReadDraft, RefusedDraftRequest, AcquireLock, ReleaseLock,
       PublishPreview, ClearPreview, PatchDraft, storeVars
  <2>. QED
    BY <1>4, <1>11, <2>1, <2>2, LogWrites DEF DraftStep
<1>12. CASE TimerStep
  BY <1>4, <1>12, SweepWrites DEF TimerStep, LeaseExpires, PreviewExpires, storeVars
<1>13. CASE StreamStep \/ Restart \/ UNCHANGED vars
  BY <1>13 DEF StreamStep, IssueTicket, TicketExpires, Connect, Receive,
     Disconnect, Restart, vars, storeVars
<1>. QED
  BY <1>6, <1>7, <1>8, <1>9, <1>10, <1>11, <1>12, <1>13 DEF Next

\* A use is counted for an account that has not redeemed the invite yet, and
\* only below the maximum.
LEMMA RedemptionIsCounted ==
    ASSUME TypeInv, InvitesInv, NEW u \in User, NEW i \in Invite, RedeemInvite(u, i)
    PROVE  InvitesInv'
<1>1. i \in DOMAIN invites /\ invites[i].used < invites[i].max
      /\ u \notin invites[i].redeemers
  BY DEF RedeemInvite, Redeemable
<1>2. invites[i] \in InviteRow
  BY <1>1, RowOfTable DEF TypeInv, TypeOK, StoreTypeOK
<1>3. /\ DOMAIN invites' = DOMAIN invites
      /\ invites'[i].used = invites[i].used + 1 /\ invites'[i].max = invites[i].max
      /\ invites'[i].redeemers = invites[i].redeemers \cup {u}
      /\ \A x \in DOMAIN invites \ {i} : invites'[x] = invites[x]
  BY <1>1, <1>2 DEF RedeemInvite, InviteRow
<1>4. /\ IsFiniteSet(invites[i].redeemers)
      /\ invites[i].used = Cardinality(invites[i].redeemers)
  BY <1>1 DEF InvitesInv
<1>5. /\ IsFiniteSet(invites'[i].redeemers)
      /\ Cardinality(invites'[i].redeemers) = Cardinality(invites[i].redeemers) + 1
  <2>1. /\ IsFiniteSet(invites[i].redeemers \cup {u})
        /\ Cardinality(invites[i].redeemers \cup {u}) =
              IF u \in invites[i].redeemers THEN Cardinality(invites[i].redeemers)
              ELSE Cardinality(invites[i].redeemers) + 1
    BY <1>4, FS_AddElement
  <2>. QED
    BY <1>1, <1>3, <2>1
<1>6. invites'[i].used <= invites'[i].max
  BY <1>1, <1>2, <1>3 DEF InviteRow
<1>. QED
  BY <1>3, <1>4, <1>5, <1>6 DEF InvitesInv

\* used_count is the number of accounts that redeemed the invite, and never more
\* than max_uses, in whatever order and however often redemptions arrive.
THEOREM InvitesAreCounted == Spec => []InviteUses
<1>1. Init => InvitesInv
  BY DEF Init, StoreInit, NoRows, InvitesInv
<1>2. TypeInv /\ InvitesInv /\ [Next]_vars => InvitesInv'
  <2>. SUFFICES ASSUME TypeInv, InvitesInv, [Next]_vars PROVE InvitesInv'
    OBVIOUS
  <2>1. CASE UNCHANGED invites \/ InvitesClosed
    BY <2>1 DEF InvitesInv, InvitesClosed
  <2>2. ASSUME NEW u, NEW i, NEW role, NEW max \in MaxUses, NEW m,
               CreateInvite(u, i, role, max, m)
        PROVE  InvitesInv'
    <3>1. /\ DOMAIN invites' = DOMAIN invites \cup {i}
          /\ invites'[i].redeemers = {} /\ invites'[i].used = 0 /\ invites'[i].max = max
          /\ \A x \in DOMAIN invites \ {i} : invites'[x] = invites[x]
      BY <2>2 DEF CreateInvite, Put
    <3>2. IsFiniteSet({}) /\ Cardinality({}) = 0
      BY FS_EmptySet
    <3>3. 0 <= max
      BY RequestAssumption
    <3>. QED
      BY <3>1, <3>2, <3>3 DEF InvitesInv
  <2>. QED
    BY <2>1, <2>2, StepInvites, RedemptionIsCounted
<1>3. InvitesInv => InviteUses
  BY DEF InvitesInv, InviteUses
<1>. QED
  BY <1>1, <1>2, <1>3, TypeInvariant, PTL DEF Spec

-----------------------------------------------------------------------------
(* Coming back *)

\* What RejoinNeedsFreshInvite says of a step.
RejoinsAreGranted ==
    \A u \in DOMAIN members :
        members[u].removed /\ ~members'[u].removed =>
            \/ \E i \in DOMAIN invites :
                  /\ invites[i].open
                  /\ u \in invites'[i].redeemers \ invites[i].redeemers
            \/ \E m \in DOMAIN processed' \ DOMAIN processed :
                  processed'[m].kind = "admin"

\* The step alters the memberships of `users` only, who are members.
AltersMembers(users) ==
    /\ \A u \in users : IsMember(u)
    /\ DOMAIN members' = DOMAIN members
    /\ \A u \in DOMAIN members \ users : members'[u] = members[u]

\* Who is a member does not come back.
LEMMA MembersDoNotRejoin ==
    ASSUME NEW users, AltersMembers(users)
    PROVE  RejoinsAreGranted
BY DEF AltersMembers, RejoinsAreGranted, IsMember

\* The handlers of members and invites.
LEMMA MemberHandlersGrant ==
    ASSUME TypeInv, OwnerInv, MemberStep \/ AdminMemberStep
    PROVE  RejoinsAreGranted
<1>1. ASSUME UNCHANGED members
      PROVE  RejoinsAreGranted
  BY <1>1 DEF RejoinsAreGranted
<1>2. ASSUME NEW x, IsMember(x),
             members' = Removed(x) \/ \E role : members' = WithRole(x, role)
      PROVE  RejoinsAreGranted
  <2>1. AltersMembers({x})
    BY <1>2 DEF AltersMembers, Removed, WithRole
  <2>. QED
    BY <2>1, MembersDoNotRejoin
<1>3. ASSUME NEW old, NEW new, IsMember(old), IsMember(new),
             members' = Transferred(old, new)
      PROVE  RejoinsAreGranted
  <2>1. AltersMembers({old, new})
    BY <1>3 DEF AltersMembers, Transferred
  <2>. QED
    BY <2>1, MembersDoNotRejoin
<1>4. ASSUME NEW u \in User, NEW i \in Invite, RedeemInvite(u, i)
      PROVE  RejoinsAreGranted
  <2>1. /\ i \in DOMAIN invites /\ invites[i].open /\ u \notin invites[i].redeemers
        /\ \A x \in DOMAIN members \ {u} : members'[x] = members[x]
    BY <1>4 DEF RedeemInvite, Redeemable, Joined, Put
  <2>2. invites[i] \in InviteRow
    BY <2>1, RowOfTable DEF TypeInv, TypeOK, StoreTypeOK
  <2>3. u \in invites'[i].redeemers
    BY <1>4, <2>1, <2>2 DEF RedeemInvite, InviteRow
  <2>. QED
    BY <2>1, <2>3 DEF RejoinsAreGranted
<1>5. ASSUME NEW a, NEW u, NEW role, NEW m, AdminAddMember(a, u, role, m)
      PROVE  RejoinsAreGranted
  <2>1. /\ m \in DOMAIN processed' \ DOMAIN processed
        /\ processed'[m].kind = "admin"
    BY <1>5 DEF AdminAddMember, AdminCommand, Fresh, StoreResponse, Put
  <2>. QED
    BY <2>1 DEF RejoinsAreGranted
<1>6. CASE MemberStep
  <2>1. ASSUME NEW u, NEW m,
               \/ LeaveSession(u, m)
               \/ \E x \in User : \/ \E role : ChangeRole(u, x, role, m)
                                  \/ RemoveMember(u, x, m)
        PROVE  RejoinsAreGranted
    BY <1>2, <2>1 DEF LeaveSession, ChangeRole, RemoveMember, RequireMembership
  <2>2. ASSUME NEW u, NEW x, NEW m, TransferOwnership(u, x, m)
        PROVE  RejoinsAreGranted
    BY <1>3, <2>2 DEF TransferOwnership, RequireMembership
  <2>3. ASSUME NEW u, NEW i, NEW m,
               \/ NothingToChange(u, m) \/ RevokeInvite(u, i, m) \/ InviteExpires(i)
               \/ \E role, max : CreateInvite(u, i, role, max, m)
        PROVE  RejoinsAreGranted
    BY <1>1, <2>3 DEF NothingToChange, RevokeInvite, InviteExpires, CreateInvite
  <2>4. CASE \E i \in Invite : InviteExpires(i)
    BY <1>1, <2>4 DEF InviteExpires
  <2>5. CASE \E u \in User, m \in MutationId : NothingToChange(u, m)
    BY <1>1, <2>5 DEF NothingToChange
  <2>. QED
    BY <1>4, <1>6, <2>1, <2>2, <2>3, <2>4, <2>5 DEF MemberStep
<1>7. CASE AdminMemberStep
  <2>1. ASSUME NEW a, NEW u, NEW m,
               (\E role : AdminChangeRole(a, u, role, m)) \/ AdminRemoveMember(a, u, m)
        PROVE  RejoinsAreGranted
    BY <1>2, <2>1 DEF AdminChangeRole, AdminRemoveMember
  <2>2. ASSUME NEW a, NEW u, NEW m, AdminTransfer(a, u, m)
        PROVE  RejoinsAreGranted
    BY <1>3, <2>2 DEF AdminTransfer
  <2>3. ASSUME NEW a, NEW i, NEW m, AdminRevokeInvite(a, i, m)
        PROVE  RejoinsAreGranted
    BY <1>1, <2>3 DEF AdminRevokeInvite
  <2>. QED
    BY <1>5, <1>7, <2>1, <2>2, <2>3 DEF AdminMemberStep
<1>. QED
  BY <1>6, <1>7

\* Whoever left or was removed comes back by an invite it had not used before or
\* by an administrator's hand, and in no other way.
THEOREM NobodyRejoinsAlone == Spec => RejoinNeedsFreshInvite
<1>1. TypeInv /\ OwnerInv /\ [Next]_vars => [RejoinsAreGranted]_vars
  <2>. SUFFICES ASSUME TypeInv, OwnerInv, Next PROVE RejoinsAreGranted
    OBVIOUS
  <2>1. ASSUME UNCHANGED members PROVE RejoinsAreGranted
    BY <2>1 DEF RejoinsAreGranted
  <2>2. CASE SessionCreated
    BY <2>2 DEF SessionCreated, CreateSession, OwnerInv, NoRows, RejoinsAreGranted
  <2>3. CASE LogWritten \/ SessionWritten \/ SessionDeleted \/ SessionFilled
             \/ OnlyAnswered \/ RetentionStep \/ RefusalStep \/ CorrectionStep
    BY <2>1, <2>3 DEF LogWritten, LogIsWritten, SessionWritten, SessionIsWritten,
       SessionDeleted, DeleteSession, SessionFilled, BootstrapLogs, OnlyAnswered,
       RetentionStep, PruneEvents, RefusalStep, StoreConflict, StoreRejection,
       CorrectionStep, ApplyCorrections
  <2>4. CASE DraftStep
    <3>1. ASSUME NEW u, NEW d, NEW m, SelectPreview(u, d, m) \/ DiscardDraft(u, d, m)
          PROVE  RejoinsAreGranted
      BY <2>1, <3>1 DEF SelectPreview, DiscardDraft
    <3>2. ASSUME NEW u,
                 \/ ReadDraft(u) \/ RefusedDraftRequest(u)
                 \/ \E d, f : AcquireLock(u, d, f) \/ ReleaseLock(u, d, f)
                 \/ \E d, candidate : PublishPreview(u, d, candidate)
                 \/ \E d : ClearPreview(u, d)
                 \/ \E d, seq, updates, consume : PatchDraft(u, d, seq, updates, consume)
          PROVE  RejoinsAreGranted
      BY <2>1, <3>2 DEF ReadDraft, RefusedDraftRequest, AcquireLock, ReleaseLock,
         PublishPreview, ClearPreview, PatchDraft, storeVars
    <3>. QED
      BY <2>3, <2>4, <3>1, <3>2, LogWrites DEF DraftStep
  <2>5. CASE TimerStep
    BY <2>1, <2>3, <2>5, SweepWrites DEF TimerStep, LeaseExpires, PreviewExpires, storeVars
  <2>6. CASE StreamStep \/ Restart
    BY <2>1, <2>6 DEF StreamStep, IssueTicket, TicketExpires, Connect, Receive,
       Disconnect, Restart, storeVars
  <2>. QED
    BY <2>2, <2>3, <2>4, <2>5, <2>6, LifecycleWrites, LogWrites, MemberHandlersGrant
       DEF Next
<1>2. [][RejoinsAreGranted]_vars => RejoinNeedsFreshInvite
  BY PTL DEF RejoinsAreGranted, RejoinNeedsFreshInvite
<1>. QED
  BY <1>1, <1>2, TypeInvariant, OwnerInvariant, PTL DEF Spec
=============================================================================
