---------------------------- MODULE PublicShares ----------------------------
(***************************************************************************)
(* What the server does for the public shares of one Session: it issues    *)
(* and revokes them, exchanges a share for an access token, answers        *)
(* snapshots and one-time tickets, and writes to a viewer's socket.        *)
(*                                                                         *)
(* Handlers are synchronous.  The socket is that of one viewer, so what    *)
(* depends on other viewers (limits, a busy server) is a lost answer.  A   *)
(* token and the socket opened with it end at the same instant, which for  *)
(* both is at most the share's expiry.                                     *)
(***************************************************************************)
EXTENDS ShareAnalytics, Sequences

CONSTANTS
    Log,          \* syncIds
    Link,         \* the share that the viewer's URL names
    Ticket,       \* rows of public_ws_tickets at one time
    MaxBacklog,   \* MAX_PUBLIC_WS_BACKLOG_EVENTS
    MaxBuffered   \* MAX_WS_BUFFERED_BYTES, in messages

ASSUME PublicAssumption ==
    /\ Link \in Share /\ "none" \notin Log
    /\ MaxBacklog \in Nat /\ MaxBuffered \in Nat

VARIABLES
    rows,     \* live Logs: syncId -> number of the event that wrote it
    history,  \* session_events from the first on
    minSeq,   \* min_retained_seq: readers see the events after it
    token,    \* the viewer's access token: "none", "valid" or "expired"
    tickets,  \* public_ws_tickets: ticket -> its after_seq
    socket,   \* the viewer's socket
    shutAt    \* ghost: the head when the link's viewers were cut off, or -1

serverVars == <<rows, history, minSeq, shares, over>>
wireVars == <<token, tickets, socket, shutAt>>

head == Len(history)

\* What the server has written to the viewer and the viewer has not read.
NoSocket == [open |-> FALSE, cursor |-> 0, wire |-> << >>]

Hello(n) == [type |-> "hello", seq |-> n]
EventMessage(n) == [type |-> "event", seq |-> n]
Ready(n) == [type |-> "ready", seq |-> n]
Resync == [type |-> "resyncRequired", seq |-> 0]
Revoked(reason) == [type |-> reason, seq |-> 0]
Close(code) == [type |-> "close", seq |-> code]

\* send, for each of the messages: a slow consumer's socket is closed, and a
\* socket that is closing takes nothing any more.
Write(sock, messages) ==
    LET room == IF Len(sock.wire) > MaxBuffered THEN 0
                ELSE MaxBuffered + 1 - Len(sock.wire)
    IN  IF ~sock.open THEN sock
        ELSE IF Len(messages) <= room THEN [sock EXCEPT !.wire = @ \o messages]
        ELSE [sock EXCEPT !.open = FALSE,
                          !.wire = @ \o Append(SubSeq(messages, 1, room), Close(4009))]

\* WebSocket.close: what was written before is still delivered.
Shut(sock, code) ==
    IF ~sock.open THEN sock
    ELSE [sock EXCEPT !.open = FALSE, !.wire = Append(@, Close(code))]

\* revoke
Revoke(sock, reason) == Shut(Write(sock, <<Revoked(reason)>>), 4003)

\* deliver
Deliver(sock, n) ==
    IF ~sock.open \/ n <= sock.cursor THEN sock
    ELSE IF n # sock.cursor + 1 THEN Shut(Write(sock, <<Resync>>), 4009)
    ELSE [Write(sock, <<EventMessage(n)>>) EXCEPT !.cursor = n]

-----------------------------------------------------------------------------
(* The Session *)

\* projectPublicEvent: what a viewer learns of an event.
Projected(type, l) == [type |-> type, log |-> l]

\* appendSessionEvent and publish.
AppendAndPublish(entry) ==
    /\ history' = Append(history, entry)
    /\ socket' = Deliver(socket, head + 1)

\* A member creates, changes or restores a Log.
ChangeLog(l) ==
    /\ ~over
    /\ rows' = Put(rows, l, head + 1)
    /\ AppendAndPublish(Projected("changed", l))
    /\ UNCHANGED <<minSeq, shares, over, token, tickets, shutAt>>

DeleteLog(l) ==
    /\ ~over /\ l \in DOMAIN rows
    /\ rows' = Without(rows, {l})
    /\ AppendAndPublish(Projected("deleted", l))
    /\ UNCHANGED <<minSeq, shares, over, token, tickets, shutAt>>

\* A member renames, closes or reopens the Session.
ChangeSession ==
    /\ ~over
    /\ AppendAndPublish(Projected("session", "none"))
    /\ UNCHANGED <<rows, minSeq, shares, over, token, tickets, shutAt>>

\* The rows as the first n events left them.
RowsAt(n) ==
    LET last(l) == {i \in 1..n : history[i].log = l}
        present == {l \in Log : last(l) # {} /\ history[Max(last(l))].type = "changed"}
    IN  [l \in present |-> Max(last(l))]

\* Retention of events, one step of it.
PruneEvent ==
    /\ ~over /\ minSeq < head
    /\ minSeq' = minSeq + 1
    /\ UNCHANGED <<rows, history, shares, over, wireVars>>

Shown(s) == s = Link /\ shutAt = -1

\* The Session is deleted: all its shares are revoked and their tickets gone in
\* the same transaction, then the event is published and the sockets close.
DeleteSession ==
    /\ ~over
    /\ over' = TRUE
    /\ shares' = [s \in DOMAIN shares |-> [shares[s] EXCEPT !.revoked = TRUE]]
    /\ tickets' = NoRows
    /\ history' = Append(history, Projected("session.deleted", "none"))
    /\ socket' = Shut(Deliver(socket, head + 1), 1000)
    /\ shutAt' = IF Shown(Link) THEN head + 1 ELSE shutAt
    /\ UNCHANGED <<rows, minSeq, token>>

-----------------------------------------------------------------------------
(* api/public-shares-v1.ts *)

\* POST /:sessionId/public-shares
CreateShare(s) ==
    /\ ~over /\ s \notin DOMAIN shares
    /\ Cardinality({x \in DOMAIN shares : Active(x)}) < MaxActive
    /\ shares' = Put(shares, s, [expired |-> FALSE, revoked |-> FALSE])
    /\ UNCHANGED <<rows, history, minSeq, over, wireVars>>

\* Mutant: only the row is revoked.
RevokeRowOnly(s) ==
    /\ shares' = [shares EXCEPT ![s].revoked = TRUE]
    /\ IF Shown(s) THEN shutAt' = head ELSE UNCHANGED shutAt
    /\ UNCHANGED <<tickets, socket>>

\* The share is revoked and its tickets are deleted; then its sockets are told.
RevokeRow(s) ==
    /\ shares' = [shares EXCEPT ![s].revoked = TRUE]
    /\ IF s = Link
       THEN /\ tickets' = NoRows
            /\ socket' = Revoke(socket, "revoked")
            /\ shutAt' = IF Shown(s) THEN head ELSE shutAt
       ELSE UNCHANGED <<tickets, socket, shutAt>>

\* DELETE /:sessionId/public-shares/:publicShareId, by the owner or an administrator.
RevokeShare(s) ==
    /\ ~over /\ s \in DOMAIN shares /\ ~shares[s].revoked
    /\ RevokeRow(s)
    /\ UNCHANGED <<rows, history, minSeq, over, token>>

\* The clock passes expires_at.
ShareExpires(s) ==
    /\ s \in DOMAIN shares /\ ~shares[s].expired
    /\ shares' = [shares EXCEPT ![s].expired = TRUE]
    /\ token' = IF s = Link /\ token = "valid" THEN "expired" ELSE token
    /\ UNCHANGED <<rows, history, minSeq, over, tickets, socket, shutAt>>

\* Five minutes after the exchange.
TokenExpires ==
    /\ token = "valid" /\ token' = "expired"
    /\ UNCHANGED <<serverVars, tickets, socket, shutAt>>

\* POST /public-shares/:publicShareId/exchange; another page opened the link.
OpenElsewhere(s, id) ==
    /\ Active(s)
    /\ RecordOpen(s, id)

\* createPublicAccessMiddleware and requirePublicScope
Authorized == token = "valid" /\ Active(Link)

\* Answers 410 CURSOR_EXPIRED and 409 PUBLIC_SNAPSHOT_REQUIRED otherwise.
CursorServed(after) == after >= minSeq /\ head - after <= MaxBacklog

\* POST /public/sessions/:sessionId/ws-ticket; expired tickets are pruned first.
IssueTicket(t, after) ==
    /\ Authorized /\ CursorServed(after)
    /\ t \notin DOMAIN tickets
    /\ tickets' = Put(tickets, t, after)

\* 60 s without use.
TicketExpires(t) ==
    /\ t \in DOMAIN tickets
    /\ tickets' = Without(tickets, {t})
    /\ UNCHANGED <<serverVars, token, socket, shutAt>>

-----------------------------------------------------------------------------
(* ws/index.ts *)

\* publicTicketIsActive and the backlog limit of the upgrade.
Admissible(t) ==
    /\ t \in DOMAIN tickets /\ Authorized
    /\ head - tickets[t] <= MaxBacklog

\* Mutant: the first event is taken for known.
BacklogFromNext(after) == [i \in 1..(head - after) |-> EventMessage(after + i + 1)]

\* readEventsAfter
BacklogAfter(after) == [i \in 1..(head - after) |-> EventMessage(after + i)]

\* The upgrade consumes and deletes the ticket; in the same tick the socket
\* joins the hub and gets hello, the backlog and ready, or has to resynchronize.
Accept(t) ==
    /\ Admissible(t)
    /\ tickets' = Without(tickets, {t})
    /\ LET after == tickets[t]
           fresh == [open |-> TRUE, cursor |-> head, wire |-> <<Hello(head)>>]
       IN  socket' = IF after < minSeq
                     THEN Shut(Write(fresh, <<Resync>>), 4009)
                     ELSE Write(fresh, Append(BacklogAfter(after), Ready(head)))

\* Mutant: the heartbeat asks whether the share was revoked, not the clock.
LapsedByRevocation == socket.open /\ shares[Link].revoked

\* publicConnectionIsActive does not hold.
Lapsed == socket.open /\ ~Authorized

\* The socket's own timer, and the heartbeat every 20 s for all sockets.
CutOff ==
    /\ Lapsed
    /\ socket' = Revoke(socket, "expired")
    /\ shutAt' = IF Shown(Link) /\ ~Active(Link) THEN head ELSE shutAt
    /\ UNCHANGED <<serverVars, token, tickets>>

\* The process stops, for an update or by a crash: sockets die unannounced.
Stop ==
    /\ socket.open
    /\ socket' = [socket EXCEPT !.open = FALSE, !.wire = <<Close(1006)>>]
    /\ UNCHANGED <<serverVars, token, tickets, shutAt>>

\* It stops between the commit of a revocation and the hub's part in it.
StopAfterRevoking(s) ==
    /\ ~over /\ s \in DOMAIN shares /\ ~shares[s].revoked
    /\ shares' = [shares EXCEPT ![s].revoked = TRUE]
    /\ tickets' = IF s = Link THEN NoRows ELSE tickets
    /\ socket' = IF socket.open
                 THEN [socket EXCEPT !.open = FALSE, !.wire = <<Close(1006)>>]
                 ELSE socket
    /\ shutAt' = IF Shown(s) THEN head ELSE shutAt
    /\ UNCHANGED <<rows, history, minSeq, over, token>>

PublicInit ==
    /\ AnalyticsInit
    /\ rows = NoRows /\ history = << >> /\ minSeq = 0
    /\ token = "none" /\ tickets = NoRows /\ socket = NoSocket /\ shutAt = -1
=============================================================================
