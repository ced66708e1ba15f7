---------------------------- MODULE RealtimeState ---------------------------
(***************************************************************************)
(* The member WebSocket side of a Session: the rows of ws_tickets and the  *)
(* connections registered in CollaborationRealtimeHub, with what has been  *)
(* written to each socket and not yet read by its client.                  *)
(*                                                                         *)
(* publish and the revocations run in the tick of the handler that commits *)
(* the change, so they are operators that handlers use, not actions.       *)
(***************************************************************************)
EXTENDS SessionStore

CONSTANTS
    Ticket,       \* one-time tickets; a value is reused when its row is gone
    Conn,         \* sockets
    MaxBuffered   \* MAX_WS_BUFFERED_BYTES, in events

ASSUME RealtimeAssumption == MaxBuffered \in Nat

VARIABLES
    tickets,  \* ws_tickets: ticket -> row
    conns     \* connections: socket -> what the server knows and has written

realtimeVars == <<tickets, conns>>

TicketRow == [user : User, role : Role, version : Nat, after : Nat,
              consumed : BOOLEAN]

\* open is readyState = OPEN; wire holds the events in flight to the client.
ConnRow == [user : User, cursor : Nat, open : BOOLEAN,
            wire : Seq([seq : Nat, event : Event])]

\* WebSocketRealtimeConnection.send of an event: a closed socket takes nothing,
\* a slow consumer is closed.
send(conn, seq, e) ==
    IF Len(conn.wire) > MaxBuffered THEN [conn EXCEPT !.open = FALSE]
    ELSE [conn EXCEPT !.cursor = seq,
                      !.wire = Append(conn.wire, [seq |-> seq, event |-> e])]

\* deliver: the next event is sent, an old one ignored, a gap closes the socket.
deliver(conn, seq, e) ==
    IF ~conn.open \/ seq <= conn.cursor THEN conn
    ELSE IF seq # conn.cursor + 1 THEN [conn EXCEPT !.open = FALSE]
    ELSE send(conn, seq, e)

\* Mutant: the event goes out under the event_seq before it, an old one.
publishUnderOldSeq(table, seq, e) ==
    [c \in DOMAIN table |-> deliver(table[c], seq - 1, e)]

\* CollaborationRealtimeHub.publish to every connection of the Session.
publish(table, seq, e) == [c \in DOMAIN table |-> deliver(table[c], seq, e)]

\* deliver of the events seq + 1, seq + 2, ... one after the other: the socket
\* takes what it has room for and is closed when that is not all of it.
deliverRun(conn, seq, run) ==
    LET last == seq + Len(run)
        missing == last - conn.cursor
        room == MaxBuffered + 1 - Len(conn.wire)
        sent == IF missing <= room THEN missing ELSE IF room > 0 THEN room ELSE 0
    IN  IF ~conn.open \/ last <= conn.cursor THEN conn
        ELSE IF conn.cursor < seq THEN [conn EXCEPT !.open = FALSE]
        ELSE [conn EXCEPT
               !.cursor = @ + sent,
               !.open = sent = missing,
               !.wire = @ \o [i \in 1..sent |->
                                [seq |-> conn.cursor + i,
                                 event |-> run[conn.cursor + i - seq]]]]

\* Mutant: only the first event of the transaction is published.
publishFirstOfRun(table, seq, run) ==
    [c \in DOMAIN table |-> deliver(table[c], seq + 1, run[1])]

\* publish of each of them.
publishRun(table, seq, run) ==
    [c \in DOMAIN table |-> deliverRun(table[c], seq, run)]

\* The connections after the sockets of the given users were closed.
Closed(table, users) ==
    [c \in DOMAIN table |->
        IF table[c].user \in users THEN [table[c] EXCEPT !.open = FALSE]
                                   ELSE table[c]]

\* DELETE FROM ws_tickets WHERE user_id IN users AND consumed_at IS NULL
DropTickets(users) ==
    Without(tickets, {t \in DOMAIN tickets :
                        tickets[t].user \in users /\ ~tickets[t].consumed})

\* Mutant: the sockets stay.
RevokeUsersKeepsSockets(users) ==
    /\ tickets' = DropTickets(users)
    /\ UNCHANGED conns

\* revoke and roleChanged: unused tickets go, sockets are told and closed.
RevokeUsers(users) ==
    /\ tickets' = DropTickets(users)
    /\ conns' = Closed(conns, users)

\* A handler that only publishes the event e.
PublishOnly(e) ==
    /\ conns' = publish(conns, session.seq + 1, e)
    /\ UNCHANGED tickets

-----------------------------------------------------------------------------
RealtimeTypeOK ==
    /\ IsTable(tickets, Ticket, TicketRow)
    /\ IsTable(conns, Conn, ConnRow)

RealtimeInit == tickets = NoRows /\ conns = NoRows
=============================================================================
