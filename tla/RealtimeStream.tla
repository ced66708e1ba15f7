--------------------------- MODULE RealtimeStream ---------------------------
(***************************************************************************)
(* How a member's socket comes and goes: the one-time ticket, the upgrade  *)
(* that consumes it, the backlog that is sent before live events, and the  *)
(* end of the socket.  What is published while a socket is open is in      *)
(* RealtimeState.                                                          *)
(*                                                                         *)
(* The callback of handleUpgrade runs in the tick of the upgrade, so no    *)
(* event is published between the ticket, hub.add and the backlog.         *)
(***************************************************************************)
EXTENDS RealtimeState

CONSTANT MaxBacklog   \* MAX_WS_BACKLOG_EVENTS

ASSUME BacklogAssumption == MaxBacklog \in Nat

\* POST /ws-ticket
IssueTicket(u, t, after) ==
    /\ CanRead(u)
    /\ after \in session.minSeq..session.seq
    /\ t \notin DOMAIN tickets
    /\ tickets' = Put(tickets, t,
                      [user |-> u, role |-> members[u].role,
                       version |-> members[u].version, after |-> after,
                       consumed |-> FALSE])
    /\ UNCHANGED <<storeVars, conns>>

\* 60 s without use, or 24 h after it: the row is of no use and deleted.
TicketExpires(t) ==
    /\ t \in DOMAIN tickets
    /\ tickets' = Without(tickets, {t})
    /\ UNCHANGED <<storeVars, conns>>

\* Mutant: the role is compared and the version of the membership is not.
memberTicketFitsRole(t) ==
    /\ t \in DOMAIN tickets
    /\ ~tickets[t].consumed
    /\ CanRead(tickets[t].user)
    /\ members[tickets[t].user].role = tickets[t].role

\* What the upgrade asks of a ticket: it is unused and names the membership as it
\* is now, which may differ when the hub never came to withdraw the ticket.
memberTicketIsActive(t) ==
    /\ t \in DOMAIN tickets
    /\ ~tickets[t].consumed
    /\ CanRead(tickets[t].user)
    /\ members[tickets[t].user].role = tickets[t].role
    /\ members[tickets[t].user].version = tickets[t].version

\* Mutant: the rows come newest first.
BacklogUnordered(u, after) ==
    LET missing == session.seq - after
    IN  [user |-> u, cursor |-> after + missing, open |-> TRUE,
         wire |-> [i \in 1..missing |-> [seq |-> session.seq + 1 - i,
                                         event |-> events[session.seq + 1 - i]]]]

\* sendBacklog from cursor `after` to the head, as far as the buffer takes it.
Backlog(u, after) ==
    LET room == MaxBuffered + 1
        missing == session.seq - after
        sent == IF missing <= room THEN missing ELSE room
    IN  [user |-> u, cursor |-> after + sent, open |-> sent = missing,
         wire |-> [i \in 1..sent |-> [seq |-> after + i,
                                      event |-> events[after + i]]]]

\* The upgrade and the connection handler.  A cursor that retention overtook
\* costs the ticket and closes the socket with resyncRequired.
Connect(t, c) ==
    /\ memberTicketIsActive(t)
    /\ session.seq - tickets[t].after <= MaxBacklog
    /\ c \notin DOMAIN conns
    /\ tickets' = [tickets EXCEPT ![t].consumed = TRUE]
    /\ LET u == tickets[t].user
           after == tickets[t].after
       IN  conns' = Put(conns, c,
                        IF after < session.minSeq
                        THEN [user |-> u, cursor |-> after, open |-> FALSE,
                              wire |-> << >>]
                        ELSE Backlog(u, after))
    /\ UNCHANGED storeVars

\* The client reads one event.
Receive(c) ==
    /\ c \in DOMAIN conns
    /\ conns[c].wire # << >>
    /\ conns' = [conns EXCEPT ![c].wire = Tail(@)]
    /\ UNCHANGED <<storeVars, tickets>>

\* The socket's close event: the hub forgets it, what was in flight is lost.
Disconnect(c) ==
    /\ c \in DOMAIN conns
    /\ conns' = Without(conns, {c})
    /\ UNCHANGED <<storeVars, tickets>>

=============================================================================
