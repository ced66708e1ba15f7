----------------------------- MODULE LiveViewer -----------------------------
(***************************************************************************)
(* The page of a public viewer: usePublicLiveshare exchanges the link for  *)
(* an access token, loads a snapshot, asks for a ticket, follows the       *)
(* socket, and starts over at the right step when one of them ends.        *)
(*                                                                         *)
(* A request and the reading of its answer are one step: nobody else sees  *)
(* the page's state, so what happens between them might as well happen     *)
(* before or after.  A lost or refused answer (network, 429, 503) leads to *)
(* a wait and another round.                                               *)
(*                                                                         *)
(* Page and server read one clock, and page and server are of one version: *)
(* the page's own look at shareExpiresAt after an exchange, and its        *)
(* ProtocolError for answers it cannot parse, then find nothing.           *)
(***************************************************************************)
EXTENDS PublicShares

CONSTANTS
    ThisView,       \* the viewSessionId of the page
    SnapshotLimit   \* MAX_PUBLIC_SNAPSHOT_LOGS and _BYTES, in Logs

ASSUME ViewAssumption == ThisView \in View /\ SnapshotLimit \in Nat

VARIABLES
    page,   \* the state of the page, a record
    faults  \* ghost: answers lost, sockets broken and tokens worn out so far

\* The fields of page.  step: what run does next, or how it ended; stage: how
\* far the socket got; ticket: the one in hand; cursor and logs: as shown;
\* helloHead: the head that hello named; needSnapshot; capabilityChecked.
viewerVars == <<page, faults>>

Over == page.step \in {"ended", "unavailable"}

\* terminal, without clearRecords: the page stops for good with what it shows.
Stopped(reason) == [page EXCEPT !.step = reason]

Fault == faults' = faults + 1

-----------------------------------------------------------------------------
(* The rounds of run *)

\* getServerInfo, in the first round; the page has a link, so the share exists.
CheckServer ==
    /\ page.step = "info" /\ Link \in DOMAIN shares
    /\ page' = [page EXCEPT !.step = "access", !.capabilityChecked = TRUE]
    /\ UNCHANGED <<serverVars, wireVars, analyticsVars, faults>>

\* The server was started without the key of its shares, or with another one,
\* and does not list the feature; or it is none of ours and answers 404.
ServerUnsupported ==
    /\ page.step = "info" /\ Link \in DOMAIN shares
    /\ page' = Stopped("unsupported")
    /\ Fault
    /\ UNCHANGED <<serverVars, wireVars, analyticsVars>>

\* terminal('unavailable', true)
Unavailable == [page EXCEPT !.step = "unavailable", !.logs = NoRows]

\* There is no token, or it ends within five seconds: exchangePublicShare.
ExchangeLink ==
    /\ page.step = "access"
    /\ IF Active(Link)
       THEN /\ RecordOpen(Link, ThisView)
            /\ token' = "valid"
            /\ page' = [page EXCEPT !.step = "data"]
       ELSE /\ page' = Unavailable
            /\ UNCHANGED <<token, analyticsVars>>
    /\ UNCHANGED <<serverVars, tickets, socket, shutAt, faults>>

\* The answer is lost: the open was counted, the page has no new token.
ExchangeIsLost ==
    /\ page.step = "access" /\ Active(Link)
    /\ RecordOpen(Link, ThisView)
    /\ page' = [page EXCEPT !.step = "wait"]
    /\ Fault
    /\ UNCHANGED <<serverVars, wireVars>>

\* The token is good for more than five seconds, by the clock of the page.
KeepToken ==
    /\ page.step = "access" /\ token # "none"
    /\ page' = [page EXCEPT !.step = "data"]
    /\ UNCHANGED <<serverVars, wireVars, analyticsVars, faults>>

\* isAccessInvalid: the next round exchanges the link again.
DropToken ==
    /\ token' = "none"
    /\ page' = [page EXCEPT !.step = "access"]
    /\ UNCHANGED <<tickets, socket, shutAt>>

\* Mutant: the records of the old snapshot stay beside those of the new one.
SnapshotMerged ==
    [page EXCEPT !.step = "ticket", !.needSnapshot = FALSE, !.cursor = head,
        !.logs = [l \in DOMAIN rows \cup DOMAIN @ |-> IF l \in DOMAIN rows THEN rows[l] ELSE @[l]]]

\* 413 PUBLIC_SNAPSHOT_TOO_LARGE
SnapshotTooLarge == Cardinality(DOMAIN rows) > SnapshotLimit

\* GET /public/sessions/:sessionId/snapshot: head and live Logs of one transaction.
Snapshot ==
    [page EXCEPT !.step = "ticket", !.needSnapshot = FALSE, !.cursor = head,
                 !.logs = rows]

LoadSnapshot ==
    /\ page.step = "data"
    /\ IF ~page.needSnapshot
       THEN page' = [page EXCEPT !.step = "ticket"] /\ UNCHANGED wireVars
       ELSE IF Authorized
       THEN /\ page' = IF SnapshotTooLarge THEN Stopped("tooLarge") ELSE Snapshot
            /\ UNCHANGED wireVars
       ELSE DropToken
    /\ UNCHANGED <<serverVars, analyticsVars, faults>>

\* getPublicWsTicket: it may cost the token, the snapshot or a wait.
GetTicket ==
    /\ page.step = "ticket"
    /\ IF ~Authorized THEN DropToken
       ELSE /\ IF ~CursorServed(page.cursor)
               THEN /\ page' = [page EXCEPT !.step = "access", !.needSnapshot = TRUE]
                    /\ UNCHANGED tickets
               ELSE IF DOMAIN tickets = Ticket
               THEN page' = [page EXCEPT !.step = "wait"] /\ UNCHANGED tickets
               ELSE \E t \in Ticket :
                       /\ IssueTicket(t, page.cursor)
                       /\ page' = [page EXCEPT !.step = "connect", !.ticket = t]
            /\ UNCHANGED <<token, socket, shutAt>>
    /\ UNCHANGED <<serverVars, analyticsVars, faults>>

\* A request or its answer is lost; a ticket may have been issued all the same.
RequestIsLost ==
    /\ page.step \in {"info", "access", "data", "ticket"} /\ Link \in DOMAIN shares
    /\ page' = [page EXCEPT !.step = "wait"]
    /\ \/ UNCHANGED tickets
       \/ page.step = "ticket" /\ \E t \in Ticket : IssueTicket(t, page.cursor)
    /\ Fault
    /\ UNCHANGED <<serverVars, token, socket, shutAt, analyticsVars>>

\* waitBeforeReady: the timer, the browser coming online, or "retry now".
Retry ==
    /\ page.step = "wait"
    /\ page' = [page EXCEPT !.step = IF page.capabilityChecked THEN "access" ELSE "info"]
    /\ UNCHANGED <<serverVars, wireVars, analyticsVars, faults>>

-----------------------------------------------------------------------------
(* connectSocket *)

\* Mutant: a page that resynchronizes forgets what it showed.
ResyncedForgets == [page EXCEPT !.needSnapshot = TRUE, !.cursor = 0, !.logs = NoRows]

\* What the outcomes of a socket leave of the page.
Resynced == [page EXCEPT !.needSnapshot = TRUE]

\* retryOutcome: the snapshot is trusted again only after a ready.
Retried == IF page.stage = "live" THEN page ELSE Resynced

Round(p) == [p EXCEPT !.step = "wait", !.stage = "hello", !.ticket = "none"]

\* finish: the page closes the socket and starts another round.
Finish(p) ==
    /\ page' = Round(p)
    /\ socket' = NoSocket
    /\ UNCHANGED <<serverVars, token, tickets, shutAt, analyticsVars, faults>>

\* The WebSocket is opened with the ticket; a refusal closes it before hello.
OpenSocket ==
    /\ page.step = "connect"
    /\ IF Admissible(page.ticket)
       THEN /\ Accept(page.ticket)
            /\ page' = [page EXCEPT !.step = "socket", !.stage = "hello", !.ticket = "none"]
       ELSE /\ page' = Round(Resynced)
            /\ UNCHANGED <<tickets, socket>>
    /\ UNCHANGED <<serverVars, token, shutAt, analyticsVars, faults>>

\* The connection fails, or nothing comes for 15 or 30 seconds.
SocketFails ==
    /\ page.step \in {"connect", "socket"}
    /\ page' = Round(Retried)
    /\ socket' = NoSocket
    /\ tickets' = IF page.step = "connect" THEN Without(tickets, {page.ticket}) ELSE tickets
    /\ Fault
    /\ UNCHANGED <<serverVars, token, shutAt, analyticsVars>>

Arrives(type) ==
    /\ page.step = "socket" /\ socket.wire # << >>
    /\ socket.wire[1].type = type

\* The page goes on with the same socket.
GoOn(p) ==
    /\ page' = p
    /\ socket' = [socket EXCEPT !.wire = Tail(@)]
    /\ UNCHANGED <<serverVars, token, tickets, shutAt, analyticsVars, faults>>

ReceiveHello ==
    /\ Arrives("hello")
    /\ LET n == socket.wire[1].seq
       IN  IF page.stage # "hello" \/ n < page.cursor THEN Finish(Resynced)
           ELSE GoOn([page EXCEPT !.stage = "backlog", !.helloHead = n])

\* parsePublicEvent
Parsed(n) == history[n]

\* applyEvent: what the event numbered n makes of the records.
Applied(n) ==
    LET entry == Parsed(n)
    IN  [page EXCEPT !.cursor = n,
            !.logs = CASE entry.type = "changed" -> Put(@, entry.log, n)
                       [] entry.type = "deleted" -> Without(@, {entry.log})
                       [] OTHER -> @]

ReceiveEvent ==
    /\ Arrives("event")
    /\ LET n == socket.wire[1].seq
       IN  IF page.stage = "hello" THEN Finish(Resynced)
           ELSE IF n <= page.cursor THEN GoOn(page)
           ELSE IF n # page.cursor + 1 THEN Finish(Resynced)
           ELSE IF Parsed(n).type = "session.deleted"
           THEN /\ page' = [Applied(n) EXCEPT !.step = "ended", !.logs = NoRows]
                /\ socket' = NoSocket
                /\ UNCHANGED <<serverVars, token, tickets, shutAt, analyticsVars, faults>>
           ELSE GoOn(Applied(n))

ReceiveReady ==
    /\ Arrives("ready")
    /\ IF page.stage = "backlog" /\ socket.wire[1].seq = page.cursor
          /\ page.cursor = page.helloHead
       THEN GoOn([page EXCEPT !.stage = "live"])
       ELSE Finish(Resynced)

ReceiveResync == Arrives("resyncRequired") /\ Finish(Resynced)

\* accessRevoked with PUBLIC_ACCESS_EXPIRED, or its close frame: the link is
\* exchanged again.
ReceiveExpired ==
    /\ Arrives("expired")
    /\ page' = Round(page)
    /\ token' = "none"
    /\ socket' = NoSocket
    /\ UNCHANGED <<serverVars, tickets, shutAt, analyticsVars, faults>>

ReceiveRevoked ==
    /\ Arrives("revoked")
    /\ page' = Unavailable
    /\ socket' = NoSocket
    /\ UNCHANGED <<serverVars, token, tickets, shutAt, analyticsVars, faults>>

\* onclose without a message before it: 4009, or the network and the server's end.
ReceiveClose ==
    /\ Arrives("close")
    /\ Finish(IF socket.wire[1].seq = 4009 THEN Resynced ELSE Retried)

\* A ticket that no page holds any more, and the one in the page's hand.
OrphanExpires(t) == t # page.ticket /\ TicketExpires(t) /\ UNCHANGED <<analyticsVars, viewerVars>>

TicketWearsOut ==
    /\ page.ticket # "none" /\ TicketExpires(page.ticket)
    /\ Fault
    /\ UNCHANGED <<analyticsVars, page>>

TokenWearsOut ==
    /\ TokenExpires
    /\ Fault
    /\ UNCHANGED <<analyticsVars, page>>

ServerStops ==
    /\ Stop
    /\ Fault
    /\ UNCHANGED <<analyticsVars, page>>

\* A page that is about to load, or none.
PageInit ==
    /\ \E step \in {"info", "closed"} :
       page = [step |-> step, stage |-> "hello", ticket |-> "none",
               capabilityChecked |-> FALSE, needSnapshot |-> TRUE,
               cursor |-> 0, helloHead |-> 0, logs |-> NoRows]
    /\ faults = 0

\* What goes wrong from outside.
FaultStep ==
    \/ ServerUnsupported \/ ExchangeIsLost \/ RequestIsLost \/ SocketFails
    \/ TicketWearsOut \/ TokenWearsOut \/ ServerStops

PageStep ==
    \/ CheckServer \/ ExchangeLink \/ KeepToken \/ LoadSnapshot \/ GetTicket
    \/ Retry \/ OpenSocket \/ ReceiveHello \/ ReceiveEvent \/ ReceiveReady
    \/ ReceiveResync \/ ReceiveExpired \/ ReceiveRevoked \/ ReceiveClose
=============================================================================
