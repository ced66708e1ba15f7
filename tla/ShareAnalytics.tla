--------------------------- MODULE ShareAnalytics ---------------------------
(***************************************************************************)
(* The public shares of one Session and the count of how often each was    *)
(* opened: public_shares, public_share_view_sessions and                   *)
(* public_share_view_totals.                                               *)
(***************************************************************************)
EXTENDS Integers, FiniteSets, FiniteSetsExt, Tables

CONSTANTS
    Share,      \* public_shares.id
    View,       \* viewSessionIds: one for each page that is opened
    MaxActive,  \* MAX_ACTIVE_SHARES_PER_SESSION
    PerShare,   \* PUBLIC_SHARE_VIEW_SESSION_LIMITS.perShare
    Total,      \* PUBLIC_SHARE_VIEW_SESSION_LIMITS.total
    MaxListLimit  \* MAX_LIST_LIMIT

ASSUME AnalyticsAssumption ==
    /\ PerShare \in Nat \ {0} /\ Total \in Nat \ {0}
    /\ MaxListLimit \in Nat \ {0}

VARIABLES
    shares,      \* public_shares: share -> how it stands
    over,        \* sessions.deleted_at is set
    views,       \* public_share_view_sessions: pairs of a share and a view
    totals,      \* public_share_view_totals: share -> row
    everOpened   \* ghost: all pairs of a share and a view that exchanged

analyticsVars == <<views, totals, everOpened>>

\* activePublicShare
Active(s) ==
    /\ s \in DOMAIN shares
    /\ ~shares[s].expired /\ ~shares[s].revoked /\ ~over

-----------------------------------------------------------------------------
ViewsOf(s) == {v \in views : v.share = s}

\* Mutant: a view that is known counts again.
KnownAsNobody(s, id) == FALSE

KnownView(s, id) == [share |-> s, id |-> id] \in views

Saturated(s) == s \in DOMAIN totals /\ totals[s].saturated

\* The next view of s has no room for a row.
Full(s) == Cardinality(ViewsOf(s)) >= PerShare \/ Cardinality(views) >= Total

\* recordPublicShareOpen: the first open beyond the bound is counted and marks
\* the total as a lower bound; later unknown views are not counted.
RecordOpen(s, id) ==
    /\ everOpened' = everOpened \cup {[share |-> s, id |-> id]}
    /\ IF KnownView(s, id) \/ Saturated(s)
       THEN UNCHANGED <<views, totals>>
       ELSE /\ views' = IF Full(s) THEN views ELSE views \cup {[share |-> s, id |-> id]}
            /\ totals' = Put(totals, s,
                   [opens |-> 1 + (IF s \in DOMAIN totals THEN totals[s].opens ELSE 0),
                    saturated |-> Full(s)])

\* Mutant: a share that expires next week is as good as gone.
StaleForAnyReason(v) == TRUE

\* The rows whose share can no longer be exchanged.
Stale(v) == ~Active(v.share)

\* maybeCleanupPublicShareViewSessions, called by every reader and writer of the
\* totals: a batch of the stale rows goes, the totals stay.
CleanUp(batch) ==
    /\ batch # {} /\ batch \subseteq {v \in views : Stale(v)}
    /\ views' = views \ batch
    /\ UNCHANGED <<totals, everOpened>>

-----------------------------------------------------------------------------
\* Mutant: the clock is asked before the row.
StatusByExpiry(s) ==
    IF over THEN "sessionDeleted"
    ELSE IF shares[s].expired THEN "expired"
    ELSE IF shares[s].revoked THEN "revoked"
    ELSE "active"

\* analyticsStatus
StatusOf(s) ==
    IF over THEN "sessionDeleted"
    ELSE IF shares[s].revoked THEN "revoked"
    ELSE IF shares[s].expired THEN "expired"
    ELSE "active"

Opens(s) == IF s \in DOMAIN totals THEN totals[s].opens ELSE 0

\* The shares that a list with LIMIT limit may consist of.  Which of them are the
\* first is up to the times of their last access, which are left out.
Listed(limit) ==
    {S \in SUBSET DOMAIN shares :
        \/ Cardinality(S) = limit
        \/ Cardinality(S) < limit /\ S = DOMAIN shares}

\* listPublicShareAnalytics, of the shares that the limit lets through
ListRows(listed) ==
    {[share |-> s, status |-> StatusOf(s), opens |-> Opens(s), saturated |-> Saturated(s)] :
        s \in listed}

\* readPublicShareAnalyticsSummary
Summary ==
    [total |-> Cardinality(DOMAIN shares),
     active |-> Cardinality({s \in DOMAIN shares : Active(s)}),
     revoked |-> Cardinality({s \in DOMAIN shares : ~over /\ shares[s].revoked}),
     expired |-> Cardinality({s \in DOMAIN shares :
                    ~over /\ ~shares[s].revoked /\ shares[s].expired}),
     sessionDeleted |-> Cardinality({s \in DOMAIN shares : over}),
     everOpened |-> Cardinality(DOMAIN totals),
     opens |-> MapThenSumSet(Opens, DOMAIN totals)]

AnalyticsInit ==
    /\ shares = NoRows /\ over = FALSE
    /\ views = {} /\ totals = NoRows /\ everOpened = {}
=============================================================================
