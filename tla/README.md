# OpenLogToolServer in TLA+

OpenLogToolServer keeps amateur-radio logs that several people edit at once. A
*Session* is one shared log: its rows (*Logs*), its members, an ordered event
history that clients replay, one shared *live draft* for the next row, and
WebSockets that carry the events as they happen. Around the Sessions stand
accounts with their logins, two more ways into a Session (account shares and
friends), personal records that are promoted to Sessions, public pages without
an account, and the administration of the server and its database. This
directory holds TLA+ modules of all of these, TLC configurations that check them
on small instances, and proofs, checked by TLAPS, that hold for every instance.

Contents: [1 The system](#1-the-system) ·
[2 Modules](#2-modules-and-the-code) · [3 Properties](#3-properties) ·
[4 Runs](#4-runs) · [5 Fairness](#5-fairness) · [6 Refinement](#6-refinement) ·
[7 Proofs](#7-proofs) · [8 Findings](#8-where-code-and-documents-disagree) ·
[9 What is left out](#9-abstractions-and-what-is-left-out) · [10 Plan](#10-plan)

## 1 The system

One Node.js process, one SQLite database through `better-sqlite3`. Every call to
the database is synchronous, and almost every handler does its work in one
`db.transaction(...).immediate()`. What a handler does after the commit (release
field locks, publish to sockets, close sockets) runs in the same tick. Handlers
therefore interleave as wholes, except the few that wait (for `bcrypt`, for a
language model, for a file); the concurrency that is left, and that is hard, is
between *clients*: requests that arrive late, twice, out of order or from stale
copies, sockets that lag, timers, and a process that stops.

| Part | Code (in the repository) | State | Operations | What is hard |
|---|---|---|---|---|
| Session store helpers | `src/collaboration/{access,idempotency,events}.ts` | `sessions`, `session_members`, `logs`, `session_events`, `processed_mutations` | `requireMembership`, `readStoredResponse`, `storeResponse`, `appendSessionEvent` | one retried request, one effect; one number, one event |
| Session lifecycle, Log mutations | `src/api/{sessions-v1,collaboration-sync-v1}.ts` | the same | create, bootstrap, activate, mutate, close, reopen, delete | optimistic versions, batches that stop half way, four writers of one row |
| Event retention | `src/api/session-event-retention-v1.ts` | `sessions.min_retained_seq` | prune a prefix | cursors and tickets that point into what is pruned |
| Inactivity sweep | `src/operations/session-inactivity.ts` | none of its own | close and discard the draft | not started by `startServer`; kept for whoever starts it |
| Members and invites | `src/api/{session-members-v1,collaboration-invites-v1}.ts` | `session_members`, `collaboration_invites`, `invite_redemptions` | leave, role, remove, transfer, invite, redeem | one owner; limited invites; removed members that come back; a stop before the hub is told |
| Live draft | `src/api/live-draft-v1.ts`, `src/collaboration/live-draft*.ts` | `session_live_drafts`, `live_draft_device_state`; leases and preview in memory | read, lock, patch, preview, select, commit, discard | two devices at one draft; memory and database must fit each other |
| Realtime hub, member sockets | `src/ws/index.ts`, `src/collaboration/realtime.ts` | `ws_tickets`; sockets and cursors in memory | ticket, upgrade, backlog, publish, revoke, heartbeat | the seam between backlog and live events; slow consumers; stale tickets |
| Administrative governance | `src/api/admin-governance-v1.ts` | all of the above | the administrator's counterparts | repeats the owner's rules in a second place |
| Accounts, tokens, devices | `src/auth/`, `src/api/{auth,web-auth}-v1.ts` | `users`, `refresh_tokens`; tickets and sockets of a login | bootstrap, register, login, refresh, change password, log out | a refresh token sent twice: theft or retry? a stop between commit and hubs |
| Administration of accounts | `src/api/admin-governance-v1.ts`, `src/admin/elevation.ts` | the same | role, disable, enable, delete, reset, revoke | administrators acting on each other; a reset that waits for bcrypt |
| Web portal | `web/src/{api.ts,AuthContext.tsx}` | one cookie for all tabs; what each tab is signed in as | refresh under a lock, replay of a refused request | tabs that change the account under each other |
| Account sharing, joining by passphrase | `src/account-share/`, `src/api/{account-session-shares,session-join-share}-v1.ts` | `account_share_grants`, `..._blocks`, `session_join_passphrases` | grant, accept, narrow, revoke, block, join | memberships that outlive what gave them; a join stored apart from its answer |
| Shared records | `src/account-share/records.ts` | Logs and snapshots of others | write through a grant | a third writer |
| Friends | `src/social/`, `src/api/social-v1.ts` | `friend_requests`, `friend_blocks`, `session_friend_access`, `session_access_requests` | befriend, block, invite, apply, join | requests that outlive what allowed them |
| Personal snapshots, promotion | `src/api/personal-snapshot-v1.ts`, `src/personal-snapshot/` | a snapshot with a revision; promotions | compare and swap; publish; activate and promote | several devices, a grantee and a promotion at one revision; promotion at a repeated activation |
| Personal dictionary | `src/api/personal-dictionary-snapshot-v1.ts` | a snapshot with a digest | replace | the same with another token |
| Excel corrections | `src/api/excel-corrections-v1.ts`, `src/excel-corrections/` | previews; Logs and events of the Session | compute over an await, apply | Logs that change in between; several Logs in one transaction |
| Public archives | `src/public-archives/`, `src/api/*public-archive*-v1.ts` | lists, members, sources, frozen Sessions, aliases | copy, refresh, order, publish | copies of things that go on changing |
| Public shares | `src/api/public-shares-v1.ts`, `src/collaboration/public.ts` | `public_shares`, `public_ws_tickets` | create, revoke, exchange, ticket, follow | expiry and revocation between exchange and delivery |
| Live viewer | `live/src/usePublicLiveshare.ts` | the page: token, cursor, rows | the loop of exchange, snapshot, socket, retry | converging whatever is lost |
| Share analytics | `src/operations/public-share-analytics.ts` | opens, totals | count once, clean up | limits, and a count that outlives its rows |
| Settings | `src/{config,config-overrides}.ts`, `src/api/admin-governance-v1.ts` | overrides; the running configuration | change, apply at start | memory and table must agree |
| Database recovery | `src/admin/database-recovery*.ts` | `pending.json`, other files, the database | upload, confirm, replace at start | a stop between any two steps |
| Migrations, start and stop | `src/db/`, `src/index.ts` | `schema_migrations` | bring the database up to date | which database the server runs on |
| The rest | audit log, middleware, legacy API, packaging | | | nothing decides by them |

`PROJECT.json` lists the 31 components with their status, and under "hazards"
what in this code a test would hardly reach, each at its line, with the
properties that would catch it.

How the parts interact. The handlers of lifecycle, members, draft and governance
go through the store helpers and end with calls into the hub (`publish`,
`revoke`, `roleChanged`, `sessionDeleted`) and the lock manager. A socket comes
into being through a ticket that one HTTP request wrote and a later upgrade
consumes; in between, anything may have happened to the membership, the history,
the Session and the login. Shares and friends write the same membership rows as
invites, and remove only what they can tell is theirs (`join_source`). A
personal Session leaves its snapshot when the activation of its published copy
promotes it; corrections and archives read both. The public page sees a Session
only through its share. A restore replaces everything under a server that is
just starting.

## 2 Modules and the code

```
Tables ─ SessionStore ──┬── LiveDraftState ──┬── SessionMutations ─┐
                        │                    ├── SessionMembers ───┤
                        └── RealtimeState ───┼── LiveDraft ────────┼── Collaboration ──── MCCollaboration ─ DocumentedClaims
                                             └── RealtimeStream ───┘      │   └── CollaborationSafety ─ RealtimeSafety
                                                                      EventLedger (INSTANCE)
Tables ─ LoginStore ──┬── AccountAdministration ───────┐
                      └── DeviceLogins ─ BrowserLogin ─┴── Accounts ── MCAccounts
                                                             └── AccountsSafety ─ BrowserSafety
Tables ─ SharingStore ─┬─ AccountShares ─┐
                       └─ Friendships ───┴─ Sharing ─── MCSharing
                                               └─────── SharingSafety
Tables ─ PersonalSnapshots ─┬─ PersonalPromotion ─┬─ ExcelCorrections ─┐
                            │                     └─ PublicArchives ───┼─ Personal ─ MCPersonal
                            └─ PersonalDictionary ─────────────────────┘        └─ PersonalSafety
Tables ─┬─ ShareAnalytics ─ PublicShares ─ LiveViewer ─┬─ Public ──── MCPublic
        └─ ServerSettings ─ DatabaseRecovery ──────────┘   │   └── PublicSafety
                                                     ViewedHistory (INSTANCE)
Tables ─ TableLemmas (proofs only)
```

| Module | Models |
|---|---|
| `Tables` | A database table or a `Map` as a function from the keys that have a row. |
| `SessionStore` | The tables of one Session; `RequireMembership`, `CanRead`, `Fresh` (no stored response), `StoreResponse`/`StoreAccepted`, `AppendEvent`, the event bodies. |
| `EventLedger` | The abstract specification of a Session's history (section 6). |
| `LiveDraftState` | `draft` and `deviceState` (database), `locks` and `preview` (memory); `ensureDraft`, `resetDraft`, `clearUser`, `clearFields`, `clearSession`. |
| `RealtimeState` | `tickets` (database) and `conns` (memory: cursor, readyState and what is in flight of each socket); `deliver`, `publish`, `publishRun`, `RevokeUsers`. |
| `SessionMutations` | Creating, bootstrapping, activating, with or without a promotion; `mutateLog` and `mutateSession` on their three paths (batch, administrator, grant); the Excel corrections, which call `mutateLog` several times in one transaction; stored conflicts and rejections; the sweep; pruning. |
| `SessionMembers` | Leaving, roles, removal, transfer, invites, redemption, and the administrator's versions, which differ in what they clean up; each with what follows its commit, or a stop in between (`AfterCommit`). |
| `LiveDraft` | Every endpoint of the draft, expiry of leases and previews. |
| `RealtimeStream` | Ticket, upgrade and backlog, reading, disconnecting, ticket expiry. |
| `Collaboration` | The composition of the seven above: any handler, timer, socket event or restart, in any order. |
| `LoginStore` | `users`, `refresh_tokens`, tickets and sockets of both WebSocket routes, resets that wait. |
| `AccountAdministration` | The commands of one administrator on another account, and the reset in its two halves around `bcrypt.hash`. |
| `DeviceLogins` | Bootstrap, registration, login, rotation with its grace period and reuse alarm, password change, logout, devices, tickets, upgrade, heartbeat, a stop between commit and hubs. |
| `BrowserLogin` | The portal: one cookie, several tabs, the cross-tab lock, one retry, the replay of a refused request. |
| `Accounts` | Their composition with expiry and restarts. |
| `SharingStore` | The tables of grants, blocks, passphrase, friends, requests, and the membership rows they make. |
| `AccountShares` | Grants and their lazy expiry, narrowing, blocking, joining by passphrase, what the catalogue shows. |
| `Friendships` | Friend requests, blocks, the Session's visibility, invitations, applications, direct joining. |
| `Sharing` | Both beside invites, removals, transfer (with its trigger), phases and disabled accounts. |
| `PersonalSnapshots` | Devices with copies, compare and swap of the snapshot, a grantee's edits, the catalogue, the exports and what an administrator is shown. |
| `PersonalPromotion` | Creating, uploading, activating and promoting a personal Session. |
| `PersonalDictionary`, `ExcelCorrections`, `PublicArchives` | What the names say. |
| `Personal` | The composition of these five. |
| `ShareAnalytics`, `PublicShares` | Shares, how often they were opened, exchange, snapshot, ticket, socket of a viewer. |
| `LiveViewer` | The browser's loop, one action per step of it, with the faults from outside. |
| `ServerSettings`, `DatabaseRecovery` | Overrides and the running configuration; upload, validation, confirmation, and the start of the server in steps between which it may stop. |
| `Public` | The composition of these five. |
| `ViewedHistory` | The abstract specification of what a share shows to the page that opened it (section 6). |
| `MC*` | Bounds, symmetry, and the *focuses* TLC explores: a focus is the part of the next-state relation whose steps interact, chosen in the initial state. |
| `DocumentedClaims` | Three statements of the documents the code does not keep. |
| `TableLemmas`, `*Safety` | Proofs. |

An action is one handler from its first test to what it does after its commit.
Its guard is the path through the handler's tests that leads to the effect: a
request that is refused without being stored, or answered from
`processed_mutations`, changes nothing and is no step. Since an action stays
enabled for every request its handler accepts, late, repeated and reordered
requests need no model of a network: they are the requests that arrive in some
later state. Where a handler waits, it is two actions with everything possible
in between: `BeginReset`/`FinishReset`, `RequestPreview` and the preview's
arrival, the two passes of `refreshAccess` in each tab, the steps of the
recovery. Where a client remembers something across requests (a device's copy, a
tab, the viewer's page), the client is modelled too. Handlers that change
something when they refuse have an action for it (`RefusedDraftRequest`,
`StoreConflict`, `StoreRejection`, `ExpireShareGrants`). `"map"` in
`PROJECT.json` gives the lines of the code behind each definition.

A stop of the process loses what is in memory and keeps the tables. In
`Collaboration` it comes between any two handlers (`Restart`), and after the
commit of a change of memberships, before the hub has deleted the tickets of all
whom it concerns (`StopsBeforeRevoking`: the DELETE of `realtime.ts:84, 162` is a
statement of its own); in `Accounts` after the commit of a revocation, before the
hubs are told; in `Public`
after the commit of a share's revocation, and between any two steps of a restore.

Definitions whose comment says "Mutant" are a plausible wrong version of the
definition that follows them. Nothing uses them; substituted for it, they break
the property named in `PROJECT.json` "mutants", which shows that the property
depends on that piece of code.

## 3 Properties

One type invariant per composition is enough: `TypeOK` of `Collaboration` is a
run's property; those of `Accounts`, `Sharing` and `Public` are proved (section 7).
Everything else relates two pieces of state, or a state to another one.

*History.* `EventLogContiguous` (the retained events are exactly
`min_retained_seq + 1 .. event_seq`), `TablesFollowEvents` (replaying the events
gives the tables, and a client sees every version of a row, whichever handler
wrote it), `ExactlyOnce` (a mutationId has at most one event, the one its stored
response names, made on the base version its author saw; the events of a
correction, which no response names, were entered together, one per Log, under a
request answered once), `OneEventPerChange` (once the Session is active the rows
a step changes are those its events are about, each by one event; the one change
nobody announces is what a late promotion does to the times of the Logs),
`KeepsLedger` (section 6), `DeletedLeavesNothing` (after deletion no event,
invite, ticket, open socket, draft, counter or lease; `Draft` asks it of the
draft, `Members` of invites, tickets and sockets).

*Members.* `OneOwner` (of the handlers of `Collaboration`; what the end of a share
does to owners is `Sharing`'s), `InviteUses`, `RejoinNeedsFreshInvite` (who was
removed does not return with the invite that let them in before),
`TicketsAreNotRevived`: a ticket may outlive the membership it was issued on,
because the hub deletes it after the commit; but once `memberTicketIsActive`
refuses it, it never admits anybody again, although the member may come back in
the same role. What sees to this is the version of the membership row, which a
revived row goes on counting.

*Draft.* `LeaseFitsDraft` (leases exist only in an active Session and for the
draft that is there), `DraftContentIsKept` (content goes only with a new version
or an announced close), `ReplaysBelongToOneDraft` (a delayed PATCH is not
confirmed against another draft), `DraftsAreCommittedOnce`.

*Realtime.* `OpenSocketsAreCurrent` (an open socket has been sent everything and
belongs to somebody who may read), `WireIsGapless` (what is in flight is a run
of the history that ends at the socket's cursor).

*Accounts.* `AnAdminRemains`; `LoginsFitAccounts` (a working refresh token is of
an account that may sign in, of its present `auth_version`, and the only one of
its login); `EndedLoginsStayEnded` (no retry within the grace period and no late
answer revives a login); `SocketsFollowLogins` (no socket of an account that may
not sign in, or of a login somebody ended, even when the process stopped before
the hubs were told); `DeadSocketsAreClosed` (liveness: the heartbeat finds what
merely expired); `OnlyLossRaisesAlarm` (several tabs under one lock are taken
for a thief only if an answer was lost); `RetriesKeepTheirAccount` (a request
that waited for a refresh is not sent again as another account).

*Shares and friends.* `SharesEndWithTheirGrant` (who is a member through a share
has an accepted grant that still gives this), `RequestsAreCurrent` (a pending
request is between the present owner and a friend, an application for a visible
Session), `OwnersGoOnlyWithTheirGrant` (an owner goes with the Session, by a
transfer, or with the grant that once let this owner in, and in no other way).

*Personal.* `NoStoredChangeIsLost` (every change the server stored can be read
somewhere: snapshot, published Session, or the original kept at promotion; and
every writer leaves rows their readers accept), `PromotedSessionsMove` (a
promoted Session is in one place for good, with all its live records, however
old the copies uploaded later; the administrator's count is that of the list and
of the deleted personal Sessions which the list shows only on request),
`CorrectionsFitTheirRecords` (a correction is
applied to the records it was computed from, all or none, also after the Session
was closed and by whoever may still correct it), `ArchivesStayWhole`
(visitors see closed Sessions as they were at one moment, in a definite order,
and somebody who exists answers for the list).

*Public.* `ViewersCatchUp` (liveness, with the two outcomes in which a page stops
for good although its share is good: a snapshot too large, and a server that
offers no shares), `ViewersShowOneMoment` (the page's rows
are those of its cursor, never a mixture), `DeadSharesAreSilent` (nothing
written after the end of a share reaches its viewers), `FollowsHistory` (section
6: a page never goes back, and says only for good, and only when it is so, that
there is nothing to see), `OpensAreCounted` (each page once, or a lower bound that
says so), `SummaryMatchesList` (the two pieces of code that classify shares agree:
in a list of any length no status has more shares than the summary counts, and
a list with room for all shows all of them with all their opens),
`RestoreLosesNothing` (data leaves the database only by a confirmed restore
whose safety backup has it), `ServerFitsDatabase` (a server that listens reports
the restore that happened, knows its schema, accepts its own backups and has the
stored settings in force).

## 4 Runs

`tlc -config History.cfg MCCollaboration` and so on; each takes between some seconds
and three minutes.

| Run | Distinct states | Asks |
|---|---|---|
| `History` | 320,916 | From the empty database, in any order: Session and Log mutations by a member, an administrator and a grant, corrections of one or two Logs at once, promotion before and after the activation, stored refusals, the sweep, pruning; and the refinement to `EventLedger`. |
| `Members` | 185,131 | An owner, an editor and an administrator change, end and regain memberships, and close and delete the Session, while invites are open, a ticket is issued and a socket opened, and the process stops between a commit and the hub. |
| `Draft` | 255,011 | Two writers lock, patch, preview, commit and discard one draft while the Session is closed, swept, reopened, deleted, a member removed, the process restarted. |
| `Stream` | 255,045 | Two sockets connect at any cursor, fall behind, overflow and reconnect while Logs change, one or two at once, history is pruned, a member goes, the Session ends, the process restarts. |
| `Accounts` | 391,575 | Two accounts govern each other; a login opens a socket and ends in each way there is; two tabs of one browser refresh, lose answers and change accounts. |
| `Sharing` | 526,236 | Two accounts share, join, befriend, block and hand over one Session. |
| `Personal` | 610,822 | Two devices, a grantee and a promotion at one snapshot, whose Sessions are closed and deleted; corrections across an await of an open or closed Session; the dictionary; archives of what goes on changing. |
| `Public` | 1,004,674 | A page follows a Session while its share ends, answers are lost, snapshots grow too large, history is pruned; the refinement to `ViewedHistory`; opens at their limits; restores and settings across stops. |
| `DraftVersion`, `LeaseHolders`, `TransferRetry`, `Ownerless` | – | One property each, which TLC must find violated (section 8). |

`History` starts from `Init`. `Members`, `Draft` and `Stream` start from
`ActiveInit`: the state after `CreateSession`, `Activate` and one
`AdminAddMember` per editor. Two focuses of `Accounts` start with two
administrators and nobody signed in, the archives of `Personal` with one Session
uploaded and published (`PublishedInit`); all are reachable states, and spend the
bounds on what the run is about. The focuses of a run share every definition:
only the part of `Next` that is explored from an initial state differs. Mutation
ids are numbers used in ascending order (`InOrder`): they are interchangeable, so
this loses no state up to their names. Texts, invites, sockets, users, devices,
Logs and items are symmetric where the cfg or the MC module says so; they are
never compared but for equality. No run with a liveness property uses symmetry.

Bounds, and why they are enough:

- *Accounts of a Session*: 2 or 3 users, since a rule relates at most two (who
  acts, who is affected). The administrator is the owner in `Draft` and
  `Stream`, an outsider in `Members`, either in `History`.
- 2 Logs and 1 field in `History`: a correction takes one or both
  (`MaxProposals` = 2), and its events must not be about the same; 2 texts make
  content equal or different. `History` tries no request when no mutation id is
  left: none would have an effect. 3 fields in `Draft`: the inherited controller, the
  callsign that carries the preview, one that the preview fills in.
- 5 or 6 mutation ids, of which `ActiveInit` uses 3. A retry needs one id twice,
  a conflict two, transfer and back or close, reopen, discard three.
- `MaxSeq` 3 to 5 events: create, update, delete and restore a Log, prune a
  prefix and append again, overflow a buffer of `MaxBuffered` = 1 both in the
  backlog and live. `BaseVersion` holds every version a row reaches and some
  that are stale. `MinRetained` = 1 allows the most prunings.
- `Accounts`: `MaxIssued` = 3 refresh tokens are a login, its replacement and
  a rotation or login after that: the reuse of a token that was replaced, twice
  replaced, or replaced by a revoked one. `MaxVersion` = 4 lets one account be
  changed three times, `MaxChanges` = 5 adds up the versions of all. One reset
  waits at a time, one ticket and one socket: the rules are about one each.
- `Sharing`: `MaxGrants` = 2 is a grant and the one back, or a grant and its
  successor; `MaxPending` = 1 puts every capacity at its limit. `MCScope` has
  the three scopes that differ in what they give: editing members, reading
  members with writing, and a selection without the Session. In the focus on
  shares nobody is invited as a viewer: only roles a share gave are raised. In
  the focus on friends one account may be disabled.
- `Personal`: 2 devices, one Session, 2 Logs, `MaxRevision` = 3: an upload, a
  second that must not succeed with the first's revision, and the one after.
  `MaxRecordChanges` and `MaxArchiveChanges` = 3, `MaxChanges` = 4 count
  single edits. `MaxPreviews` = 2 corrections at one set of records. 3 users for
  a list: the account of the Sessions, somebody else, an administrator;
  `FewAccounts` leaves out rights given to somebody who has more anyway.
- `Public`: `MaxHead` = 3 events, 2 messages of backlog and buffer, so that a
  page falls behind, overflows and is cut off. `MaxFaults` = 2 lost answers or
  broken sockets *in one history*, in any step: with 2 a fault may hit the
  recovery from a fault. 2 shares of at most 2, limits of 2 and 3 opens, which 3
  views reach. Lists of 1 and 2 shares (`MaxListLimit`), so that one has no room
  for all. `SnapshotLimit` = 1 of 2 Logs. 2 restore jobs, 1 backup, one failed attempt and 2 program
  versions; settings are combined with one restore (`OneRestore`).

Deadlock checking is off: a deleted Session, or one whose ids, faults or
versions are used up, really does nothing more.

## 5 Fairness

Most of the system promises nothing by itself: a client need not send another
request, and a lease or ticket that expires does so when somebody looks at it.
So `Collaboration`, `Sharing` and `Personal` state no fairness. Two do:

- `Accounts`: `WF` of `Heartbeat`. `startHeartbeat` calls it from `setInterval`
  every 20 seconds, so it is called again and again; it is one synchronous pass
  over all sockets. `DeadSocketsAreClosed` follows; nothing else is assumed, in
  particular no client behaves.
- `Public`: `WF` of the page's next step, of `CutOff`, and of the expiry of each
  ticket nobody holds. The page's loop is one `async` function that always
  awaits a request with a timeout, a timer or a message; every await ends, with
  an answer or a fault, and both are steps. `CutOff` is the socket's own timer
  at the share's expiry or the heartbeat. Faults have no fairness and are bounded
  by `MaxFaults`; a network that never works lets nobody catch up.

`ViewersCatchUp` says `[]<>`: whenever changes and faults come to rest the page is
live at the head, or has nothing to see, or has stopped for one of two reasons,
each of which must be so: it asked for a snapshot of more Logs than one takes
(413), or the server it asked first offers no shares. It would fail if a resynchronization
could lead to the same resynchronization, if a page could keep a cursor that the
server has pruned, or if a page whose token wore out asked again with it.

## 6 Refinement

`EventLedger` is what a Session promises a client that follows its history:
numbered entries that never change, forgotten from the old end only, and one
receipt for each request, which enters one thing under the number its receipt
names (`Append`), or several different things in one step (`Enter`, the Excel
corrections), or nothing. `Collaboration` contains

    Ledger == INSTANCE EventLedger WITH head <- session.seq, low <- session.minSeq,
        entries <- events, receipts <- [m \in DOMAIN processed |-> processed[m].seq]

and `KeepsLedger == Ledger!Spec` is a property of the run `History` and a
theorem. It is not a restatement: the handlers of four modules each append along a path
of their own, the administrator's, the grant's and the corrections' among them, and the property
fails if one stores no receipt, stores it under another number, appends the same
twice, or enters a part of what it was asked for in a step of its own.

`ViewedHistory` is what a public share promises the page that opened it. The
Session passes from one moment to the next; the page shows the moment it is at,
or one further ahead, but none after the share's viewers were cut off; and it may
say that there is nothing to see when the share is past, after which it shows
nothing more. `Public` contains

    Viewing == INSTANCE ViewedHistory WITH
        moments <- [n \in 0..head |-> RowsAt(n)], share <- LinkState, end <- shutAt,
        cursor <- page.cursor, shown <- page.logs, gone <- Over

and `FollowsHistory == Viewing!Spec`, which the run `Public` checks and
`PagesFollowHistory` proves. Tokens, tickets, pages of a snapshot, backlogs,
buffers, messages, retries and faults are all below this level: `CheckServer`,
`GetTicket` and the like stutter when they succeed, a snapshot or an event is one
`Show`, and however the page is told of the end is one `TurnAway`. Two
of its promises are no other property's: the cursor never goes back, and a page
that says the Session is over or the share unavailable is right. It fails if a
page that resynchronizes starts from nothing.

## 7 Proofs

TLAPS proves these for every value of the constants, from the assumptions named
next to their declarations: the roles of distinguished constants and the numbers
being natural. Users, Logs, fields, sockets, tickets, grants and ids may be any
sets, infinite ones included; only the ids of personal Sessions must be finitely
many (`PersonalAssumption`), since Sessions are counted and archive entries
numbered: `stableId` (`model.ts:133`) takes ids of at most 128 characters.
`tlapm CollaborationSafety.tla`, and so on.

| Module | Theorem | States |
|---|---|---|
| `CollaborationSafety` | `TypeCorrect`, `TypeInvariant` | `Spec => []TypeOK` |
| | `HistoryIsContiguous` | `Spec => []EventLogContiguous` |
| | `MutationsApplyOnce` | `Spec => []ExactlyOnce` |
| | `HandlersImplementLedger` | `Spec => KeepsLedger` |
| | `ChangesAreAnnounced` | `Spec => OneEventPerChange` |
| | `EventsTellTheTables` | `Spec => []TablesFollowEvents` |
| | `SessionHasOneOwner` | `Spec => []OneOwner` |
| | `InvitesAreCounted` | `Spec => []InviteUses` |
| | `NobodyRejoinsAlone` | `Spec => RejoinNeedsFreshInvite` |
| `RealtimeSafety` | `LeasesFitTheDraft` | `Spec => []LeaseFitsDraft` |
| | `ReplaysStayWithTheirDraft` | `Spec => ReplaysBelongToOneDraft` |
| | `ContentIsKept` | `Spec => DraftContentIsKept` |
| | `DraftsCommitOnce` | `Spec => []DraftsAreCommittedOnce` |
| | `TicketsAreOfOneMembership` | `Spec => TicketsAreNotRevived` |
| | `SocketsAreCurrent` | `Spec => []OpenSocketsAreCurrent` |
| | `StreamsAreGapless` | `Spec => []WireIsGapless` |
| | `DeletionIsFinal` | `Spec => []DeletedLeavesNothing` |
| `AccountsSafety` | `LoginInvariant`, `AnAdministratorRemains` | `Spec => []AnAdminRemains` |
| | `WorkingLoginsFit` | `Spec => []LoginsFitAccounts` |
| | `EndedLoginsEndForGood` | `Spec => EndedLoginsStayEnded` |
| | `SocketsAreOfLogins` | `Spec => []SocketsFollowLogins` |
| `BrowserSafety` | `TypeCorrect` | `Spec => []TypeOK` of `Accounts` |
| | `OnlyLossIsTakenForTheft` | `Spec => []OnlyLossRaisesAlarm` |
| | `RetriesAreTheSameAccounts` | `Spec => []RetriesKeepTheirAccount` |
| `SharingSafety` | `SharingTypes` | `Spec => []SharingTypeOK` |
| | `NoOtherOwner` | `Spec => []NoSecondOwner` |
| | `OwnersGoWithTheirGrant` | `Spec => OwnersGoOnlyWithTheirGrant` |
| | `RequestsStayCurrent` | `Spec => []RequestsAreCurrent` |
| | `SharesEnd` | `Spec => []SharesEndWithTheirGrant` |
| `PersonalSafety` | `StoredChangesAreKept` | `Spec => []NoStoredChangeIsLost` |
| | `CorrectionsAreFitting` | `Spec => []CorrectionsFitTheirRecords` |
| | `PromotedSessionsAreMoved` | `Spec => []PromotedSessionsMove` |
| | `ArchivesAreWhole` | `Spec => []ArchivesStayWhole` |
| `PublicSafety` | `ViewerIsTyped` | `Spec => []ViewerTypes` |
| | `PagesShowOneMoment` | `Spec => []ViewersShowOneMoment` |
| | `DeadSharesStaySilent` | `Spec => []DeadSharesAreSilent` |
| | `PagesFollowHistory` | `Spec => FollowsHistory` |
| | `OpensAreNeverCountedTwice` | `Spec => []OpensAreCounted` |
| | `SummaryIsOfTheList` | `Spec => []SummaryMatchesList` |
| | `ServerIsInLine` | `Spec => []ServerFitsDatabase` |
| | `RestoresLoseNothing` | `Spec => RestoreLosesNothing` |

The table has every invariant, every action property and both refinements that
the passing runs check; only liveness is left to TLC.

*The Session.* `TypeInv` joins three facts that are inductive only together: the
types, the contiguity of the history, and `minSeq <= seq`. A socket's backlog
reads `events[i]` for every `i` past its ticket's cursor; that these are events
needs contiguity, and contiguity survives an append only if the ends of the
interval have not crossed. The proof goes helper by helper (`Put`, `Without`,
`AppendEvent`, `deliver`, `ensureDraft`, ...), then handler by handler;
`NextKeepsInv` combines them. `ExactlyOnce` is inductive on top of it. The heart
is `AcceptedOnce`: the id is not in `processed` (`Fresh`), so no event bears it,
so appending one under it leaves it with one. `NothingAccepted` covers every step
that stores no acceptance, pruning among them. A correction stores one answer and
enters several events under it: `CorrectionsEntered` shows that they are about
different Logs and nobody else's events are between them, because its numbers
begin after the head and `Fitting` selects no Log twice. `OneOwner` needs `OwnerInv`: an
absent Session has no members, which makes the creator the only owner; transfers
change two rows and the owner column at once, and every other handler touches at
most one membership, which its tests keep from being the owner's. For
`KeepsLedger`, `HistoryStep` sorts every handler into the three abstract steps
and the stutter.

`OneEventPerChange` and `TablesFollowEvents` share a classification: a step
writes one Log, corrects several, writes the Session row, deletes, promotes,
publishes a commit, prunes, or leaves both tables alone (`LogWritten`,
`SessionWritten`, ...). `TablesInv` adds
that an event names the version of its body and that a Session nobody published
has no events; without the second, the first event could follow nothing. With
`InviteUses` goes that redemptions are finite, which lets them be counted at all.

*Draft and realtime.* Each has an invariant over `TypeInv`. `DraftInv`: besides
the leases, no device counter without a draft and no content in a Session that is
not active; the second is why a reopened Session begins with an empty draft, the
first why the counters of an old draft answer for no new one. `CommitsInv` counts
accepted commits against the draft ids that are used up, the present draft's own
being not. `TicketsAreNotRevived` does not rest on the hub, which may never be
told: versions of a member row only grow (`MembersAge`) and a Session's status
never returns to what it was before its activation (`SessionAges`); `TicketInv`
says that a ticket names a version the row had, and that as long as it has it the
ticket's role and the right to read are the row's. So a ticket that is refused is
behind its row, and stays behind. `WireInv`: no cursor, and no unused ticket's
`after`, is beyond `event_seq`, so that the event to come is in flight to nobody;
then `deliver` meets every open socket at exactly the number before, and several
events at once leave it as many further (`RunDelivery`).
`OpenSocketsAreCurrent` follows by going through what each handler revokes after
its commit. `DeletedInv` adds that a deleted Session is not absent, so nobody
creates it again. `DraftAssumption` has that the controller is one of the fields
that are no content (`live-draft.ts:254`): an inherited controller would otherwise
be content in a Session that is closed.

*Accounts.* `LoginInv` has the types and that the family of every token was
issued, so that a new login is a new family. `AnAdministratorRemains`: whoever
sends a command is an active administrator afterwards as well, because a command
acts on another account or leaves role and status as they are; so nobody can
remove the last one. `WorkingLoginsFit`: every step either only ends logins, and
a change of an account's status or version ends all of its logins with it
(`EndingKeepsFit`), or issues one token in a family that has no other working
one (`IssuingKeepsFit`). `EndedLoginsEndForGood` follows: a token is issued in an
old family only by the rotation of a working token of it. `SocketsAreOfLogins`
needs two facts more: the tokens of a family are one account's, and while one of
them works none was revoked except by rotation (`FamilyInv`); holders of tickets
and sockets are the accounts of their families (`HolderInv`). A stop between
commit and hubs is then harmless: it closes all sockets, and a ticket left behind
fails `Authenticated` at the upgrade.

*The portal.* `ExchangeInv`: as long as no answer was lost, at most one tab is
between sending a refresh and reading its answer, the token it carries was never
replaced, and the cookie is a token never replaced unless an answer with its
successor is about to be read. Rotations by other clients do not disturb this,
because they hold tokens of their own: a token in the browser is httpOnly
(`InBrowser`), so no application can present it. `RetriesKeepTheirAccount` is
inductive as it stands: a request is sent again only by a tab that is of the same
`authGeneration` and account as when it asked (`MayResend`).

*Shares and friends.* `TypeInv` says in addition that the ids of grants are an
interval from 1. `NoSecondOwner`: whatever a share, a friend or an invite writes
is a guest's row, and a sweep or revocation only removes (`Shrunk`).
`OwnersGoOnlyWithTheirGrant` adds `SourcedInv` (a row that came by a share names a
grant to this account) and what an end of grants leaves of the members (`Taken`);
everything else either passes the owner by or hands the role over. With
`NoSecondOwner`, the
owner who invites is the present owner, and `RequestsStayCurrent` is inductive:
every step leaves what a pending request rests on (`Undisturbed`), or takes the
request away with it. `GuestsInv` carries `SharesEndWithTheirGrant`: every
present member a share let in names an accepted grant whose scope still lets in,
and no open grant goes from a blocked account to the one that blocked it; the
first survives because every handler that ends or narrows a grant sweeps its
memberships in the same transaction, and because ids of grants are not used twice.

*Personal records.* `PersonalInv` says where a stored change is at each stage of
a promotion (`KeptInv`): in the snapshot, in a published Session or in an original
kept at a promotion. Four facts carry it. A record's history only continues
(`Continued`, a prefix order on tables of records), except where a device
replaces the snapshot as a whole. There `CopiesInv` helps: no device's `base` is ahead
of the revision, and a device whose `base` *is* the revision holds every change of
the snapshot, so compare and swap loses none. `MovedInv`: a promoted Session
has left the snapshot, and its live records are continued by the published ones;
it stays so because an upload that names a promoted Session is refused, whichever
old copy it is made from. `StoredIsValid` makes the exports by Session add up to
the snapshot: no record is of a Session the snapshot lacks. The dictionary's
invariant is the same with items for records. `PromotedSessionsMove` adds a count:
personal and collaboration Sessions of the catalogue are disjoint, finite
families, so the administrator's sum is the cardinality of the list and of the
deleted personal Sessions, which `session_count` counts and the list hides.

*Corrections.* `PreviewsInv`: what a preview was computed from is, record by
record, a prefix of what is published now. Applying compares the versions of all
records selected; prefixes of equal length are equal, so the rows changed are the
rows read, and the changes appended follow exactly those. Nothing of this asks
whether the Session is active: a closed one is corrected by the same comparison.

*Archives.* `ListInv`: the entries of a list are numbered by a bijection with
`0..n-1`, every entry is a Session as it once was when closed, and the owner of a
list that is there is not deleted. Adding takes the next number and reordering
permutes; removing renumbers what comes after, and that the numbers then end at
`n-2` is a lemma about cardinality.

*The viewer.* `ViewerInv` is three parts. `ViewerTypes` bounds every number in
flight by the head. `MomentInv` says that the live rows are those the history
gives (`RowsAt(head)`), and the page's are `RowsAt` of its cursor; `RowsAt` takes
the largest event number of each Log, so `RowsAtNext` (one event more is one
`Put`, one `Without` or nothing) and `RowsOfPrefix` (later events do not matter)
are what snapshot, backlog and live delivery all come down to. `SilenceInv`:
after the cut the socket is closed, and neither the page's cursor nor anything in
flight is beyond `shutAt`; it stays so because the link's share stays dead, so
that no exchange and no ticket can succeed. `PublicAssumption` has that `"none"`,
which stands for the Log of a Session event, is no Log.

*The page and its history.* For `FollowsHistory`, `PastInv` is joined to
`ViewerInv`: whoever asks for more has a share; who believes that there is nothing
to see, and any message on the wire that says so, is right; and the history ends
with `session.deleted` only when the Session is over. `PageMoves` is what every
step of the page comes to: the server is left alone, the cursor stays or goes
ahead, and the page turns away only from a share that is past. One lemma each for
the rounds of the loop, reading, messages and faults shows it, and `MovesFollow`
maps it: with `MomentInv` what is shown is the moment of the new cursor, with
`SilenceInv` that moment is not after the end. On the server's side an event adds
the next moment and leaves the old ones (`MomentsPass`, from `RowsOfPrefix`), and
the end is set once.

*The count.* `CountInv`: rows are views that were ever opened, and as long as the
share is active and its total not saturated they are *all* of them
(`RowsAreComplete`). That is what makes "no row" mean "never opened"; the clean-up
keeps it because it takes only rows of shares that nobody can open any more.

*The summary.* Which shares a list has is any set of at most its limit, and all of
them when they fit. The listed shares of a status and the rows with it are in
bijection, and the former are among those the summary counts; with all listed
there are equally many. For the sum of the opens, a sum over a
finite set is shown to be the number of its `Units`, each element as often as it
counts: this number satisfies the recursion of the fold (`SumsExist`), and any
two functions that satisfy it agree (`SumsAreUnique`), since there would be a
smallest set on which they differ. The units of the shares and those of the rows
are in bijection again.

*Recovery.* `RecoveryInv` has eight conjuncts, the first the types. Instance ids are 1, 2, ..., and the
next is new (`Numbered`). `FilesInv`: any file that can become the database,
whether uploaded, previewed, pending, a backup or a safety backup, records only
jobs that have a safety backup, and no job is ahead of the database it replaces. `StepsInv`: what a start knows at each of its steps, the guards that still
hold and that the reported outcome is `completed` exactly if the job is in the
database. `SafetyInv`, the one that took most: a safety backup of an attempt that
was *interrupted* is either a copy of the database it is about to replace, or the
job is outdated (`Outdated`: logins or instance have moved on) and will be refused
at the next start. `ResultInv`, `BackupsInv` and `SettingsInv` carry the three
parts of `ServerFitsDatabase` through the steps between which the process stops.
`SafetyInv` needs that no job gets the id of another whose safety backup exists,
which the guard of `UploadChecked` says: the code draws ids with `randomUUID`
(`admin-database-recovery-v1.ts:66`).

*Only model-checked.*

- `ViewersCatchUp` and `DeadSocketsAreClosed`: liveness and ENABLED are out of the
  prover's reach.
- The four statements of section 8, which are false.

The library's induction theorems, which take the induction hypothesis as an
operator, cannot be used either; the one induction over data that is needed, that
of the sum, is by a smallest counterexample (`WFMin`). No module here declares a
RECURSIVE operator.

*What the proofs changed.* Attempts that failed found places where the
modules were wrong or unclear. In `Accounts` any client could present any token, the
portal's httpOnly cookie included; it is now the browser's alone (`InBrowser`). In
`DatabaseRecovery` the guard of `UploadChecked` bound its operators so that the id
of a job that had run could be given to another. In `NoStoredChangeIsLost`, `UNION A \cup UNION B` could be read in two ways; it is
now parenthesized. Three assumptions on constants were implicit and are now
stated: the controller counts as no content, `"none"` is no Log, and there are
finitely many ids of personal Sessions.

## 8 Where code and documents disagree

TLC finds these four. All are about
`docs/superpowers/specs/2026-07-11-collaboration-v1-design.md`; the last one is a
defect by that document's rule.

- `DraftVersion`: the draft's version is said to only grow (lines 1289, 371). A
  close that discards the draft deletes its row after announcing
  `nextDraft.version`; the next draft starts again at version 1.
- `LeaseHolders`: a change of permissions is said to clear the leases it concerns
  (line 373). The administrator's member endpoints never call `clearUser`, so the
  lease of a removed member blocks its field until it expires.
- `TransferRetry`: the same id with the same request is said to return the first
  result (line 197). `transfer-ownership` tests for the owner before it looks for
  the stored response, so the previous owner's retry, after an answer was lost,
  is refused.
- `Ownerless`: a Session that is not deleted has exactly one owner (line 108).
  Who joined through an account share, and was then made the owner, keeps
  `join_source`; when the previous owner's grant is revoked, narrowed or
  expires, `revokeShareMemberships` removes the new owner, and the Session has
  none. (`NoOtherOwner` proves that it never has two, `OwnersGoWithTheirGrant` that
  among the handlers of `Sharing` this is the only way to have none.)

Read on the way, and not made runs:

- Taking a grant back is said to leave members who joined independently
  (`docs/account-session-sharing-api-v1.md:71`, and the comment at
  `account-share/service.ts:446`). Redeeming an invite revives a removed row with
  the `join_source` and `account_share_grant_id` it had
  (`collaboration-invites-v1.ts:302`), so who had joined by a share, was removed
  and came back with an invite goes when the grant does. `SharesEndWithTheirGrant`
  therefore speaks of how the present stay began (`by`), which no column records.
- `database-recovery.ts:168` keeps the safety backup of a failed attempt, so the
  next attempt of that job replaces a database its backup does not have
  (`RestoreLosesNothing` excepts this, by name).
- After a restore to an older database a page's cursor may be ahead of the head:
  the ticket is refused (`public-shares-v1.ts:863`) and `usePublicLiveshare.ts:436`
  tries again with the same cursor, since only another error asks for a snapshot.
- `database-recovery.ts:197`: a share revoked after the backup was taken works
  again after the restore.
- A published archive list may be emptied by removing its last Session.
- Activating without `personalSnapshotRevision` leaves the Session in the
  snapshot and in the collaboration; a list can then hold it twice.

## 9 Abstractions and what is left out

- One Session, and one account's personal records. Sessions share no rows that
  these handlers read; limits across Sessions (connections, rate limits) are not
  modelled.
- Content is a function from fields to values, or the sequence of changes a
  record has had; what `canonicalLogValue` lets through is `Complete`. Names,
  times, formats and wording are gone. Passwords, passphrases and hashes are
  their identity.
- Times: an expiry may happen at any moment, as an action of its own. A request
  hash is represented by the kind and requester of a stored response.
- Lease ids, `last_committed_*`, `updated_at` and audit rows are left out.
- The administrator's `expectedVersion` is taken to be the current one: another
  value is refused. Re-authentication is an elevation token that can always be
  had by who may have it.
- The member's wire holds events. Control messages (ready, access changed, draft
  notices) are not in it; that sending one may close a slow socket is covered by
  `Disconnect`. The public wire holds every message.
- A member handler's calls after its commit (locks, hub, social hub) are in its
  action, with the alternative that the process stops among them. Only tickets
  survive a stop, so that any of the users' tickets may be left is all there is
  to tell. The stop is in `Accounts` and `Public` for their revocations as well.
- The event of a correction bears a `proposalId`, which the server drew for the
  preview (`excel-corrections/service.ts`). In `SessionMutations` it is the id of
  the request that applies it together with the entity: `mutation` is the request's.
  No proposal is applied twice (the preview is used up, `applied_at`), and
  `uq_session_events_mutation` would refuse it. `SessionMutations` has what an
  application does to the Session's tables and sockets, `ExcelCorrections` how it
  fits what was read before the await, and which previews exist.
- A promotion at the first or a repeated `activate` changes `created_at`,
  `updated_at` and `source_device_id` of the Logs and `created_at` of the Session,
  and announces none of it. For Logs this is the field `stamp`, which
  `OneEventPerChange` names as the exception and `TablesFollowEvents` leaves out
  of what events must tell. The snapshot's side is in `PersonalPromotion`.
- Personal Sessions with `deleted_at` are a status of their own; archived ones are
  closed ones. An administrator only reads snapshots.
- A list of share openings has any shares up to its limit: that it takes those
  last opened (ORDER BY) no property uses.
- Page and server read one clock and are of one version: that
  `usePublicLiveshare.ts:354` ends a page whose own clock runs ahead of the
  expiry of a share the server just exchanged, and that an answer it cannot parse
  ends it in `protocolError` (line 411), is left out.
- What the database file of a backup contains is its verdict: valid or not, of
  which schema and instance.

*Not modelled.* The audit log (rows nobody decides by, but the completion row of
a restore, which is modelled); rate limits, request ids and error formatting (a
refused request changes nothing); the legacy routers, which `createApp` does not
mount; packaging; the read endpoints and exports, except those whose answer a
property needs; recover-as-copy, which makes a second Session from reads of the
first; the client and the stored credential of the language model, whose answers
are any assignment of rows; the search for users; limits on connections; draft
notices; process metrics and the location of addresses, which nothing reads back;
what each migration does to old rows (the runner, and the constraints and
triggers the modules rest on, are modelled); pages and texts of the portal and
the viewer.

## 10 Plan

1. What an editor's client remembers of the draft, as `LiveViewer` does for the
   viewer.
2. The clock of the viewer's page as one of its own.
3. `recover-as-copy` as a second Session, and connection limits.
