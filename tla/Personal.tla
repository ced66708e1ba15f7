------------------------------ MODULE Personal ------------------------------
(***************************************************************************)
(* The personal records of an account: snapshot, publication, corrections  *)
(* of what was published, the public archives made of both, and the        *)
(* dictionary beside them.                                                 *)
(***************************************************************************)
EXTENDS ExcelCorrections, PersonalDictionary, PublicArchives

vars == <<personalVars, correctionVars, dictionaryVars, archiveVars>>

DeviceStep ==
    \E d \in Device, s \in Session :
        \/ \E l \in Log, deleted \in BOOLEAN : EditCopy(d, s, l, deleted)
        \/ \E status \in Status : SetStatus(d, s, status)

SnapshotStep ==
    \/ \E d \in Device, keep \in BOOLEAN : Download(d, keep)
    \/ \E d \in Device, answered \in BOOLEAN : ReplaceSnapshot(d, answered)
    \/ SeeShared
    \/ \E s \in Session, l \in Log, deleted \in BOOLEAN : EditShared(s, l, deleted)

PublicationStep ==
    \/ \E d \in Device, s \in Session :
          \/ CreateSession(d, s)
          \/ \E l \in Log : BootstrapLog(d, s, l)
          \/ \E promote \in BOOLEAN : Activate(d, s, promote)
    \/ \E s \in Session, l \in Log, deleted \in BOOLEAN : EditRemote(s, l, deleted)

CorrectionStep ==
    \/ \E s \in Session : RequestPreview(s)
    \/ \E p \in DOMAIN previews :
          \/ PreviewEnds(p)
          \/ \E logs \in SUBSET Log : StorePreview(p, logs) \/ ApplyPreview(p, logs)

DictionaryStep ==
    \E d \in Device :
        \/ \E i \in Item, deleted \in BOOLEAN : EditItem(d, i, deleted)
        \/ \E keep \in BOOLEAN : DownloadDictionary(d, keep)
        \/ \E answered \in BOOLEAN : ReplaceDictionary(d, answered)

ListsUnchanged == UNCHANGED <<lists, aliases, collaborators, deletedUsers>>

\* A request on archive lists: an actor has not been deleted.
ArchiveRequest ==
    \E u \in User \ deletedUsers, i \in List :
        \/ CreateArchiveList(u, i)
        \/ \E x \in User, in \in BOOLEAN :
              SetArchiveMember(u, i, x, in) \/ SetArchiveSource(u, i, x, in)
        \/ \E published \in BOOLEAN : PublishArchiveList(u, i, published)
        \/ SoftDeleteArchiveList(u, i)
        \/ \E kind \in Kind, s \in Session :
              \/ CreateArchiveSnapshot(u, i, kind, s)
              \/ RefreshArchiveSnapshot(u, i, kind, s)
              \/ RemoveArchiveSession(u, i, <<kind, s>>)
        \/ ReorderArchiveSessions(u, i)
        \/ /\ u \in Admin
           /\ \/ \E alias \in Alias : AssignArchiveListAlias(i, alias)
              \/ DeleteArchiveListAlias(i)

ArchiveStep ==
    \/ /\ \/ ArchiveRequest
          \/ \E u \in User : DeleteOwner(u) \/ \E joined \in BOOLEAN : SetCollaborator(u, joined)
       /\ UNCHANGED personalVars
    \/ /\ \E s \in Session, status \in {"active", "closed", "deleted"} : ChangeRemoteStatus(s, status)
       /\ ListsUnchanged

Init == PersonalInit /\ CorrectionInit /\ DictionaryInit /\ ArchiveInit

RecordStep == DeviceStep \/ SnapshotStep \/ PublicationStep

Next ==
    /\ \/ RecordStep /\ UNCHANGED <<correctionVars, dictionaryVars>> /\ ListsUnchanged
       \/ CorrectionStep /\ UNCHANGED dictionaryVars /\ ListsUnchanged
       \/ DictionaryStep /\ UNCHANGED <<personalVars, correctionVars>> /\ ListsUnchanged
       \/ ArchiveStep /\ UNCHANGED <<correctionVars, dictionaryVars>>
    /\ onceClosed' = onceClosed \cup ClosedNow'

Spec == Init /\ [][Next]_vars

-----------------------------------------------------------------------------
(* Properties *)

\* Every change that the server stored can still be read: in the snapshot, in
\* the published Session, or in the original kept at its promotion; a dictionary
\* change in the dictionary.  No device or grantee overwrites what it has not
\* seen, whatever answers are lost, and every writer leaves a row that its
\* readers accept, the exports by Session and the administrator's view alike.
NoStoredChangeIsLost ==
    LET exported == UNION {ChangesIn(SessionBackup(c.session).logs) :
                              c \in {x \in AccountSessionCatalog("includeDeleted") : x.source = "personal"}}
    IN  /\ exported = ChangesIn(AdminSnapshotDetail)
        /\ accepted \subseteq
              exported \cup (UNION {ChangesIn(remote[s].logs) : s \in DOMAIN remote})
                       \cup (UNION {ChangesIn(originals[s]) : s \in DOMAIN originals})
    /\ dictAccepted \subseteq
          UNION {ToSet(AdminDictionary[i].history) : i \in DOMAIN AdminDictionary}

\* A promoted Session has left the snapshot for good, however old the copies
\* that devices upload, with all its live records in the collaboration Session;
\* the owner's list has it once, and the administrator's count is that of the list
\* and of the personal Sessions that the list hides as deleted.
PromotedSessionsMove ==
    /\ \A s \in DOMAIN originals, query \in Query :
          /\ {c \in AccountSessionCatalog(query) : c.session = s}
                = {[source |-> "collaboration", session |-> x] :
                      x \in {s} \cap RemoteSessions(query)}
          /\ \A l \in DOMAIN Live(originals[s]) :
                /\ l \in DOMAIN remote[s].logs
                /\ IsPrefix(originals[s][l].history, remote[s].logs[l].history)
    /\ AdminSessionCount =
          Cardinality(AccountSessionCatalog("plain")) +
          Cardinality(PersonalSessions("includeDeleted") \ PersonalSessions("plain"))

\* A correction was computed from the records it changed as they were just
\* before, although they were read before an await and an hour of other edits,
\* and all the records selected together were changed together.
CorrectionsFitTheirRecords ==
    \A c \in DOMAIN corrected :
        LET s == corrected[c].session
        IN  \A l \in DOMAIN corrected[c].target :
                /\ l \in DOMAIN remote[s].logs
                /\ IsPrefix(Append(corrected[c].target[l].history, c), remote[s].logs[l].history)

\* Visitors of a published list see, in a definite order, Sessions as they were
\* at one moment when they were closed, whatever is changed, reopened, deleted
\* or promoted at the source later and however often copies are made again,
\* moved and removed; and somebody whose account exists answers for the list.
ArchivesStayWhole ==
    /\ \A i \in PublicLists :
          /\ \A n \in 0..(Cardinality(PublicSessions(i)) - 1) :
                \E p \in PublicSessions(i) : p.entry.order = n
          /\ \A p \in PublicSessions(i) :
                [kind |-> p.source[1], session |-> p.source[2], logs |-> p.entry.logs] \in onceClosed
    /\ \A i \in DOMAIN lists : Exists(i) => lists[i].owner \notin deletedUsers
=============================================================================
