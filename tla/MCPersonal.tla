----------------------------- MODULE MCPersonal -----------------------------
(***************************************************************************)
(* Small instances of Personal: two devices, and one of four parts of the  *)
(* system with a few changes.                                              *)
(***************************************************************************)
EXTENDS Personal, TLC

CONSTANTS MaxRecordChanges, MaxArchiveChanges, MaxChanges, MaxRevision, MaxPreviews

VARIABLE focus

Bounded ==
    /\ changes' <= CASE focus = "records" -> MaxRecordChanges
                     [] focus = "archives" -> MaxArchiveChanges
                     [] OTHER -> MaxChanges
    /\ dictChanges' <= MaxChanges
    /\ snapshot'.revision <= MaxRevision /\ dictionary'.revision <= MaxRevision
    /\ Cardinality(DOMAIN previews') <= MaxPreviews

MCSymmetry == Permutations(Device) \cup Permutations(Log) \cup Permutations(Item)

\* Before anything can be archived there is no list; being owner, member, source
\* or collaborator gives an account something only when it has no other right.
FewAccounts ==
    /\ onceClosed = {} => lists = NoRows /\ collaborators = {} /\ deletedUsers = {}
    /\ collaborators \cap Admin = {}
    /\ \A i \in DOMAIN lists :
          /\ lists[i].owner \notin Admin
          /\ lists[i].members \subseteq User \ ({Account} \cup Admin)
          /\ lists[i].sources \subseteq {Account}

\* A device has uploaded its Session with one record and then published it
\* without promoting it.
PublishedInit ==
    \E s \in Session, l \in Log, d \in Device :
    LET sessions == s :> "active"
        logs == l :> [session |-> s, history |-> <<1>>, deleted |-> FALSE]
    IN  /\ changes = 1 /\ accepted = {1}
        /\ snapshot = [revision |-> 1, sessions |-> sessions, logs |-> logs,
                       sessionCount |-> 1, logCount |-> 1]
        /\ copies = [x \in Device |->
              IF x = d THEN [base |-> 1, sessions |-> sessions, logs |-> logs]
              ELSE [base |-> 0, sessions |-> NoRows, logs |-> NoRows]]
        /\ seen = 0
        /\ remote = s :> [status |-> "active", logs |-> logs]
        /\ originals = NoRows

MCInit ==
    /\ focus \in {"records", "corrections", "dictionary", "archives"}
    /\ IF focus = "archives" THEN PublishedInit ELSE PersonalInit
    /\ CorrectionInit /\ DictionaryInit /\ ArchiveInit

\* The Sessions that are archived change on the device that has them, which
\* hears its answers, and as published Sessions.
SourceStep ==
    \/ /\ \E d \in {x \in Device : copies[x].sessions # NoRows}, s \in Session :
             \/ \E l \in Log, deleted \in BOOLEAN : EditCopy(d, s, l, deleted)
             \/ \E status \in Status : SetStatus(d, s, status)
             \/ ReplaceSnapshot(d, TRUE)
       /\ changes' < MaxArchiveChanges
    \/ PublicationStep

\* The corrections are of Sessions that were published without a snapshot, and
\* may be closed; their device keeps its own as they are.
MCNext ==
    /\ \/ /\ focus = "records"
          /\ SnapshotStep
          /\ UNCHANGED <<correctionVars, dictionaryVars, archiveVars>>
       \/ /\ focus \in {"records", "corrections"}
          /\ DeviceStep \/ PublicationStep
          /\ focus = "corrections" =>
                \A d \in Device : copies[d].sessions = copies'[d].sessions
          /\ UNCHANGED <<correctionVars, dictionaryVars, archiveVars>>
       \/ /\ focus = "corrections"
          /\ \/ CorrectionStep
             \/ /\ \E s \in Session, status \in {"active", "closed"} : ChangeRemoteStatus(s, status)
                /\ UNCHANGED correctionVars
          /\ UNCHANGED <<dictionaryVars, archiveVars>>
       \/ /\ focus = "dictionary"
          /\ DictionaryStep
          /\ UNCHANGED <<personalVars, correctionVars, archiveVars>>
       \/ /\ focus = "archives"
          /\ \/ SourceStep /\ ListsUnchanged
             \/ ArchiveStep
          /\ onceClosed' = onceClosed \cup ClosedNow'
          /\ UNCHANGED <<correctionVars, dictionaryVars>>
          /\ FewAccounts'
    /\ Bounded
    /\ UNCHANGED focus

MCSpec == MCInit /\ [][MCNext]_<<vars, focus>>
=============================================================================
