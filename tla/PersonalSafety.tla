---------------------------- MODULE PersonalSafety --------------------------
(***************************************************************************)
(* What is proved of Personal: no change that the server stored is lost,   *)
(* promoted Sessions move as wholes, corrections fit the records they      *)
(* change, and archive lists stay whole, for any number of devices,        *)
(* records, previews, items, users and lists.                              *)
(***************************************************************************)
EXTENDS Personal, TableLemmas, FiniteSetTheorems, SequenceTheorems

-----------------------------------------------------------------------------
(* Records *)

\* A record, and tables of records and of Sessions.
LogRow == [session : Session, history : Seq(Nat), deleted : BOOLEAN]

Logs == UNION {[L -> LogRow] : L \in SUBSET Log}

Sessions == UNION {[S -> Status] : S \in SUBSET Session}

\* The records of old are those of new with fewer changes.
Continued(old, new) ==
    \A l \in DOMAIN old : l \in DOMAIN new /\ IsPrefix(old[l].history, new[l].history)

-----------------------------------------------------------------------------
(* Histories *)

\* A prefix, element by element.
LEMMA PrefixMeans ==
    ASSUME NEW s \in Seq(Nat), NEW t \in Seq(Nat)
    PROVE  IsPrefix(s, t) <=> Len(s) <= Len(t) /\ \A i \in 1..Len(s) : s[i] = t[i]
<1>1. SubSeq(s, 1, Len(s)) = s
  BY SubSeqProperties
<1>2. CASE Len(s) <= Len(t)
  <2>1. /\ SubSeq(t, 1, Len(s)) \in Seq(Nat) /\ Len(SubSeq(t, 1, Len(s))) = Len(s)
        /\ \A i \in 1..Len(s) : SubSeq(t, 1, Len(s))[i] = t[i]
    BY <1>2, SubSeqProperties
  <2>2. SubSeq(t, 1, Len(s)) = s <=> \A i \in 1..Len(s) : s[i] = t[i]
    BY <2>1, SeqEqual
  <2> QED BY <1>1, <1>2, <2>2 DEF IsPrefix
<1> QED BY <1>2 DEF IsPrefix

\* Prefixes: of itself, of what is longer, and of what is longer still.
LEMMA PrefixOfItself ==
    ASSUME NEW s \in Seq(Nat)
    PROVE  IsPrefix(s, s)
BY PrefixMeans

\* What is appended to continues.
LEMMA PrefixOfAppend ==
    ASSUME NEW s \in Seq(Nat), NEW n \in Nat
    PROVE  IsPrefix(s, Append(s, n)) /\ Append(s, n) \in Seq(Nat)
<1>1. /\ Append(s, n) \in Seq(Nat) /\ Len(Append(s, n)) = Len(s) + 1 /\ Len(s) \in Nat
      /\ \A i \in 1..Len(s) : Append(s, n)[i] = s[i]
  BY AppendProperties
<1>2. PICK t \in Seq(Nat) : t = Append(s, n)
  BY <1>1
<1>3. Len(s) <= Len(t) /\ \A i \in 1..Len(s) : s[i] = t[i]
  BY <1>1, <1>2
<1> QED BY <1>2, <1>3, PrefixMeans

\* What continues a continuation continues the first.
LEMMA PrefixOfPrefix ==
    ASSUME NEW s \in Seq(Nat), NEW t \in Seq(Nat), NEW u \in Seq(Nat),
           IsPrefix(s, t), IsPrefix(t, u)
    PROVE  IsPrefix(s, u)
<1>1. Len(s) \in Nat /\ Len(t) \in Nat /\ Len(u) \in Nat
  OBVIOUS
<1>2. Len(s) <= Len(t) /\ \A i \in 1..Len(s) : s[i] = t[i]
  BY PrefixMeans
<1>3. Len(t) <= Len(u) /\ \A i \in 1..Len(t) : t[i] = u[i]
  BY PrefixMeans
<1>4. Len(s) <= Len(u) /\ \A i \in 1..Len(s) : s[i] = u[i]
  BY <1>1, <1>2, <1>3
<1> QED BY <1>4, PrefixMeans

\* As long as its prefix, a history is its prefix.
LEMMA PrefixAsLong ==
    ASSUME NEW s \in Seq(Nat), NEW t \in Seq(Nat), IsPrefix(s, t), Len(t) = Len(s)
    PROVE  s = t
BY PrefixMeans, SeqEqual

\* The changes in a history.
LEMMA ChangesOfPrefix ==
    ASSUME NEW s \in Seq(Nat), NEW t \in Seq(Nat), IsPrefix(s, t)
    PROVE  ToSet(s) \subseteq ToSet(t)
<1>1. Len(s) <= Len(t) /\ \A i \in 1..Len(s) : s[i] = t[i]
  BY PrefixMeans
<1>2. DOMAIN s = 1..Len(s) /\ DOMAIN t = 1..Len(t) /\ Len(s) \in Nat /\ Len(t) \in Nat
  OBVIOUS
<1>3. ASSUME NEW i \in DOMAIN s PROVE i \in DOMAIN t /\ s[i] = t[i]
  BY <1>1, <1>2
<1> QED BY <1>3 DEF ToSet

\* One change more.
LEMMA ChangesOfAppend ==
    ASSUME NEW s \in Seq(Nat), NEW n \in Nat
    PROVE  ToSet(Append(s, n)) = ToSet(s) \cup {n}
<1>1. /\ DOMAIN s = 1..Len(s) /\ Len(s) \in Nat /\ DOMAIN Append(s, n) = 1..(Len(s) + 1)
      /\ \A i \in 1..Len(s) : Append(s, n)[i] = s[i]
      /\ Append(s, n)[Len(s) + 1] = n
  BY AppendProperties
<1>2. ToSet(Append(s, n)) \subseteq ToSet(s) \cup {n}
  <2>1. ASSUME NEW i \in 1..(Len(s) + 1) PROVE Append(s, n)[i] \in ToSet(s) \cup {n}
    <3>1. CASE i \in 1..Len(s)
      BY <1>1, <3>1 DEF ToSet
    <3>2. CASE i = Len(s) + 1
      BY <1>1, <3>2
    <3> QED BY <1>1, <3>1, <3>2
  <2> QED BY <1>1, <2>1 DEF ToSet
<1>3. ToSet(s) \cup {n} \subseteq ToSet(Append(s, n))
  <2>1. ASSUME NEW i \in 1..Len(s) PROVE s[i] \in ToSet(Append(s, n))
    BY <1>1 DEF ToSet
  <2>2. n \in ToSet(Append(s, n))
    BY <1>1 DEF ToSet
  <2> QED BY <1>1, <2>1, <2>2 DEF ToSet
<1> QED BY <1>2, <1>3

-----------------------------------------------------------------------------
(* Tables of records *)

\* What a table of records is.
LEMMA LogsMeans ==
    ASSUME NEW t
    PROVE  t \in Logs <=> t \in [DOMAIN t -> LogRow] /\ DOMAIN t \subseteq Log
BY DEF Logs

\* What a table of Sessions is.
LEMMA SessionsMeans ==
    ASSUME NEW t
    PROVE  t \in Sessions <=> t \in [DOMAIN t -> Status] /\ DOMAIN t \subseteq Session
BY DEF Sessions

\* The operations on tables.
LEMMA LogsKept ==
    ASSUME NEW t \in Logs
    PROVE  /\ \A l \in Log, row \in LogRow : Put(t, l, row) \in Logs
           /\ \A keys : Without(t, keys) \in Logs
           /\ \A keys : Restrict(t, keys \cap DOMAIN t) \in Logs
           /\ Live(t) \in Logs /\ \A s : LogsOf(t, s) \in Logs
<1>1. t \in [DOMAIN t -> LogRow] /\ DOMAIN t \subseteq Log
  BY LogsMeans
<1>2. ASSUME NEW l \in Log, NEW row \in LogRow PROVE Put(t, l, row) \in Logs
  <2>1. Put(t, l, row) \in [DOMAIN t \cup {l} -> LogRow]
    BY <1>1 DEF Put
  <2> QED BY <1>1, <2>1 DEF Logs
<1>3. ASSUME NEW keys, keys \subseteq DOMAIN t PROVE Restrict(t, keys) \in Logs
  <2>1. Restrict(t, keys) \in [keys -> LogRow]
    BY <1>1, <1>3 DEF Restrict
  <2> QED BY <1>1, <1>3, <2>1 DEF Logs
<1>4. \A keys : Without(t, keys) \in Logs
  BY <1>3 DEF Without
<1>5. \A keys : Restrict(t, keys \cap DOMAIN t) \in Logs
  BY <1>3
<1>6. Live(t) \in Logs
  BY <1>3 DEF Live
<1>7. \A s : LogsOf(t, s) \in Logs
  BY <1>3 DEF LogsOf
<1> QED BY <1>2, <1>4, <1>5, <1>6, <1>7

\* A row of a table.
LEMMA LogFacts ==
    ASSUME NEW t \in Logs, NEW l \in DOMAIN t
    PROVE  /\ l \in Log /\ t[l] \in LogRow /\ t[l].history \in Seq(Nat)
           /\ t[l].session \in Session
BY LogsMeans DEF LogRow

\* What is continued is continued by what continues that.
LEMMA ContinuedOn ==
    ASSUME NEW a \in Logs, NEW b \in Logs, NEW c \in Logs, Continued(a, b), Continued(b, c)
    PROVE  Continued(a, c)
<1>1. ASSUME NEW l \in DOMAIN a
      PROVE  l \in DOMAIN c /\ IsPrefix(a[l].history, c[l].history)
  <2>1. l \in DOMAIN b /\ l \in DOMAIN c
    BY DEF Continued
  <2>2. a[l].history \in Seq(Nat) /\ b[l].history \in Seq(Nat) /\ c[l].history \in Seq(Nat)
    BY <2>1, LogFacts
  <2> QED BY <2>1, <2>2, PrefixOfPrefix DEF Continued
<1> QED BY <1>1 DEF Continued

\* A table continues itself.
LEMMA ContinuedSame ==
    ASSUME NEW a \in Logs
    PROVE  Continued(a, a)
BY LogFacts, PrefixOfItself DEF Continued

\* The changes in a table.
LEMMA ChangeIsIn ==
    ASSUME NEW t, NEW c
    PROVE  c \in ChangesIn(t) <=> \E l \in DOMAIN t : c \in ToSet(t[l].history)
BY DEF ChangesIn

\* A table that is continued loses no change.
LEMMA ChangesContinued ==
    ASSUME NEW a \in Logs, NEW b \in Logs, Continued(a, b)
    PROVE  ChangesIn(a) \subseteq ChangesIn(b)
<1>1. ASSUME NEW l \in DOMAIN a
      PROVE  l \in DOMAIN b /\ ToSet(a[l].history) \subseteq ToSet(b[l].history)
  <2>1. l \in DOMAIN b /\ a[l].history \in Seq(Nat) /\ b[l].history \in Seq(Nat)
    BY LogFacts DEF Continued
  <2> QED BY <2>1, ChangesOfPrefix DEF Continued
<1> QED BY <1>1, ChangeIsIn

\* The next change number.
LEMMA ChangedRow ==
    ASSUME NEW old \in LogRow, changes \in Nat, NEW deleted \in BOOLEAN
    PROVE  /\ Changed(old, deleted) \in LogRow
           /\ Changed(old, deleted).session = old.session
           /\ Changed(old, deleted).history = Append(old.history, changes + 1)
           /\ IsPrefix(old.history, Changed(old, deleted).history)
           /\ ToSet(Changed(old, deleted).history) = ToSet(old.history) \cup {changes + 1}
<1>1. old.history \in Seq(Nat) /\ changes + 1 \in Nat
  BY DEF LogRow
<1>2. /\ IsPrefix(old.history, Append(old.history, changes + 1))
      /\ Append(old.history, changes + 1) \in Seq(Nat)
      /\ ToSet(Append(old.history, changes + 1)) = ToSet(old.history) \cup {changes + 1}
  BY <1>1, PrefixOfAppend, ChangesOfAppend
<1> QED BY <1>2 DEF Changed, LogRow

\* An edit of one record, or a new one: the table is continued, the change is in it.
LEMMA EditContinues ==
    ASSUME NEW t \in Logs, changes \in Nat, NEW s \in Session, NEW l \in Log,
           NEW deleted \in BOOLEAN, NEW old,
           old = IF l \in DOMAIN t THEN t[l] ELSE NewLog(s)
    PROVE  /\ Put(t, l, Changed(old, deleted)) \in Logs
           /\ Continued(t, Put(t, l, Changed(old, deleted)))
           /\ changes + 1 \in ChangesIn(Put(t, l, Changed(old, deleted)))
           /\ ChangesIn(t) \subseteq ChangesIn(Put(t, l, Changed(old, deleted)))
           /\ Changed(old, deleted).session = old.session
<1>1. NewLog(s) \in LogRow
  BY EmptySeq DEF NewLog, LogRow
<1>2. old \in LogRow
  BY <1>1, LogFacts
<1> DEFINE row == Changed(old, deleted)
<1>3. /\ row \in LogRow /\ row.session = old.session /\ IsPrefix(old.history, row.history)
      /\ changes + 1 \in ToSet(row.history)
  BY <1>2, ChangedRow
<1> HIDE DEF row
<1>4. Put(t, l, row) \in Logs
  BY <1>3, LogsKept
<1>5. /\ DOMAIN Put(t, l, row) = DOMAIN t \cup {l} /\ Put(t, l, row)[l] = row
      /\ \A x \in DOMAIN t \ {l} : Put(t, l, row)[x] = t[x]
  BY DEF Put
<1>6. Continued(t, Put(t, l, row))
  <2>1. ASSUME NEW x \in DOMAIN t
        PROVE  x \in DOMAIN Put(t, l, row)
               /\ IsPrefix(t[x].history, Put(t, l, row)[x].history)
    <3>1. CASE x = l
      BY <1>3, <1>5, <3>1
    <3>2. CASE x # l
      BY <1>5, <3>2, LogFacts, PrefixOfItself
    <3> QED BY <3>1, <3>2
  <2> QED BY <2>1 DEF Continued
<1>7. changes + 1 \in ChangesIn(Put(t, l, row))
  BY <1>3, <1>5, ChangeIsIn
<1>8. ChangesIn(t) \subseteq ChangesIn(Put(t, l, row))
  BY <1>4, <1>6, ChangesContinued
<1> QED BY <1>3, <1>4, <1>6, <1>7, <1>8 DEF row

-----------------------------------------------------------------------------
(* The invariant of the records *)

\* What a device keeps, and a row of a published Session.
Copy == [base : Nat, sessions : Sessions, logs : Logs]

RemoteRow == [status : {"initializing", "active", "closed", "deleted"}, logs : Logs]

\* The types of the variables of PersonalSnapshots.
PersonalTypes ==
    /\ changes \in Nat /\ seen \in Nat
    /\ snapshot.revision \in Nat /\ snapshot.sessions \in Sessions /\ snapshot.logs \in Logs
    /\ copies \in [Device -> Copy]
    /\ IsTable(remote, Session, RemoteRow)
    /\ IsTable(originals, Session, Logs)

\* A device knows no revision that is to come, and who knows the present one has
\* every change of it.
CopiesInv ==
    \A d \in Device :
        /\ copies[d].base <= snapshot.revision
        /\ copies[d].base = snapshot.revision =>
              ChangesIn(snapshot.logs) \subseteq ChangesIn(copies[d].logs)

\* A promoted Session has left the snapshot; what it had goes on elsewhere.
MovedInv ==
    \A s \in DOMAIN originals :
        /\ s \in DOMAIN remote /\ s \notin DOMAIN snapshot.sessions
        /\ Continued(Live(originals[s]), remote[s].logs)

\* The changes in published Sessions, and in originals.
RemoteChanges == UNION {ChangesIn(remote[s].logs) : s \in DOMAIN remote}

OriginalChanges == UNION {ChangesIn(originals[s]) : s \in DOMAIN originals}

\* What the server stored is in the snapshot, in a published Session or in an
\* original.
KeptInv == accepted \subseteq ChangesIn(snapshot.logs) \cup RemoteChanges \cup OriginalChanges

\* The invariant of the records.
PersonalInv == PersonalTypes /\ StoredIsValid /\ CopiesInv /\ MovedInv /\ KeptInv

\* Published records only change.
RemoteGrows ==
    \A s \in DOMAIN remote : s \in DOMAIN remote' /\ Continued(remote[s].logs, remote'[s].logs)

-----------------------------------------------------------------------------
(* The steps, by what they change *)

\* The invariant, as the proofs below use it.
LEMMA PersonalFacts ==
    ASSUME PersonalInv
    PROVE  /\ changes \in Nat /\ seen \in Nat /\ snapshot.revision \in Nat
           /\ snapshot.sessions \in Sessions /\ snapshot.logs \in Logs
           /\ \A d \in Device : /\ copies[d] \in Copy /\ copies[d].base \in Nat
                                /\ copies[d].sessions \in Sessions /\ copies[d].logs \in Logs
           /\ \A s \in DOMAIN remote : s \in Session /\ remote[s] \in RemoteRow
                                       /\ remote[s].logs \in Logs
           /\ \A s \in DOMAIN originals : s \in Session /\ originals[s] \in Logs
BY DEF PersonalInv, PersonalTypes, Copy, RemoteRow, IsTable

\* Published records that only change lose no change.
LEMMA RemoteChangesGrow ==
    ASSUME PersonalInv, RemoteGrows, IsTable(remote', Session, RemoteRow)
    PROVE  RemoteChanges \subseteq RemoteChanges'
<1>1. ASSUME NEW s \in DOMAIN remote
      PROVE  s \in DOMAIN remote' /\ ChangesIn(remote[s].logs) \subseteq ChangesIn(remote'[s].logs)
  <2>1. remote[s].logs \in Logs
    BY PersonalFacts
  <2>2. s \in DOMAIN remote' /\ Continued(remote[s].logs, remote'[s].logs)
    BY DEF RemoteGrows
  <2>3. remote'[s].logs \in Logs
    BY <2>2 DEF IsTable, RemoteRow
  <2> QED BY <2>1, <2>2, <2>3, ChangesContinued
<1> QED BY <1>1 DEF RemoteChanges

\* A step on published Sessions.
LEMMA RemoteKeeps ==
    ASSUME PersonalInv, RemoteGrows, IsTable(remote', Session, RemoteRow),
           UNCHANGED <<snapshot, copies, seen, originals>>, changes' \in Nat,
           accepted' \subseteq accepted \cup RemoteChanges'
    PROVE  PersonalInv'
<1>1. PersonalTypes'
  BY DEF PersonalInv, PersonalTypes
<1>2. StoredIsValid' /\ CopiesInv'
  BY DEF PersonalInv, StoredIsValid, CopiesInv
<1>3. MovedInv'
  <2>1. ASSUME NEW s \in DOMAIN originals
        PROVE  s \in DOMAIN remote' /\ Continued(Live(originals[s]), remote'[s].logs)
    <3>1. s \in DOMAIN remote /\ Continued(Live(originals[s]), remote[s].logs)
      BY DEF PersonalInv, MovedInv
    <3>2. s \in DOMAIN remote' /\ Continued(remote[s].logs, remote'[s].logs)
      BY <3>1 DEF RemoteGrows
    <3>3. Live(originals[s]) \in Logs /\ remote[s].logs \in Logs
      BY <3>1, PersonalFacts, LogsKept
    <3>4. remote'[s].logs \in Logs
      BY <3>2 DEF IsTable, RemoteRow
    <3> QED BY <3>1, <3>2, <3>3, <3>4, ContinuedOn
  <2> QED BY <2>1 DEF PersonalInv, MovedInv
<1>4. KeptInv'
  BY RemoteChangesGrow DEF PersonalInv, KeptInv, OriginalChanges
<1> QED BY <1>1, <1>2, <1>3, <1>4 DEF PersonalInv

\* A step on the copies of the devices.
LEMMA CopiesKeep ==
    ASSUME PersonalInv, UNCHANGED <<snapshot, seen, remote, originals, accepted>>,
           changes' \in Nat, copies' \in [Device -> Copy],
           \A d \in Device :
              \/ copies'[d].base = copies[d].base
                 /\ ChangesIn(copies[d].logs) \subseteq ChangesIn(copies'[d].logs)
              \/ copies'[d].base = snapshot.revision
                 /\ ChangesIn(snapshot.logs) \subseteq ChangesIn(copies'[d].logs)
    PROVE  PersonalInv'
<1>1. PersonalTypes'
  BY DEF PersonalInv, PersonalTypes
<1>2. StoredIsValid' /\ MovedInv' /\ KeptInv'
  BY DEF PersonalInv, StoredIsValid, MovedInv, KeptInv, RemoteChanges, OriginalChanges
<1>3. CopiesInv'
  <2>1. snapshot.revision \in Nat
    BY PersonalFacts
  <2> QED BY <2>1 DEF PersonalInv, CopiesInv
<1> QED BY <1>1, <1>2, <1>3 DEF PersonalInv

\* The row that is written next.
LEMMA NextSnapshotFacts ==
    ASSUME PersonalInv, NEW sessions \in Sessions, NEW logs \in Logs,
           ValidSnapshot(sessions, logs), snapshot' = NextSnapshot(sessions, logs)
    PROVE  /\ snapshot'.revision = snapshot.revision + 1
           /\ snapshot'.sessions = sessions /\ snapshot'.logs = logs
           /\ StoredIsValid'
           /\ \A d \in Device : copies[d].base < snapshot'.revision
<1>1. /\ snapshot'.revision = snapshot.revision + 1
      /\ snapshot'.sessions = sessions /\ snapshot'.logs = logs
  BY DEF NextSnapshot
<1>2. StoredIsValid'
  BY <1>1 DEF NextSnapshot, StoredIsValid, ValidSnapshot
<1>3. \A d \in Device : copies[d].base < snapshot'.revision
  <2>1. snapshot.revision \in Nat /\ \A d \in Device : copies[d].base \in Nat
    BY PersonalFacts
  <2>2. \A d \in Device : copies[d].base <= snapshot.revision
    BY DEF PersonalInv, CopiesInv
  <2> QED BY <1>1, <2>1, <2>2
<1> QED BY <1>1, <1>2, <1>3

\* Another row in the place of the snapshot, which has every change of it.
LEMMA SnapshotKeeps ==
    ASSUME PersonalInv, NEW sessions \in Sessions, NEW logs \in Logs,
           ValidSnapshot(sessions, logs), snapshot' = NextSnapshot(sessions, logs),
           \A s \in DOMAIN sessions : s \notin DOMAIN originals,
           ChangesIn(snapshot.logs) \subseteq ChangesIn(logs),
           UNCHANGED <<remote, originals>>, changes' \in Nat, seen' \in Nat,
           accepted' \subseteq accepted \cup ChangesIn(logs),
           copies' \in [Device -> Copy],
           \A d \in Device : \/ copies'[d] = copies[d]
                             \/ copies'[d].base = snapshot'.revision /\ copies'[d].logs = logs
    PROVE  PersonalInv'
<1>1. /\ snapshot'.revision = snapshot.revision + 1 /\ snapshot.revision \in Nat
      /\ snapshot'.sessions = sessions /\ snapshot'.logs = logs
      /\ StoredIsValid'
      /\ \A d \in Device : copies[d].base < snapshot'.revision /\ copies[d].base \in Nat
  BY NextSnapshotFacts, PersonalFacts
<1>2. PersonalTypes'
  BY <1>1 DEF PersonalInv, PersonalTypes
<1>3. CopiesInv'
  BY <1>1 DEF CopiesInv
<1>4. MovedInv'
  BY <1>1 DEF PersonalInv, MovedInv
<1>5. KeptInv'
  BY <1>1 DEF PersonalInv, KeptInv, RemoteChanges, OriginalChanges
<1> QED BY <1>1, <1>2, <1>3, <1>4, <1>5 DEF PersonalInv

-----------------------------------------------------------------------------
(* Devices and the snapshot *)

\* No table: of records, of Sessions.
LEMMA NothingYet == NoRows \in Logs /\ NoRows \in Sessions /\ ChangesIn(NoRows) = {}
<1>1. NoRows \in [{} -> LogRow] /\ NoRows \in [{} -> Status] /\ DOMAIN NoRows = {}
  BY DEF NoRows
<1>2. {} \in SUBSET Log /\ {} \in SUBSET Session
  OBVIOUS
<1>3. NoRows \in Logs
  BY <1>1, <1>2 DEF Logs
<1>4. NoRows \in Sessions
  BY <1>1, <1>2 DEF Sessions
<1>5. ChangesIn(NoRows) = {}
  BY <1>1 DEF ChangesIn
<1> QED BY <1>3, <1>4, <1>5

\* A device edits its copy: it has more changes than before.
LEMMA EditCopyKeeps ==
    ASSUME PersonalInv, NEW d \in Device, NEW s \in Session, NEW l \in Log,
           NEW deleted \in BOOLEAN, EditCopy(d, s, l, deleted)
    PROVE  PersonalInv'
<1>1. /\ changes \in Nat /\ copies[d].logs \in Logs /\ copies[d] \in Copy
      /\ copies \in [Device -> Copy]
  BY PersonalFacts DEF PersonalInv, PersonalTypes
<1>2. PICK old : old = IF l \in DOMAIN copies[d].logs THEN copies[d].logs[l] ELSE NewLog(s)
  OBVIOUS
<1>3. PICK new : new = Put(copies[d].logs, l, Changed(old, deleted))
  OBVIOUS
<1>4. /\ copies' = [copies EXCEPT ![d].logs = new]
      /\ changes' = changes + 1
      /\ UNCHANGED <<snapshot, seen, remote, originals, accepted>>
  BY <1>2, <1>3 DEF EditCopy
<1>5. new \in Logs /\ ChangesIn(copies[d].logs) \subseteq ChangesIn(new)
  BY <1>1, <1>2, <1>3, EditContinues
<1>6. [copies[d] EXCEPT !.logs = new] \in Copy
  BY <1>1, <1>5 DEF Copy
<1>7. copies' \in [Device -> Copy]
  BY <1>1, <1>4, <1>6
<1>8. /\ copies'[d].base = copies[d].base /\ copies'[d].logs = new
      /\ \A e \in Device \ {d} : copies'[e] = copies[e]
  BY <1>1, <1>4 DEF Copy
<1>9. \A e \in Device : /\ copies'[e].base = copies[e].base
                        /\ ChangesIn(copies[e].logs) \subseteq ChangesIn(copies'[e].logs)
  BY <1>5, <1>8
<1>10. changes' \in Nat
  BY <1>1, <1>4
<1> QED BY <1>4, <1>7, <1>9, <1>10, CopiesKeep

\* A device closes a Session or opens it again.
LEMMA SetStatusKeeps ==
    ASSUME PersonalInv, NEW d \in Device, NEW s \in Session, NEW status \in Status,
           SetStatus(d, s, status)
    PROVE  PersonalInv'
<1>1. /\ changes \in Nat /\ copies[d].sessions \in Sessions /\ copies[d] \in Copy
      /\ copies \in [Device -> Copy]
  BY PersonalFacts DEF PersonalInv, PersonalTypes
<1>2. /\ copies' = [copies EXCEPT ![d].sessions[s] = status]
      /\ changes' = changes + 1
      /\ s \in DOMAIN copies[d].sessions
      /\ UNCHANGED <<snapshot, seen, remote, originals, accepted>>
  BY DEF SetStatus
<1>3. PICK new : new = [copies[d].sessions EXCEPT ![s] = status]
  OBVIOUS
<1>4. new \in Sessions
  BY <1>1, <1>3, SessionsMeans
<1>5. copies' = [copies EXCEPT ![d] = [copies[d] EXCEPT !.sessions = new]]
  BY <1>1, <1>2, <1>3
<1>6. [copies[d] EXCEPT !.sessions = new] \in Copy
  BY <1>1, <1>4 DEF Copy
<1>7. copies' \in [Device -> Copy]
  BY <1>1, <1>5, <1>6
<1>8. \A e \in Device : copies'[e].base = copies[e].base /\ copies'[e].logs = copies[e].logs
  BY <1>1, <1>5 DEF Copy
<1>9. changes' \in Nat
  BY <1>1, <1>2
<1> QED BY <1>2, <1>7, <1>8, <1>9, CopiesKeep

\* A device that downloads has every change of the snapshot.
LEMMA DownloadKeeps ==
    ASSUME PersonalInv, NEW d \in Device, NEW keep \in BOOLEAN, Download(d, keep)
    PROVE  PersonalInv'
<1>1. /\ changes \in Nat /\ copies[d].sessions \in Sessions /\ copies[d] \in Copy
      /\ copies[d].logs \in Logs /\ copies \in [Device -> Copy]
      /\ snapshot.revision \in Nat /\ snapshot.sessions \in Sessions /\ snapshot.logs \in Logs
  BY PersonalFacts DEF PersonalInv, PersonalTypes
<1>2. PICK sessions :
        sessions = [x \in DOMAIN snapshot.sessions
                           \cup (IF keep THEN DOMAIN copies[d].sessions ELSE {}) |->
                      IF x \in DOMAIN snapshot.sessions THEN snapshot.sessions[x]
                                                        ELSE copies[d].sessions[x]]
  OBVIOUS
<1>3. PICK logs :
        logs = [x \in DOMAIN snapshot.logs \cup (IF keep THEN DOMAIN copies[d].logs ELSE {}) |->
                  IF x \in DOMAIN snapshot.logs THEN snapshot.logs[x] ELSE copies[d].logs[x]]
  OBVIOUS
<1>4. /\ copies' = [copies EXCEPT ![d] =
                      [base |-> snapshot.revision, sessions |-> sessions, logs |-> logs]]
      /\ UNCHANGED <<changes, snapshot, seen, remote, originals, accepted>>
  BY <1>1, <1>2, <1>3 DEF Download
<1>5. sessions \in Sessions
  <2>1. /\ snapshot.sessions \in [DOMAIN snapshot.sessions -> Status]
        /\ DOMAIN snapshot.sessions \subseteq Session
        /\ copies[d].sessions \in [DOMAIN copies[d].sessions -> Status]
        /\ DOMAIN copies[d].sessions \subseteq Session
    BY <1>1, SessionsMeans
  <2>2. sessions \in [DOMAIN sessions -> Status] /\ DOMAIN sessions \subseteq Session
    BY <1>2, <2>1
  <2> QED BY <2>2, SessionsMeans
<1>6. logs \in Logs
  <2>1. /\ snapshot.logs \in [DOMAIN snapshot.logs -> LogRow]
        /\ DOMAIN snapshot.logs \subseteq Log
        /\ copies[d].logs \in [DOMAIN copies[d].logs -> LogRow]
        /\ DOMAIN copies[d].logs \subseteq Log
    BY <1>1, LogsMeans
  <2>2. logs \in [DOMAIN logs -> LogRow] /\ DOMAIN logs \subseteq Log
    BY <1>3, <2>1
  <2> QED BY <2>2, LogsMeans
<1>7. ChangesIn(snapshot.logs) \subseteq ChangesIn(logs)
  <2>1. \A l \in DOMAIN snapshot.logs : l \in DOMAIN logs /\ logs[l] = snapshot.logs[l]
    BY <1>3
  <2> QED BY <2>1, ChangeIsIn
<1>8. copies' \in [Device -> Copy]
  BY <1>1, <1>4, <1>5, <1>6 DEF Copy
<1>9. /\ copies'[d].base = snapshot.revision /\ copies'[d].logs = logs
      /\ \A e \in Device \ {d} : copies'[e] = copies[e]
  BY <1>1, <1>4
<1>10. changes' \in Nat
  BY <1>1, <1>4
<1>11. \A e \in Device :
          \/ copies'[e].base = copies[e].base
             /\ ChangesIn(copies[e].logs) \subseteq ChangesIn(copies'[e].logs)
          \/ copies'[e].base = snapshot.revision
             /\ ChangesIn(snapshot.logs) \subseteq ChangesIn(copies'[e].logs)
  BY <1>7, <1>9
<1> QED BY <1>4, <1>8, <1>10, <1>11, CopiesKeep

\* A device replaces the snapshot: it knew the present revision, so it has its changes.
LEMMA ReplaceSnapshotKeeps ==
    ASSUME PersonalInv, NEW d \in Device, NEW answered \in BOOLEAN, ReplaceSnapshot(d, answered)
    PROVE  PersonalInv'
<1>1. /\ changes \in Nat /\ seen \in Nat /\ copies[d].sessions \in Sessions /\ copies[d] \in Copy
      /\ copies[d].logs \in Logs /\ copies \in [Device -> Copy]
      /\ snapshot.revision \in Nat
  BY PersonalFacts DEF PersonalInv, PersonalTypes
<1>2. PICK sessions, logs : sessions = copies[d].sessions /\ logs = copies[d].logs
  OBVIOUS
<1>3. /\ copies[d].base = snapshot.revision
      /\ ValidSnapshot(sessions, logs)
      /\ \A s \in DOMAIN sessions : s \notin DOMAIN originals
      /\ snapshot' = NextSnapshot(sessions, logs)
      /\ accepted' = accepted \cup ChangesIn(logs)
      /\ UNCHANGED <<changes, seen, remote, originals>>
  BY <1>2 DEF ReplaceSnapshot, BasedOnPresent, NonePromoted, Promoted
<1>4. copies' = [copies EXCEPT ![d].base = snapshot'.revision] \/ copies' = copies
  BY DEF ReplaceSnapshot
<1>5. ChangesIn(snapshot.logs) \subseteq ChangesIn(logs)
  BY <1>2, <1>3 DEF PersonalInv, CopiesInv
<1>6. snapshot'.revision \in Nat
  BY <1>1, <1>2, <1>3, NextSnapshotFacts
<1>7. copies' \in [Device -> Copy]
  BY <1>1, <1>4, <1>6 DEF Copy
<1>8. \A e \in Device : \/ copies'[e] = copies[e]
                        \/ copies'[e].base = snapshot'.revision /\ copies'[e].logs = logs
  BY <1>1, <1>2, <1>4 DEF Copy
<1>9. changes' \in Nat /\ seen' \in Nat
  BY <1>1, <1>3
<1> QED BY <1>1, <1>2, <1>3, <1>5, <1>7, <1>8, <1>9, SnapshotKeeps

\* A grantee looks.
LEMMA SeeSharedKeeps ==
    ASSUME PersonalInv, SeeShared
    PROVE  PersonalInv'
<1>1. /\ seen' \in Nat
      /\ UNCHANGED <<changes, snapshot, copies, remote, originals, accepted>>
  BY PersonalFacts DEF SeeShared
<1> QED BY <1>1 DEF PersonalInv, PersonalTypes, StoredIsValid, CopiesInv, MovedInv, KeptInv,
                    RemoteChanges, OriginalChanges

\* A grantee edits the snapshot itself.
LEMMA EditSharedKeeps ==
    ASSUME PersonalInv, NEW s \in Session, NEW l \in Log, NEW deleted \in BOOLEAN,
           EditShared(s, l, deleted)
    PROVE  PersonalInv'
<1>1. /\ changes \in Nat /\ snapshot.logs \in Logs /\ snapshot.sessions \in Sessions
      /\ snapshot.revision \in Nat /\ copies \in [Device -> Copy]
  BY PersonalFacts DEF PersonalInv, PersonalTypes
<1>2. PICK old : old = IF l \in DOMAIN snapshot.logs THEN snapshot.logs[l] ELSE NewLog(s)
  OBVIOUS
<1>3. PICK new : new = Put(snapshot.logs, l, Changed(old, deleted))
  OBVIOUS
<1>4. /\ snapshot' = NextSnapshot(snapshot.sessions, new)
      /\ changes' = changes + 1 /\ seen' = snapshot'.revision
      /\ accepted' = accepted \cup {changes'}
      /\ UNCHANGED <<copies, remote, originals>>
      /\ s \in DOMAIN snapshot.sessions
  BY <1>2, <1>3 DEF EditShared, SharedToEdit
<1>5. /\ new \in Logs /\ ChangesIn(snapshot.logs) \subseteq ChangesIn(new)
      /\ changes + 1 \in ChangesIn(new) /\ Changed(old, deleted).session = old.session
  BY <1>1, <1>2, <1>3, EditContinues
<1>6. ValidSnapshot(snapshot.sessions, new)
  <2>1. ValidSnapshot(snapshot.sessions, snapshot.logs)
    BY DEF PersonalInv, StoredIsValid
  <2>2. old.session \in DOMAIN snapshot.sessions
    BY <1>2, <1>4, <2>1 DEF ValidSnapshot, NewLog
  <2> QED BY <1>3, <1>5, <2>1, <2>2 DEF ValidSnapshot, Put
<1>7. \A x \in DOMAIN snapshot.sessions : x \notin DOMAIN originals
  BY DEF PersonalInv, MovedInv
<1>8. snapshot'.revision \in Nat
  BY <1>1, <1>4, <1>5, <1>6, NextSnapshotFacts
<1>9. changes' \in Nat /\ seen' \in Nat /\ accepted' \subseteq accepted \cup ChangesIn(new)
  BY <1>1, <1>4, <1>5, <1>8
<1>10. copies' \in [Device -> Copy] /\ \A e \in Device : copies'[e] = copies[e]
  BY <1>1, <1>4
<1> QED BY <1>1, <1>4, <1>5, <1>6, <1>7, <1>9, <1>10, SnapshotKeeps

\* One published Session is replaced by one with the same records or more.
LEMMA RemoteRowGrows ==
    ASSUME PersonalInv, NEW s \in Session, NEW row \in RemoteRow,
           remote' = Put(remote, s, row),
           s \in DOMAIN remote => Continued(remote[s].logs, row.logs)
    PROVE  RemoteGrows /\ IsTable(remote', Session, RemoteRow)
<1>1. IsTable(remote, Session, RemoteRow)
  BY DEF PersonalInv, PersonalTypes
<1>2. IsTable(remote', Session, RemoteRow)
  BY <1>1, PutIsTable
<1>3. ASSUME NEW x \in DOMAIN remote
      PROVE  x \in DOMAIN remote' /\ Continued(remote[x].logs, remote'[x].logs)
  <2>1. x \in DOMAIN remote' /\ remote'[x] = IF x = s THEN row ELSE remote[x]
    BY RowsAfterPut DEF Put
  <2>2. Continued(remote[x].logs, remote[x].logs)
    BY PersonalFacts, ContinuedSame
  <2> QED BY <2>1, <2>2
<1> QED BY <1>2, <1>3 DEF RemoteGrows

\* An EXCEPT of a row that is there.
LEMMA ExceptIsPut ==
    ASSUME NEW s \in DOMAIN remote, NEW row,
           PersonalInv, remote' = [remote EXCEPT ![s] = row]
    PROVE  remote' = Put(remote, s, row)
<1>1. remote \in [DOMAIN remote -> RemoteRow]
  BY DEF PersonalInv, PersonalTypes, IsTable
<1> QED BY <1>1 DEF Put

\* New records in one published Session.
LEMMA RemoteLogsGrow ==
    ASSUME PersonalInv, NEW s \in DOMAIN remote, NEW logs \in Logs,
           remote' = [remote EXCEPT ![s].logs = logs], Continued(remote[s].logs, logs)
    PROVE  /\ RemoteGrows /\ IsTable(remote', Session, RemoteRow)
           /\ ChangesIn(logs) \subseteq RemoteChanges'
<1>1. s \in Session /\ remote[s] \in RemoteRow
  BY PersonalFacts
<1>2. PICK row : row = [remote[s] EXCEPT !.logs = logs]
  OBVIOUS
<1>3. row \in RemoteRow /\ row.logs = logs
  BY <1>1, <1>2 DEF RemoteRow
<1>4. remote' = [remote EXCEPT ![s] = row]
  BY <1>2
<1>5. remote' = Put(remote, s, row)
  BY <1>4, ExceptIsPut
<1>6. RemoteGrows /\ IsTable(remote', Session, RemoteRow)
  BY <1>1, <1>3, <1>5, RemoteRowGrows
<1>7. s \in DOMAIN remote' /\ remote'[s] = row
  BY <1>5 DEF Put
<1> QED BY <1>3, <1>6, <1>7 DEF RemoteChanges

\* The status of one published Session.
LEMMA RemoteStatusGrows ==
    ASSUME PersonalInv, NEW s \in DOMAIN remote,
           NEW status \in {"initializing", "active", "closed", "deleted"},
           remote' = [remote EXCEPT ![s].status = status]
    PROVE  /\ RemoteGrows /\ IsTable(remote', Session, RemoteRow)
           /\ s \in DOMAIN remote' /\ remote'[s].logs = remote[s].logs
<1>1. s \in Session /\ remote[s] \in RemoteRow /\ remote[s].logs \in Logs
  BY PersonalFacts
<1>2. PICK row : row = [remote[s] EXCEPT !.status = status]
  OBVIOUS
<1>3. row \in RemoteRow /\ row.logs = remote[s].logs
  BY <1>1, <1>2 DEF RemoteRow
<1>4. remote' = [remote EXCEPT ![s] = row]
  BY <1>2
<1>5. remote' = Put(remote, s, row)
  BY <1>4, ExceptIsPut
<1>6. Continued(remote[s].logs, row.logs)
  BY <1>1, <1>3, ContinuedSame
<1>7. RemoteGrows /\ IsTable(remote', Session, RemoteRow)
  BY <1>1, <1>3, <1>5, <1>6, RemoteRowGrows
<1> QED BY <1>3, <1>5, <1>7 DEF Put

-----------------------------------------------------------------------------
(* Publications *)

\* A publication begins.
LEMMA CreateSessionKeeps ==
    ASSUME PersonalInv, NEW d \in Device, NEW s \in Session, CreateSession(d, s)
    PROVE  PersonalInv' /\ RemoteGrows
<1>1. PICK row : row = [status |-> "initializing", logs |-> NoRows]
  OBVIOUS
<1>2. row \in RemoteRow
  BY <1>1, NothingYet DEF RemoteRow
<1>3. /\ s \notin DOMAIN remote /\ remote' = Put(remote, s, row)
      /\ UNCHANGED <<changes, snapshot, copies, seen, originals, accepted>>
  BY <1>1 DEF CreateSession
<1>4. RemoteGrows /\ IsTable(remote', Session, RemoteRow)
  BY <1>2, <1>3, RemoteRowGrows
<1>5. changes' \in Nat
  BY <1>3, PersonalFacts
<1> QED BY <1>3, <1>4, <1>5, RemoteKeeps

\* A record is uploaded for a publication.
LEMMA BootstrapLogKeeps ==
    ASSUME PersonalInv, NEW d \in Device, NEW s \in Session, NEW l \in Log,
           BootstrapLog(d, s, l)
    PROVE  PersonalInv' /\ RemoteGrows
<1>1. copies[d].logs \in Logs /\ changes \in Nat
  BY PersonalFacts
<1>2. /\ s \in DOMAIN remote /\ l \notin DOMAIN remote[s].logs
      /\ l \in DOMAIN copies[d].logs
      /\ accepted' = accepted \cup ToSet(copies[d].logs[l].history)
      /\ UNCHANGED <<changes, snapshot, copies, seen, originals>>
  BY DEF BootstrapLog, Live, LogsOf, Restrict
<1>3. PICK new : new = Put(remote[s].logs, l, copies[d].logs[l])
  OBVIOUS
<1>4. remote' = [remote EXCEPT ![s].logs = new]
  BY <1>3 DEF BootstrapLog
<1>5. remote[s].logs \in Logs /\ copies[d].logs[l] \in LogRow
  BY <1>1, <1>2, PersonalFacts, LogFacts
<1>6. new \in Logs
  BY <1>3, <1>5, LogsKept
<1>7. Continued(remote[s].logs, new)
  <2>1. ASSUME NEW x \in DOMAIN remote[s].logs
        PROVE  x \in DOMAIN new /\ new[x] = remote[s].logs[x]
    BY <1>2, <1>3 DEF Put
  <2> QED BY <1>5, <2>1, ContinuedSame DEF Continued
<1>8. RemoteGrows /\ IsTable(remote', Session, RemoteRow) /\ ChangesIn(new) \subseteq RemoteChanges'
  BY <1>2, <1>4, <1>6, <1>7, RemoteLogsGrow
<1>9. ToSet(copies[d].logs[l].history) \subseteq ChangesIn(new)
  <2>1. l \in DOMAIN new /\ new[l] = copies[d].logs[l]
    BY <1>3 DEF Put
  <2> QED BY <2>1, ChangeIsIn
<1>10. changes' \in Nat /\ accepted' \subseteq accepted \cup RemoteChanges'
  BY <1>1, <1>2, <1>8, <1>9
<1> QED BY <1>2, <1>8, <1>10, RemoteKeeps

\* A published record is changed.
LEMMA EditRemoteKeeps ==
    ASSUME PersonalInv, NEW s \in Session, NEW l \in Log, NEW deleted \in BOOLEAN,
           EditRemote(s, l, deleted)
    PROVE  PersonalInv' /\ RemoteGrows
<1>1. changes \in Nat
  BY PersonalFacts
<1>2. s \in DOMAIN remote
  BY DEF EditRemote
<1>3. remote[s].logs \in Logs
  BY <1>2, PersonalFacts
<1>4. PICK old : old = IF l \in DOMAIN remote[s].logs THEN remote[s].logs[l] ELSE NewLog(s)
  OBVIOUS
<1>5. PICK new : new = Put(remote[s].logs, l, Changed(old, deleted))
  OBVIOUS
<1>6. /\ remote' = [remote EXCEPT ![s].logs = new]
      /\ changes' = changes + 1 /\ accepted' = accepted \cup {changes'}
      /\ UNCHANGED <<snapshot, copies, seen, originals>>
  BY <1>4, <1>5 DEF EditRemote
<1>7. new \in Logs /\ Continued(remote[s].logs, new) /\ changes + 1 \in ChangesIn(new)
  BY <1>1, <1>3, <1>4, <1>5, EditContinues
<1>8. RemoteGrows /\ IsTable(remote', Session, RemoteRow) /\ ChangesIn(new) \subseteq RemoteChanges'
  BY <1>2, <1>6, <1>7, RemoteLogsGrow
<1>9. changes' \in Nat /\ accepted' \subseteq accepted \cup RemoteChanges'
  BY <1>1, <1>6, <1>7, <1>8
<1> QED BY <1>6, <1>8, <1>9, RemoteKeeps

\* A published Session is closed, opened again or deleted.
LEMMA ChangeRemoteStatusKeeps ==
    ASSUME PersonalInv, NEW s \in Session, NEW status \in {"active", "closed", "deleted"},
           ChangeRemoteStatus(s, status)
    PROVE  PersonalInv' /\ RemoteGrows
<1>1. /\ s \in DOMAIN remote /\ remote' = [remote EXCEPT ![s].status = status]
      /\ UNCHANGED <<changes, snapshot, copies, seen, originals, accepted>>
  BY DEF ChangeRemoteStatus
<1>2. RemoteGrows /\ IsTable(remote', Session, RemoteRow)
  BY <1>1, RemoteStatusGrows
<1>3. changes' \in Nat
  BY <1>1, PersonalFacts
<1> QED BY <1>1, <1>2, <1>3, RemoteKeeps

-----------------------------------------------------------------------------
(* The promotion *)

\* The records of a Session, and the others.
LEMMA LogsOfAndOthers ==
    ASSUME NEW logs \in Logs, NEW s,
           NEW rest, rest = Without(logs, DOMAIN LogsOf(logs, s))
    PROVE  /\ rest \in Logs /\ LogsOf(logs, s) \in Logs
           /\ \A l \in DOMAIN rest : l \in DOMAIN logs /\ rest[l] = logs[l] /\ logs[l].session # s
           /\ ChangesIn(logs) = ChangesIn(rest) \cup ChangesIn(LogsOf(logs, s))
<1>1. rest \in Logs /\ LogsOf(logs, s) \in Logs
  BY LogsKept
<1>2. /\ DOMAIN LogsOf(logs, s) = {l \in DOMAIN logs : logs[l].session = s}
      /\ \A l \in DOMAIN LogsOf(logs, s) : LogsOf(logs, s)[l] = logs[l]
  BY DEF LogsOf, Restrict
<1>3. /\ DOMAIN rest = DOMAIN logs \ DOMAIN LogsOf(logs, s)
      /\ \A l \in DOMAIN rest : rest[l] = logs[l]
  BY RowsAfterWithout DEF Without, Restrict
<1>4. DOMAIN rest \cup DOMAIN LogsOf(logs, s) = DOMAIN logs
  BY <1>2, <1>3
<1>5. PICK mine : mine = LogsOf(logs, s)
  OBVIOUS
<1>6. ASSUME NEW c
      PROVE  c \in ChangesIn(logs) <=> c \in ChangesIn(rest) \/ c \in ChangesIn(mine)
  <2>1. /\ c \in ChangesIn(logs) <=> \E l \in DOMAIN logs : c \in ToSet(logs[l].history)
        /\ c \in ChangesIn(rest) <=> \E l \in DOMAIN rest : c \in ToSet(rest[l].history)
        /\ c \in ChangesIn(mine) <=> \E l \in DOMAIN mine : c \in ToSet(mine[l].history)
    BY ChangeIsIn
  <2> QED BY <1>2, <1>3, <1>4, <1>5, <2>1
<1>7. ChangesIn(logs) = ChangesIn(rest) \cup ChangesIn(mine)
  BY <1>6
<1> QED BY <1>1, <1>2, <1>3, <1>5, <1>7

\* Session s is promoted with its published records complete.
LEMMA PromotionKeeps ==
    ASSUME PersonalInv, NEW s \in DOMAIN remote, s \notin DOMAIN originals,
           remote[s].logs = Live(LogsOf(snapshot.logs, s)),
           originals' = Put(originals, s, LogsOf(snapshot.logs, s)),
           snapshot' = WithoutSession(s),
           RemoteGrows, IsTable(remote', Session, RemoteRow),
           s \in DOMAIN remote', remote'[s].logs = remote[s].logs,
           UNCHANGED <<changes, copies, seen, accepted>>
    PROVE  PersonalInv'
<1>1. /\ snapshot.logs \in Logs /\ snapshot.sessions \in Sessions /\ snapshot.revision \in Nat
      /\ s \in Session
  BY PersonalFacts
<1>2. PICK sessions : sessions = Without(snapshot.sessions, {s})
  OBVIOUS
<1>3. PICK logs : logs = Without(snapshot.logs, DOMAIN LogsOf(snapshot.logs, s))
  OBVIOUS
<1>4. PICK mine : mine = LogsOf(snapshot.logs, s)
  OBVIOUS
<1>5. snapshot' = NextSnapshot(sessions, logs)
  BY <1>2, <1>3 DEF WithoutSession
<1>6. /\ DOMAIN sessions = DOMAIN snapshot.sessions \ {s}
      /\ \A x \in DOMAIN sessions : sessions[x] = snapshot.sessions[x]
  BY <1>2, RowsAfterWithout DEF Without, Restrict
<1>7. sessions \in Sessions
  <2>1. sessions \in [DOMAIN sessions -> Status] /\ DOMAIN sessions \subseteq Session
    <3>1. /\ snapshot.sessions \in [DOMAIN snapshot.sessions -> Status]
          /\ DOMAIN snapshot.sessions \subseteq Session
      BY <1>1, SessionsMeans
    <3>2. sessions = [x \in DOMAIN sessions |-> sessions[x]]
      BY <1>2 DEF Without, Restrict
    <3> QED BY <1>6, <3>1, <3>2
  <2> QED BY <2>1, SessionsMeans
<1>8. /\ logs \in Logs /\ mine \in Logs
      /\ \A l \in DOMAIN logs : /\ l \in DOMAIN snapshot.logs /\ logs[l] = snapshot.logs[l]
                                /\ logs[l].session # s
      /\ ChangesIn(snapshot.logs) = ChangesIn(logs) \cup ChangesIn(mine)
  BY <1>1, <1>3, <1>4, LogsOfAndOthers
<1>9. ValidSnapshot(sessions, logs)
  BY <1>6, <1>8 DEF PersonalInv, StoredIsValid, ValidSnapshot
<1>10. /\ snapshot'.revision = snapshot.revision + 1
       /\ snapshot'.sessions = sessions /\ snapshot'.logs = logs /\ StoredIsValid'
       /\ \A d \in Device : copies[d].base < snapshot'.revision /\ copies[d].base \in Nat
  BY <1>5, <1>7, <1>8, <1>9, NextSnapshotFacts, PersonalFacts
<1>11. /\ DOMAIN originals' = DOMAIN originals \cup {s} /\ originals'[s] = mine
       /\ \A x \in DOMAIN originals : originals'[x] = originals[x]
  BY <1>4 DEF Put
<1>12. IsTable(originals', Session, Logs)
  BY <1>1, <1>4, <1>8, PutIsTable DEF PersonalInv, PersonalTypes
<1>13. PersonalTypes'
  BY <1>1, <1>7, <1>8, <1>10, <1>12 DEF PersonalInv, PersonalTypes
<1>14. CopiesInv'
  BY <1>1, <1>10 DEF CopiesInv
<1>15. MovedInv'
  <2>1. ASSUME NEW x \in DOMAIN originals
        PROVE  /\ x \in DOMAIN remote' /\ x \notin DOMAIN snapshot'.sessions
               /\ Continued(Live(originals'[x]), remote'[x].logs)
    <3>1. /\ x \in DOMAIN remote /\ x \notin DOMAIN snapshot.sessions
          /\ Continued(Live(originals[x]), remote[x].logs)
      BY DEF PersonalInv, MovedInv
    <3>2. x \in DOMAIN remote' /\ Continued(remote[x].logs, remote'[x].logs)
      BY <3>1 DEF RemoteGrows
    <3>3. Live(originals[x]) \in Logs /\ remote[x].logs \in Logs
      BY <3>1, PersonalFacts, LogsKept
    <3>4. remote'[x].logs \in Logs
      BY <3>2 DEF IsTable, RemoteRow
    <3> QED BY <1>6, <1>10, <1>11, <3>1, <3>2, <3>3, <3>4, ContinuedOn
  <2>2. /\ s \in DOMAIN remote' /\ s \notin DOMAIN snapshot'.sessions
        /\ Continued(Live(originals'[s]), remote'[s].logs)
    <3>1. remote'[s].logs = Live(mine) /\ Live(mine) \in Logs
      BY <1>4, <1>8, LogsKept
    <3> QED BY <1>6, <1>10, <1>11, <3>1, ContinuedSame
  <2> QED BY <1>11, <2>1, <2>2 DEF MovedInv
<1>16. KeptInv'
  <2>1. RemoteChanges \subseteq RemoteChanges'
    BY RemoteChangesGrow
  <2>2. OriginalChanges \subseteq OriginalChanges' /\ ChangesIn(mine) \subseteq OriginalChanges'
    BY <1>11 DEF OriginalChanges
  <2> QED BY <1>8, <1>10, <2>1, <2>2 DEF PersonalInv, KeptInv
<1> QED BY <1>10, <1>13, <1>14, <1>15, <1>16 DEF PersonalInv

\* The activation of a published Session, as a promotion or not.
LEMMA ActivateKeeps ==
    ASSUME PersonalInv, NEW d \in Device, NEW s \in Session, NEW promote \in BOOLEAN,
           Activate(d, s, promote)
    PROVE  PersonalInv' /\ RemoteGrows
<1>1. /\ s \in DOMAIN remote /\ remote' = [remote EXCEPT ![s].status = "active"]
      /\ UNCHANGED <<changes, copies, seen, accepted>>
  BY DEF Activate
<1>2. /\ RemoteGrows /\ IsTable(remote', Session, RemoteRow)
      /\ s \in DOMAIN remote' /\ remote'[s].logs = remote[s].logs
  BY <1>1, RemoteStatusGrows
<1>3. CASE UNCHANGED <<snapshot, originals>>
  <2>1. changes' \in Nat
    BY <1>1, PersonalFacts
  <2> QED BY <1>1, <1>2, <1>3, <2>1, RemoteKeeps
<1>4. CASE /\ s \notin DOMAIN originals
           /\ remote[s].logs = Live(LogsOf(snapshot.logs, s))
           /\ originals' = Put(originals, s, LogsOf(snapshot.logs, s))
           /\ snapshot' = WithoutSession(s)
  BY <1>1, <1>2, <1>4, PromotionKeeps
<1> QED BY <1>2, <1>3, <1>4
     DEF Activate, CompletePersonalPromotion, Promotable, Promoted, UploadIsComplete

-----------------------------------------------------------------------------
(* Corrections *)

\* A preview of a correction, and a correction that was applied.
PreviewRow ==
    [session : Session, status : {"asking", "stored", "applied", "ended"}, target : Logs]

CorrectedRow == [session : Session, target : Logs]

\* The types of previews and corrections.
CorrectionTypes ==
    /\ previews \in [DOMAIN previews -> PreviewRow]
    /\ corrected \in [DOMAIN corrected -> CorrectedRow]
    /\ DOMAIN corrected \subseteq Nat

\* What a preview was computed from only changed since; what was corrected is
\* still published.
PreviewsInv ==
    /\ \A p \in DOMAIN previews :
          /\ previews[p].session \in DOMAIN remote
          /\ Continued(previews[p].target, remote[previews[p].session].logs)
    /\ \A c \in DOMAIN corrected : corrected[c].session \in DOMAIN remote

\* The invariant of the corrections.
CorrectionInv == CorrectionTypes /\ PreviewsInv /\ CorrectionsFitTheirRecords

\* The type of the published Sessions, to be primed.
RemoteIsTable == IsTable(remote, Session, RemoteRow)

\* The invariants, as the proofs below use them.
LEMMA CorrectionFacts ==
    ASSUME PersonalInv, CorrectionInv
    PROVE  /\ \A p \in DOMAIN previews :
                 /\ previews[p] \in PreviewRow /\ previews[p].target \in Logs
                 /\ previews[p].session \in Session /\ previews[p].session \in DOMAIN remote
                 /\ Continued(previews[p].target, remote[previews[p].session].logs)
           /\ \A c \in DOMAIN corrected :
                 /\ c \in Nat /\ corrected[c] \in CorrectedRow /\ corrected[c].target \in Logs
                 /\ corrected[c].session \in Session /\ corrected[c].session \in DOMAIN remote
BY DEF CorrectionInv, CorrectionTypes, PreviewsInv, PreviewRow, CorrectedRow

\* Published records that are as they were.
LEMMA RemoteSame ==
    ASSUME PersonalInv, UNCHANGED remote
    PROVE  RemoteGrows /\ RemoteIsTable'
<1>1. RemoteIsTable'
  BY DEF PersonalInv, PersonalTypes, RemoteIsTable
<1> QED BY <1>1, PersonalFacts, ContinuedSame DEF RemoteGrows

\* One correction, after published records only changed.
LEMMA CorrectionStays ==
    ASSUME PersonalInv, CorrectionInv, RemoteGrows, RemoteIsTable', NEW c \in DOMAIN corrected,
           NEW s, s = corrected[c].session, NEW l \in DOMAIN corrected[c].target
    PROVE  /\ s \in DOMAIN remote' /\ l \in DOMAIN remote'[s].logs
           /\ IsPrefix(Append(corrected[c].target[l].history, c), remote'[s].logs[l].history)
<1>1. /\ s \in DOMAIN remote /\ c \in Nat /\ corrected[c].target \in Logs
  BY CorrectionFacts
<1>2. /\ l \in DOMAIN remote[s].logs
      /\ IsPrefix(Append(corrected[c].target[l].history, c), remote[s].logs[l].history)
  BY DEF CorrectionInv, CorrectionsFitTheirRecords
<1>3. s \in DOMAIN remote' /\ Continued(remote[s].logs, remote'[s].logs)
  BY <1>1 DEF RemoteGrows
<1>4. /\ l \in DOMAIN remote'[s].logs
      /\ IsPrefix(remote[s].logs[l].history, remote'[s].logs[l].history)
  BY <1>2, <1>3 DEF Continued
<1>5. remote'[s].logs \in Logs /\ remote[s].logs \in Logs
  BY <1>1, <1>3, PersonalFacts DEF RemoteIsTable, IsTable, RemoteRow
<1>6. corrected[c].target[l].history \in Seq(Nat)
  BY <1>1, LogFacts
<1>7. PICK t : t = Append(corrected[c].target[l].history, c)
  OBVIOUS
<1>8. t \in Seq(Nat)
  BY <1>1, <1>6, <1>7, PrefixOfAppend
<1>9. remote[s].logs[l].history \in Seq(Nat) /\ remote'[s].logs[l].history \in Seq(Nat)
  BY <1>2, <1>4, <1>5, LogFacts
<1> QED BY <1>2, <1>3, <1>4, <1>7, <1>8, <1>9, PrefixOfPrefix

\* One preview, after published records only changed.
LEMMA PreviewStays ==
    ASSUME PersonalInv, CorrectionInv, RemoteGrows, RemoteIsTable', NEW p \in DOMAIN previews,
           NEW s, s = previews[p].session
    PROVE  s \in DOMAIN remote' /\ Continued(previews[p].target, remote'[s].logs)
<1>1. /\ s \in DOMAIN remote /\ previews[p].target \in Logs
      /\ Continued(previews[p].target, remote[s].logs)
  BY CorrectionFacts
<1>2. s \in DOMAIN remote' /\ Continued(remote[s].logs, remote'[s].logs)
  BY <1>1 DEF RemoteGrows
<1>3. remote'[s].logs \in Logs /\ remote[s].logs \in Logs
  BY <1>1, <1>2, PersonalFacts DEF RemoteIsTable, IsTable, RemoteRow
<1> QED BY <1>1, <1>2, <1>3, ContinuedOn

\* A step that leaves the corrections alone, or changes previews only.
LEMMA PreviewStepKeeps ==
    ASSUME PersonalInv, CorrectionInv, RemoteGrows, RemoteIsTable', UNCHANGED corrected,
           previews' \in [DOMAIN previews' -> PreviewRow],
           \A p \in DOMAIN previews' :
              \/ /\ p \in DOMAIN previews
                 /\ previews'[p].session = previews[p].session
                 /\ \/ previews'[p].target = previews[p].target
                    \/ \A l \in DOMAIN previews'[p].target :
                          /\ l \in DOMAIN previews[p].target
                          /\ previews'[p].target[l] = previews[p].target[l]
              \/ /\ previews'[p].session \in DOMAIN remote'
                 /\ Continued(previews'[p].target, remote'[previews'[p].session].logs)
    PROVE  CorrectionInv'
<1>1. CorrectionTypes'
  BY DEF CorrectionInv, CorrectionTypes
<1>2. CorrectionsFitTheirRecords'
  BY CorrectionStays DEF CorrectionsFitTheirRecords
<1>3. \A c \in DOMAIN corrected' : corrected'[c].session \in DOMAIN remote'
  BY DEF CorrectionInv, PreviewsInv, RemoteGrows
<1>4. ASSUME NEW p \in DOMAIN previews'
      PROVE  /\ previews'[p].session \in DOMAIN remote'
             /\ Continued(previews'[p].target, remote'[previews'[p].session].logs)
  <2>1. CASE /\ p \in DOMAIN previews
             /\ previews'[p].session = previews[p].session
             /\ \/ previews'[p].target = previews[p].target
                \/ \A l \in DOMAIN previews'[p].target :
                      /\ l \in DOMAIN previews[p].target
                      /\ previews'[p].target[l] = previews[p].target[l]
    <3>1. PICK s : s = previews[p].session
      OBVIOUS
    <3>2. s \in DOMAIN remote' /\ Continued(previews[p].target, remote'[s].logs)
      BY <2>1, <3>1, PreviewStays
    <3> QED BY <2>1, <3>1, <3>2 DEF Continued
  <2> QED BY <2>1
<1> QED BY <1>1, <1>2, <1>3, <1>4 DEF CorrectionInv, PreviewsInv

\* Corrections while something else happens.
LEMMA CorrectionsWait ==
    ASSUME PersonalInv, CorrectionInv, RemoteGrows, RemoteIsTable', UNCHANGED correctionVars
    PROVE  CorrectionInv'
<1>1. UNCHANGED <<previews, corrected>>
  BY DEF correctionVars
<1>2. previews' \in [DOMAIN previews' -> PreviewRow]
  BY <1>1 DEF CorrectionInv, CorrectionTypes
<1> QED BY <1>1, <1>2, PreviewStepKeeps

-----------------------------------------------------------------------------
(* The steps of a correction *)

\* The records are read, before the await.
LEMMA RequestPreviewKeeps ==
    ASSUME PersonalInv, CorrectionInv, NEW s \in Session, RequestPreview(s)
    PROVE  CorrectionInv'
<1>1. s \in DOMAIN remote /\ UNCHANGED <<personalVars, corrected>>
  BY DEF RequestPreview, Correctable
<1>2. PICK n : n = Cardinality(DOMAIN previews) + 1
  OBVIOUS
<1>3. PICK row : row = [session |-> s, status |-> "asking", target |-> Live(remote[s].logs)]
  OBVIOUS
<1>4. previews' = Put(previews, n, row)
  BY <1>2, <1>3 DEF RequestPreview
<1>5. remote[s].logs \in Logs /\ Live(remote[s].logs) \in Logs
  BY <1>1, PersonalFacts, LogsKept
<1>6. row \in PreviewRow /\ row.session = s /\ row.target = Live(remote[s].logs)
  BY <1>3, <1>5 DEF PreviewRow
<1>7. Continued(row.target, remote[s].logs)
  <2>1. ASSUME NEW l \in DOMAIN Live(remote[s].logs)
        PROVE  l \in DOMAIN remote[s].logs /\ Live(remote[s].logs)[l] = remote[s].logs[l]
    BY DEF Live, Restrict
  <2> QED BY <1>5, <1>6, <2>1, ContinuedSame DEF Continued
<1>8. UNCHANGED remote
  BY <1>1 DEF personalVars
<1>9. /\ DOMAIN previews' = DOMAIN previews \cup {n} /\ previews'[n] = row
      /\ \A p \in DOMAIN previews \ {n} : previews'[p] = previews[p]
  BY <1>4 DEF Put
<1>10. previews' \in [DOMAIN previews' -> PreviewRow]
  <2>1. \A p \in DOMAIN previews' : previews'[p] \in PreviewRow
    BY <1>6, <1>9, CorrectionFacts
  <2>2. previews' = [p \in DOMAIN previews' |-> previews'[p]]
    BY <1>4 DEF Put
  <2> QED BY <2>1, <2>2
<1>11. \A p \in DOMAIN previews' :
          \/ /\ p \in DOMAIN previews
             /\ previews'[p].session = previews[p].session
             /\ previews'[p].target = previews[p].target
          \/ /\ previews'[p].session \in DOMAIN remote'
             /\ Continued(previews'[p].target, remote'[previews'[p].session].logs)
  BY <1>1, <1>6, <1>7, <1>8, <1>9
<1>12. UNCHANGED corrected
  BY <1>1
<1> QED BY <1>8, <1>10, <1>11, <1>12, RemoteSame, PreviewStepKeeps

\* A preview keeps its Session and some of its records.
LEMMA PreviewChangeKeeps ==
    ASSUME PersonalInv, CorrectionInv, UNCHANGED <<remote, corrected>>,
           NEW p \in DOMAIN previews, NEW row \in PreviewRow,
           previews' = [previews EXCEPT ![p] = row],
           row.session = previews[p].session,
           \A l \in DOMAIN row.target : /\ l \in DOMAIN previews[p].target
                                        /\ row.target[l] = previews[p].target[l]
    PROVE  CorrectionInv'
<1>1. previews \in [DOMAIN previews -> PreviewRow]
  BY DEF CorrectionInv, CorrectionTypes
<1>2. /\ previews' \in [DOMAIN previews' -> PreviewRow] /\ DOMAIN previews' = DOMAIN previews
      /\ previews'[p] = row /\ \A x \in DOMAIN previews \ {p} : previews'[x] = previews[x]
  BY <1>1
<1>3. \A x \in DOMAIN previews' :
         /\ x \in DOMAIN previews
         /\ previews'[x].session = previews[x].session
         /\ \/ previews'[x].target = previews[x].target
            \/ \A l \in DOMAIN previews'[x].target :
                  /\ l \in DOMAIN previews[x].target
                  /\ previews'[x].target[l] = previews[x].target[l]
  BY <1>2
<1>4. RemoteGrows /\ RemoteIsTable'
  BY RemoteSame
<1> QED BY <1>2, <1>3, <1>4, PreviewStepKeeps

\* The answer of the language model is stored.
LEMMA StorePreviewKeeps ==
    ASSUME PersonalInv, CorrectionInv, NEW p \in DOMAIN previews, NEW logs \in SUBSET Log,
           StorePreview(p, logs)
    PROVE  CorrectionInv'
<1>1. PICK target : target = Restrict(previews[p].target, logs)
  OBVIOUS
<1>2. PICK row : row = [previews[p] EXCEPT !.status = "stored", !.target = target]
  OBVIOUS
<1>3. /\ logs \subseteq DOMAIN previews[p].target
      /\ previews' = [previews EXCEPT ![p] = row]
      /\ UNCHANGED <<personalVars, corrected>>
  BY <1>1, <1>2 DEF StorePreview, BuildCorrectionPreview
<1>4. previews[p] \in PreviewRow /\ previews[p].target \in Logs
  BY CorrectionFacts
<1>5. target \in Logs
  <2>1. logs = logs \cap DOMAIN previews[p].target
    BY <1>3
  <2> QED BY <1>1, <1>4, <2>1, LogsKept
<1>6. row \in PreviewRow /\ row.session = previews[p].session /\ row.target = target
  BY <1>2, <1>4, <1>5 DEF PreviewRow
<1>7. \A l \in DOMAIN target : l \in DOMAIN previews[p].target /\ target[l] = previews[p].target[l]
  BY <1>1, <1>3 DEF Restrict
<1>8. UNCHANGED remote
  BY <1>3 DEF personalVars
<1> QED BY <1>3, <1>6, <1>7, <1>8, PreviewChangeKeeps

\* A preview ends.
LEMMA PreviewEndsKeeps ==
    ASSUME PersonalInv, CorrectionInv, NEW p \in DOMAIN previews, PreviewEnds(p)
    PROVE  CorrectionInv'
<1>1. PICK row : row = [previews[p] EXCEPT !.status = "ended", !.target = NoRows]
  OBVIOUS
<1>2. previews' = [previews EXCEPT ![p] = row] /\ UNCHANGED <<personalVars, corrected>>
  BY <1>1 DEF PreviewEnds
<1>3. previews[p] \in PreviewRow
  BY CorrectionFacts
<1>4. row \in PreviewRow /\ row.session = previews[p].session /\ row.target = NoRows
  BY <1>1, <1>3, NothingYet DEF PreviewRow
<1>5. DOMAIN NoRows = {}
  BY DEF NoRows
<1>6. UNCHANGED remote
  BY <1>2 DEF personalVars
<1> QED BY <1>2, <1>4, <1>5, <1>6, PreviewChangeKeeps

\* What an applied correction does to the published records.
LEMMA AppliedRecords ==
    ASSUME PersonalInv, CorrectionInv, NEW p \in DOMAIN previews, NEW selected \in SUBSET Log,
           ApplyPreview(p, selected), NEW s, s = previews[p].session
    PROVE  /\ s \in DOMAIN remote /\ RemoteGrows /\ RemoteIsTable' /\ PersonalInv'
           /\ \A l \in selected :
                 /\ l \in DOMAIN remote'[s].logs
                 /\ IsPrefix(Append(previews[p].target[l].history, changes + 1),
                             remote'[s].logs[l].history)
<1>1. /\ s \in DOMAIN remote /\ previews[p].target \in Logs /\ changes \in Nat
      /\ Continued(previews[p].target, remote[s].logs)
      /\ remote[s].logs \in Logs
  BY CorrectionFacts, PersonalFacts
<1>2. PICK old : old = remote[s].logs
  OBVIOUS
<1>3. PICK new :
        new = [l \in DOMAIN old |-> IF l \in selected THEN Changed(old[l], FALSE) ELSE old[l]]
  OBVIOUS
<1>4. /\ selected # {} /\ selected \subseteq DOMAIN previews[p].target
      /\ \A l \in selected : Len(old[l].history) = Len(previews[p].target[l].history)
      /\ remote' = [remote EXCEPT ![s].logs = new]
      /\ changes' = changes + 1 /\ accepted' = accepted \cup {changes'}
      /\ UNCHANGED <<snapshot, copies, seen, originals>>
  BY <1>2, <1>3 DEF ApplyPreview, TargetIsCurrent
<1>5. old \in Logs /\ old \in [DOMAIN old -> LogRow] /\ DOMAIN old \subseteq Log
  BY <1>1, <1>2, LogsMeans
<1>6. ASSUME NEW l \in DOMAIN old
      PROVE  /\ new[l] \in LogRow
             /\ IsPrefix(old[l].history, new[l].history)
             /\ l \in selected => /\ new[l].history = Append(old[l].history, changes + 1)
                                  /\ changes + 1 \in ToSet(new[l].history)
  <2>1. old[l] \in LogRow /\ old[l].history \in Seq(Nat)
    BY <1>5, LogFacts
  <2>2. CASE l \in selected
    BY <1>1, <1>3, <2>1, <2>2, ChangedRow
  <2>3. CASE l \notin selected
    BY <1>3, <2>1, <2>3, PrefixOfItself
  <2> QED BY <2>2, <2>3
<1>7. DOMAIN new = DOMAIN old /\ new \in [DOMAIN new -> LogRow]
  BY <1>3, <1>6
<1>8. new \in Logs
  BY <1>5, <1>7, LogsMeans
<1>9. Continued(remote[s].logs, new)
  BY <1>2, <1>6, <1>7 DEF Continued
<1>10. /\ RemoteGrows /\ IsTable(remote', Session, RemoteRow) /\ ChangesIn(new) \subseteq RemoteChanges'
  BY <1>1, <1>4, <1>8, <1>9, RemoteLogsGrow
<1>11. \A l \in selected : l \in DOMAIN old
  BY <1>1, <1>2, <1>4 DEF Continued
<1>12. changes + 1 \in ChangesIn(new)
  BY <1>4, <1>6, <1>7, <1>11, ChangeIsIn
<1>13. changes' \in Nat /\ accepted' \subseteq accepted \cup RemoteChanges'
  BY <1>1, <1>4, <1>10, <1>12
<1>14. PersonalInv'
  BY <1>4, <1>10, <1>13, RemoteKeeps
<1>15. s \in DOMAIN remote' /\ remote'[s].logs = new
  <2>1. remote \in [DOMAIN remote -> RemoteRow]
    BY DEF PersonalInv, PersonalTypes, IsTable
  <2> QED BY <1>1, <1>4, <2>1 DEF RemoteRow
<1>16. ASSUME NEW l \in selected
       PROVE  /\ l \in DOMAIN remote'[s].logs
              /\ IsPrefix(Append(previews[p].target[l].history, changes + 1),
                          remote'[s].logs[l].history)
  <2>1. previews[p].target[l].history \in Seq(Nat) /\ old[l].history \in Seq(Nat)
    BY <1>1, <1>4, <1>5, <1>11, LogFacts
  <2>2. IsPrefix(previews[p].target[l].history, old[l].history)
    BY <1>1, <1>2, <1>4 DEF Continued
  <2>3. previews[p].target[l].history = old[l].history
    BY <1>4, <2>1, <2>2, PrefixAsLong
  <2>4. /\ new[l].history = Append(previews[p].target[l].history, changes + 1)
        /\ new[l] \in LogRow
    BY <1>6, <1>11, <2>3
  <2>5. IsPrefix(new[l].history, new[l].history)
    BY <2>4, PrefixOfItself DEF LogRow
  <2> QED BY <1>7, <1>11, <1>15, <2>4, <2>5
<1> QED BY <1>1, <1>10, <1>14, <1>16 DEF RemoteIsTable

\* A correction is applied to records of the version it was computed from: with the
\* same number of changes, these are the same records.
LEMMA ApplyPreviewKeeps ==
    ASSUME PersonalInv, CorrectionInv, NEW p \in DOMAIN previews, NEW selected \in SUBSET Log,
           ApplyPreview(p, selected)
    PROVE  PersonalInv' /\ CorrectionInv'
<1>1. PICK s : s = previews[p].session
  OBVIOUS
<1>2. /\ s \in DOMAIN remote /\ RemoteGrows /\ RemoteIsTable' /\ PersonalInv'
      /\ \A l \in selected :
            /\ l \in DOMAIN remote'[s].logs
            /\ IsPrefix(Append(previews[p].target[l].history, changes + 1),
                        remote'[s].logs[l].history)
  BY <1>1, AppliedRecords
<1>3. /\ changes \in Nat /\ s \in Session /\ previews[p] \in PreviewRow
      /\ previews[p].target \in Logs
  BY <1>1, <1>2, CorrectionFacts, PersonalFacts
<1>4. PICK done : done = [session |-> s, target |-> Restrict(previews[p].target, selected)]
  OBVIOUS
<1>5. /\ selected \subseteq DOMAIN previews[p].target
      /\ previews' = [previews EXCEPT ![p].status = "applied"]
      /\ corrected' = Put(corrected, changes + 1, done)
  BY <1>1, <1>4 DEF ApplyPreview
<1>6. /\ done \in CorrectedRow /\ done.session = s
      /\ DOMAIN done.target = selected
      /\ \A l \in selected : done.target[l] = previews[p].target[l]
  <2>1. selected = selected \cap DOMAIN previews[p].target
    BY <1>5
  <2>2. Restrict(previews[p].target, selected) \in Logs
    BY <1>3, <2>1, LogsKept
  <2> QED BY <1>3, <1>4, <2>2 DEF CorrectedRow, Restrict
<1>7. /\ DOMAIN corrected' = DOMAIN corrected \cup {changes + 1}
      /\ corrected'[changes + 1] = done
      /\ \A c \in DOMAIN corrected \ {changes + 1} : corrected'[c] = corrected[c]
      /\ corrected' = [c \in DOMAIN corrected' |-> corrected'[c]]
  BY <1>5 DEF Put
<1>8. /\ previews' \in [DOMAIN previews' -> PreviewRow] /\ DOMAIN previews' = DOMAIN previews
      /\ \A x \in DOMAIN previews : /\ previews'[x].session = previews[x].session
                                    /\ previews'[x].target = previews[x].target
  <2>1. previews \in [DOMAIN previews -> PreviewRow]
    BY DEF CorrectionInv, CorrectionTypes
  <2> QED BY <1>5, <2>1 DEF PreviewRow
<1>9. CorrectionTypes'
  <2>1. \A c \in DOMAIN corrected' : c \in Nat /\ corrected'[c] \in CorrectedRow
    BY <1>3, <1>6, <1>7, CorrectionFacts
  <2> QED BY <1>7, <1>8, <2>1 DEF CorrectionTypes
<1>10. PreviewsInv'
  <2>1. ASSUME NEW x \in DOMAIN previews'
        PROVE  /\ previews'[x].session \in DOMAIN remote'
               /\ Continued(previews'[x].target, remote'[previews'[x].session].logs)
    <3>1. PICK z : z = previews[x].session
      OBVIOUS
    <3> QED BY <1>2, <1>8, <3>1, PreviewStays
  <2>2. ASSUME NEW c \in DOMAIN corrected'
        PROVE  corrected'[c].session \in DOMAIN remote'
    BY <1>2, <1>6, <1>7, CorrectionFacts DEF RemoteGrows
  <2> QED BY <2>1, <2>2 DEF PreviewsInv
<1>11. CorrectionsFitTheirRecords'
  <2>1. ASSUME NEW c \in DOMAIN corrected', NEW z, z = corrected'[c].session,
               NEW l \in DOMAIN corrected'[c].target
        PROVE  /\ l \in DOMAIN remote'[z].logs
               /\ IsPrefix(Append(corrected'[c].target[l].history, c), remote'[z].logs[l].history)
    <3>1. CASE c = changes + 1
      BY <1>2, <1>6, <1>7, <2>1, <3>1
    <3>2. CASE c # changes + 1
      BY <1>2, <1>7, <2>1, <3>2, CorrectionStays
    <3> QED BY <3>1, <3>2
  <2> QED BY <2>1 DEF CorrectionsFitTheirRecords
<1> QED BY <1>2, <1>9, <1>10, <1>11 DEF CorrectionInv

-----------------------------------------------------------------------------
(* The dictionary *)

\* An item, tables of items, and what a device keeps of them.
ItemRow == [history : Seq(Nat), deleted : BOOLEAN]

Items == UNION {[I -> ItemRow] : I \in SUBSET Item}

DictCopy == [base : Nat, items : Items]

\* The types of the variables of PersonalDictionary.
DictionaryTypes ==
    /\ dictChanges \in Nat
    /\ dictionary.revision \in Nat /\ dictionary.items \in Items
    /\ dictCopies \in [Device -> DictCopy]

\* As for the records: who knows the present revision has every change of it.
DictCopiesInv ==
    \A d \in Device :
        /\ dictCopies[d].base <= dictionary.revision
        /\ dictCopies[d].base = dictionary.revision =>
              ChangesIn(dictionary.items) \subseteq ChangesIn(dictCopies[d].items)

\* The invariant of the dictionary.
DictionaryInv ==
    /\ DictionaryTypes /\ DictionaryIsValid /\ DictCopiesInv
    /\ dictAccepted \subseteq ChangesIn(dictionary.items)

\* What a table of items is.
LEMMA ItemsMeans ==
    ASSUME NEW t
    PROVE  t \in Items <=> t \in [DOMAIN t -> ItemRow] /\ DOMAIN t \subseteq Item
BY DEF Items

\* The invariant, as the proofs below use it.
LEMMA DictionaryFacts ==
    ASSUME DictionaryInv
    PROVE  /\ dictChanges \in Nat /\ dictionary.revision \in Nat /\ dictionary.items \in Items
           /\ dictCopies \in [Device -> DictCopy]
           /\ \A d \in Device : /\ dictCopies[d] \in DictCopy /\ dictCopies[d].base \in Nat
                                /\ dictCopies[d].items \in Items
                                /\ dictCopies[d].base <= dictionary.revision
BY DEF DictionaryInv, DictionaryTypes, DictCopiesInv, DictCopy

\* A step on the copies of the devices.
LEMMA DictCopiesKeep ==
    ASSUME DictionaryInv, UNCHANGED <<dictionary, dictAccepted>>, dictChanges' \in Nat,
           NEW d \in Device, NEW copy \in DictCopy, dictCopies' = [dictCopies EXCEPT ![d] = copy],
           \/ copy.base = dictCopies[d].base
              /\ ChangesIn(dictCopies[d].items) \subseteq ChangesIn(copy.items)
           \/ copy.base = dictionary.revision
              /\ ChangesIn(dictionary.items) \subseteq ChangesIn(copy.items)
    PROVE  DictionaryInv'
<1>1. dictCopies \in [Device -> DictCopy] /\ dictionary.revision \in Nat
  BY DictionaryFacts
<1>2. /\ dictCopies' \in [Device -> DictCopy] /\ dictCopies'[d] = copy
      /\ \A e \in Device \ {d} : dictCopies'[e] = dictCopies[e]
  BY <1>1
<1>3. DictionaryTypes' /\ DictionaryIsValid'
  BY <1>2 DEF DictionaryInv, DictionaryTypes, DictionaryIsValid
<1>4. DictCopiesInv'
  <2>1. ASSUME NEW e \in Device
        PROVE  /\ dictCopies'[e].base <= dictionary.revision
               /\ dictCopies'[e].base = dictionary.revision =>
                     ChangesIn(dictionary.items) \subseteq ChangesIn(dictCopies'[e].items)
    <3>1. /\ dictCopies[e].base <= dictionary.revision
          /\ dictCopies[e].base = dictionary.revision =>
                ChangesIn(dictionary.items) \subseteq ChangesIn(dictCopies[e].items)
      BY DEF DictionaryInv, DictCopiesInv
    <3> QED BY <1>1, <1>2, <3>1
  <2> QED BY <2>1 DEF DictCopiesInv
<1> QED BY <1>3, <1>4 DEF DictionaryInv

\* A device edits an item: it has more changes than before.
LEMMA EditItemKeeps ==
    ASSUME DictionaryInv, NEW d \in Device, NEW i \in Item, NEW deleted \in BOOLEAN,
           EditItem(d, i, deleted)
    PROVE  DictionaryInv'
<1>1. /\ dictChanges \in Nat /\ dictCopies[d] \in DictCopy /\ dictCopies[d].items \in Items
      /\ dictCopies \in [Device -> DictCopy]
  BY DictionaryFacts
<1>2. PICK items : items = dictCopies[d].items
  OBVIOUS
<1>3. PICK old : old = IF i \in DOMAIN items THEN items[i].history ELSE <<>>
  OBVIOUS
<1>4. PICK row : row = [history |-> Append(old, dictChanges + 1), deleted |-> deleted]
  OBVIOUS
<1>5. PICK new : new = Put(items, i, row)
  OBVIOUS
<1>6. PICK copy : copy = [dictCopies[d] EXCEPT !.items = new]
  OBVIOUS
<1>7. /\ dictCopies' = [dictCopies EXCEPT ![d] = copy] /\ dictChanges' = dictChanges + 1
      /\ UNCHANGED <<dictionary, dictAccepted>>
  BY <1>2, <1>3, <1>4, <1>5, <1>6 DEF EditItem
<1>8. items \in [DOMAIN items -> ItemRow] /\ DOMAIN items \subseteq Item
  BY <1>1, <1>2, ItemsMeans
<1>9. old \in Seq(Nat)
  BY <1>3, <1>8 DEF ItemRow
<1>10. /\ row \in ItemRow /\ row.history = Append(old, dictChanges + 1)
       /\ ToSet(row.history) = ToSet(old) \cup {dictChanges + 1}
  <2>1. dictChanges + 1 \in Nat
    BY <1>1
  <2>2. /\ Append(old, dictChanges + 1) \in Seq(Nat)
        /\ ToSet(Append(old, dictChanges + 1)) = ToSet(old) \cup {dictChanges + 1}
    BY <1>9, <2>1, PrefixOfAppend, ChangesOfAppend
  <2> QED BY <1>4, <2>2 DEF ItemRow
<1>11. /\ DOMAIN new = DOMAIN items \cup {i} /\ new[i] = row
       /\ \A x \in DOMAIN items \ {i} : new[x] = items[x]
       /\ new \in [DOMAIN items \cup {i} -> ItemRow]
  BY <1>5, <1>8, <1>10 DEF Put
<1>12. new \in Items
  BY <1>8, <1>11, ItemsMeans
<1>13. ChangesIn(items) \subseteq ChangesIn(new)
  <2>1. \A x \in DOMAIN items : /\ x \in DOMAIN new
                                /\ ToSet(items[x].history) \subseteq ToSet(new[x].history)
    BY <1>3, <1>10, <1>11
  <2> QED BY <2>1, ChangeIsIn
<1>14. copy \in DictCopy /\ copy.base = dictCopies[d].base /\ copy.items = new
  BY <1>1, <1>6, <1>12 DEF DictCopy
<1>15. dictChanges' \in Nat
  BY <1>1, <1>7
<1> QED BY <1>2, <1>7, <1>13, <1>14, <1>15, DictCopiesKeep

\* A device that downloads has every change of the dictionary.
LEMMA DownloadDictionaryKeeps ==
    ASSUME DictionaryInv, NEW d \in Device, NEW keep \in BOOLEAN, DownloadDictionary(d, keep)
    PROVE  DictionaryInv'
<1>1. /\ dictChanges \in Nat /\ dictCopies[d] \in DictCopy /\ dictCopies[d].items \in Items
      /\ dictCopies \in [Device -> DictCopy]
      /\ dictionary.revision \in Nat /\ dictionary.items \in Items
  BY DictionaryFacts
<1>2. PICK mine : mine = dictCopies[d].items
  OBVIOUS
<1>3. PICK new :
        new = [i \in DOMAIN dictionary.items \cup (IF keep THEN DOMAIN mine ELSE {}) |->
                 IF i \in DOMAIN dictionary.items THEN dictionary.items[i] ELSE mine[i]]
  OBVIOUS
<1>4. PICK copy : copy = [base |-> dictionary.revision, items |-> new]
  OBVIOUS
<1>5. dictCopies' = [dictCopies EXCEPT ![d] = copy]
      /\ UNCHANGED <<dictionary, dictChanges, dictAccepted>>
  BY <1>1, <1>2, <1>3, <1>4 DEF DownloadDictionary
<1>6. new \in Items
  <2>1. /\ dictionary.items \in [DOMAIN dictionary.items -> ItemRow]
        /\ DOMAIN dictionary.items \subseteq Item
        /\ mine \in [DOMAIN mine -> ItemRow] /\ DOMAIN mine \subseteq Item
    BY <1>1, <1>2, ItemsMeans
  <2>2. new \in [DOMAIN new -> ItemRow] /\ DOMAIN new \subseteq Item
    BY <1>3, <2>1
  <2> QED BY <2>2, ItemsMeans
<1>7. ChangesIn(dictionary.items) \subseteq ChangesIn(new)
  <2>1. \A i \in DOMAIN dictionary.items : i \in DOMAIN new /\ new[i] = dictionary.items[i]
    BY <1>3
  <2> QED BY <2>1, ChangeIsIn
<1>8. copy \in DictCopy /\ copy.base = dictionary.revision /\ copy.items = new
  BY <1>1, <1>4, <1>6 DEF DictCopy
<1>9. dictChanges' \in Nat
  BY <1>1, <1>5
<1> QED BY <1>5, <1>7, <1>8, <1>9, DictCopiesKeep

\* A device replaces the dictionary at the revision it knows.
LEMMA ReplaceDictionaryKeeps ==
    ASSUME DictionaryInv, NEW d \in Device, NEW answered \in BOOLEAN,
           ReplaceDictionary(d, answered)
    PROVE  DictionaryInv'
<1>1. /\ dictChanges \in Nat /\ dictCopies[d] \in DictCopy /\ dictCopies[d].items \in Items
      /\ dictCopies \in [Device -> DictCopy] /\ dictionary.revision \in Nat
      /\ \A e \in Device : /\ dictCopies[e].base \in Nat /\ dictCopies[e] \in DictCopy
                           /\ dictCopies[e].base <= dictionary.revision
  BY DictionaryFacts
<1>2. PICK items : items = dictCopies[d].items
  OBVIOUS
<1>3. /\ dictCopies[d].base = dictionary.revision
      /\ dictionary' = NextDictionary(items)
      /\ dictAccepted' = dictAccepted \cup ChangesIn(items)
      /\ UNCHANGED dictChanges
  BY <1>2 DEF ReplaceDictionary, DictionaryAsExpected, ChangesIn
<1>4. \/ dictCopies' = [dictCopies EXCEPT ![d].base = dictionary'.revision]
      \/ dictCopies' = dictCopies
  BY DEF ReplaceDictionary
<1>5. ChangesIn(dictionary.items) \subseteq ChangesIn(items)
  BY <1>2, <1>3 DEF DictionaryInv, DictCopiesInv
<1>6. /\ dictionary'.revision = dictionary.revision + 1 /\ dictionary'.items = items
      /\ DictionaryIsValid'
  BY <1>3 DEF NextDictionary, DictionaryIsValid
<1>7. dictCopies' \in [Device -> DictCopy]
  BY <1>1, <1>4, <1>6 DEF DictCopy
<1>8. \A e \in Device :
         \/ dictCopies'[e] = dictCopies[e]
         \/ dictCopies'[e].base = dictionary'.revision /\ dictCopies'[e].items = items
  BY <1>1, <1>2, <1>4 DEF DictCopy
<1>9. DictionaryTypes'
  BY <1>1, <1>2, <1>3, <1>6, <1>7 DEF DictionaryTypes
<1>10. DictCopiesInv'
  BY <1>1, <1>6, <1>8 DEF DictCopiesInv
<1>11. dictAccepted' \subseteq ChangesIn(dictionary'.items)
  BY <1>3, <1>5, <1>6 DEF DictionaryInv
<1> QED BY <1>6, <1>9, <1>10, <1>11 DEF DictionaryInv

\* No dictionary at the start.
LEMMA DictionaryStarts ==
    ASSUME DictionaryInit
    PROVE  DictionaryInv
<1>1. NoRows \in Items /\ DOMAIN NoRows = {}
  <2>1. NoRows \in [{} -> ItemRow] /\ DOMAIN NoRows = {} /\ {} \in SUBSET Item
    BY DEF NoRows
  <2> QED BY <2>1 DEF Items
<1>2. Cardinality(DOMAIN NoRows) = 0 /\ Cardinality(Active(NoRows)) = 0
  <2>1. Active(NoRows) = {}
    BY <1>1 DEF Active
  <2> QED BY <1>1, <2>1, FS_EmptySet
<1>3. /\ dictionary.revision = 0 /\ dictionary.items = NoRows /\ DictionaryIsValid
      /\ dictChanges = 0 /\ dictAccepted = {}
  BY <1>2 DEF DictionaryInit, NoDictionary, DictionaryIsValid
<1>4. dictCopies \in [Device -> DictCopy]
      /\ \A d \in Device : dictCopies[d].base = 0 /\ dictCopies[d].items = NoRows
  BY <1>1 DEF DictionaryInit, DictCopy
<1>5. DictionaryTypes /\ DictCopiesInv
  BY <1>1, <1>3, <1>4 DEF DictionaryTypes, DictCopiesInv
<1> QED BY <1>3, <1>5 DEF DictionaryInv

\* Nothing is stored at the start.
LEMMA PersonalStarts ==
    ASSUME PersonalInit
    PROVE  PersonalInv
<1>1. NoRows \in Logs /\ NoRows \in Sessions /\ ChangesIn(NoRows) = {} /\ DOMAIN NoRows = {}
  BY NothingYet DEF NoRows
<1>2. Cardinality(DOMAIN NoRows) = 0
  BY <1>1, FS_EmptySet
<1>3. /\ snapshot.revision = 0 /\ snapshot.sessions = NoRows /\ snapshot.logs = NoRows
      /\ StoredIsValid
  BY <1>1, <1>2 DEF PersonalInit, NoSnapshot, StoredIsValid, ValidSnapshot
<1>4. changes = 0 /\ seen = 0 /\ remote = NoRows /\ originals = NoRows /\ accepted = {}
  BY DEF PersonalInit
<1>5. IsTable(remote, Session, RemoteRow) /\ IsTable(originals, Session, Logs)
  BY <1>4, NoRowsIsTable
<1>6. /\ copies \in [Device -> Copy]
      /\ \A d \in Device : copies[d].base = 0 /\ copies[d].logs = NoRows
  <2>1. [s \in Session |-> "active"] \in Sessions
    BY DEF Sessions, Status
  <2>2. PICK first \in Device :
          copies = [d \in Device |->
              [base |-> 0, logs |-> NoRows,
               sessions |-> IF d = first THEN [s \in Session |-> "active"] ELSE NoRows]]
    BY DEF PersonalInit
  <2> QED BY <1>1, <2>1, <2>2 DEF Copy
<1>7. PersonalTypes /\ CopiesInv
  BY <1>1, <1>3, <1>4, <1>5, <1>6 DEF PersonalTypes, CopiesInv
<1>8. MovedInv /\ KeptInv
  BY <1>1, <1>4 DEF MovedInv, KeptInv
<1> QED BY <1>3, <1>7, <1>8 DEF PersonalInv

\* No correction at the start.
LEMMA CorrectionsStart ==
    ASSUME CorrectionInit
    PROVE  CorrectionInv
<1>1. DOMAIN NoRows = {} /\ NoRows \in [{} -> PreviewRow] /\ NoRows \in [{} -> CorrectedRow]
  BY DEF NoRows
<1> QED BY <1>1 DEF CorrectionInit, CorrectionInv, CorrectionTypes, PreviewsInv,
                    CorrectionsFitTheirRecords

-----------------------------------------------------------------------------
(* No stored change is lost *)

\* Records, corrections and dictionary together.
RecordInv == PersonalInv /\ CorrectionInv /\ DictionaryInv

\* A step of the devices, the snapshot, or a publication.
LEMMA RecordStepKeeps ==
    ASSUME PersonalInv, RecordStep
    PROVE  PersonalInv' /\ RemoteGrows /\ RemoteIsTable'
<1> SUFFICES PersonalInv' /\ RemoteGrows
  BY DEF PersonalInv, PersonalTypes, RemoteIsTable
<1>1. ASSUME DeviceStep PROVE PersonalInv' /\ RemoteGrows
  <2>1. ASSUME NEW d \in Device, NEW s \in Session, NEW l \in Log, NEW deleted \in BOOLEAN,
               EditCopy(d, s, l, deleted)
        PROVE  PersonalInv' /\ RemoteGrows
    BY <2>1, EditCopyKeeps, RemoteSame DEF EditCopy
  <2>2. ASSUME NEW d \in Device, NEW s \in Session, NEW status \in Status,
               SetStatus(d, s, status)
        PROVE  PersonalInv' /\ RemoteGrows
    BY <2>2, SetStatusKeeps, RemoteSame DEF SetStatus
  <2> QED BY <1>1, <2>1, <2>2 DEF DeviceStep
<1>2. ASSUME SnapshotStep PROVE PersonalInv' /\ RemoteGrows
  <2>1. ASSUME NEW d \in Device, NEW keep \in BOOLEAN, Download(d, keep)
        PROVE  PersonalInv' /\ RemoteGrows
    BY <2>1, DownloadKeeps, RemoteSame DEF Download
  <2>2. ASSUME NEW d \in Device, NEW answered \in BOOLEAN, ReplaceSnapshot(d, answered)
        PROVE  PersonalInv' /\ RemoteGrows
    BY <2>2, ReplaceSnapshotKeeps, RemoteSame DEF ReplaceSnapshot
  <2>3. ASSUME SeeShared PROVE PersonalInv' /\ RemoteGrows
    BY <2>3, SeeSharedKeeps, RemoteSame DEF SeeShared
  <2>4. ASSUME NEW s \in Session, NEW l \in Log, NEW deleted \in BOOLEAN,
               EditShared(s, l, deleted)
        PROVE  PersonalInv' /\ RemoteGrows
    BY <2>4, EditSharedKeeps, RemoteSame DEF EditShared
  <2> QED BY <1>2, <2>1, <2>2, <2>3, <2>4 DEF SnapshotStep
<1>3. ASSUME PublicationStep PROVE PersonalInv' /\ RemoteGrows
  BY <1>3, CreateSessionKeeps, BootstrapLogKeeps, ActivateKeeps, EditRemoteKeeps
  DEF PublicationStep
<1> QED BY <1>1, <1>2, <1>3 DEF RecordStep

\* A step of a correction.
LEMMA CorrectionStepKeeps ==
    ASSUME PersonalInv, CorrectionInv, CorrectionStep
    PROVE  PersonalInv' /\ CorrectionInv'
<1>1. ASSUME UNCHANGED personalVars PROVE PersonalInv'
  BY <1>1 DEF personalVars, PersonalInv, PersonalTypes, StoredIsValid, CopiesInv, MovedInv,
              KeptInv, RemoteChanges, OriginalChanges
<1>2. ASSUME NEW s \in Session, RequestPreview(s) PROVE PersonalInv' /\ CorrectionInv'
  BY <1>1, <1>2, RequestPreviewKeeps DEF RequestPreview
<1>3. ASSUME NEW p \in DOMAIN previews, PreviewEnds(p) PROVE PersonalInv' /\ CorrectionInv'
  BY <1>1, <1>3, PreviewEndsKeeps DEF PreviewEnds
<1>4. ASSUME NEW p \in DOMAIN previews, NEW logs \in SUBSET Log, StorePreview(p, logs)
      PROVE  PersonalInv' /\ CorrectionInv'
  BY <1>1, <1>4, StorePreviewKeeps DEF StorePreview
<1>5. ASSUME NEW p \in DOMAIN previews, NEW logs \in SUBSET Log, ApplyPreview(p, logs)
      PROVE  PersonalInv' /\ CorrectionInv'
  BY <1>5, ApplyPreviewKeeps
<1> QED BY <1>2, <1>3, <1>4, <1>5 DEF CorrectionStep

\* A step of the dictionary.
LEMMA DictionaryStepKeeps ==
    ASSUME DictionaryInv, DictionaryStep
    PROVE  DictionaryInv'
BY EditItemKeeps, DownloadDictionaryKeeps, ReplaceDictionaryKeeps DEF DictionaryStep

\* Nothing happened to the records, the corrections, or the dictionary.
LEMMA RecordsWait ==
    ASSUME PersonalInv, UNCHANGED personalVars
    PROVE  PersonalInv' /\ RemoteGrows /\ RemoteIsTable'
<1>1. PersonalInv'
  BY DEF personalVars, PersonalInv, PersonalTypes, StoredIsValid, CopiesInv, MovedInv,
         KeptInv, RemoteChanges, OriginalChanges
<1> QED BY <1>1, RemoteSame DEF personalVars

\* The dictionary while something else happens.
LEMMA DictionaryWaits ==
    ASSUME DictionaryInv, UNCHANGED dictionaryVars
    PROVE  DictionaryInv'
BY DEF dictionaryVars, DictionaryInv, DictionaryTypes, DictionaryIsValid, DictCopiesInv

\* A step of the archives, as the records see it.
LEMMA ArchiveStepKeepsRecords ==
    ASSUME PersonalInv, ArchiveStep
    PROVE  PersonalInv' /\ RemoteGrows /\ RemoteIsTable'
<1>1. CASE UNCHANGED personalVars
  BY <1>1, RecordsWait
<1>2. ASSUME NEW s \in Session, NEW status \in {"active", "closed", "deleted"},
             ChangeRemoteStatus(s, status)
      PROVE  PersonalInv' /\ RemoteGrows /\ RemoteIsTable'
  BY <1>2, ChangeRemoteStatusKeeps DEF PersonalInv, PersonalTypes, RemoteIsTable
<1> QED BY <1>1, <1>2 DEF ArchiveStep

\* The three invariants hold at the start.
LEMMA RecordsStart ==
    ASSUME Init
    PROVE  RecordInv
BY PersonalStarts, CorrectionsStart, DictionaryStarts DEF Init, RecordInv

\* Every step of the system keeps them.
LEMMA RecordsKept ==
    ASSUME RecordInv, [Next]_vars
    PROVE  RecordInv'
<1> USE DEF RecordInv
<1>1. CASE RecordStep /\ UNCHANGED <<correctionVars, dictionaryVars>>
  <2>1. UNCHANGED correctionVars /\ UNCHANGED dictionaryVars
    BY <1>1
  <2> QED BY <1>1, <2>1, RecordStepKeeps, CorrectionsWait, DictionaryWaits
<1>2. CASE CorrectionStep /\ UNCHANGED dictionaryVars
  BY <1>2, CorrectionStepKeeps, DictionaryWaits
<1>3. CASE DictionaryStep /\ UNCHANGED <<personalVars, correctionVars>>
  <2>1. UNCHANGED personalVars /\ UNCHANGED correctionVars
    BY <1>3
  <2> QED BY <1>3, <2>1, RecordsWait, CorrectionsWait, DictionaryStepKeeps
<1>4. CASE ArchiveStep /\ UNCHANGED <<correctionVars, dictionaryVars>>
  <2>1. UNCHANGED correctionVars /\ UNCHANGED dictionaryVars
    BY <1>4
  <2> QED BY <1>4, <2>1, ArchiveStepKeepsRecords, CorrectionsWait, DictionaryWaits
<1>5. CASE UNCHANGED vars
  <2>1. UNCHANGED personalVars /\ UNCHANGED correctionVars /\ UNCHANGED dictionaryVars
    BY <1>5 DEF vars
  <2> QED BY <2>1, RecordsWait, CorrectionsWait, DictionaryWaits
<1> QED BY <1>1, <1>2, <1>3, <1>4, <1>5 DEF Next

\* The changes in the exports by Session.
ExportedChanges ==
    UNION {ChangesIn(SessionBackup(c.session).logs) :
             c \in {x \in AccountSessionCatalog("includeDeleted") : x.source = "personal"}}

\* Every record of a valid snapshot is exported with the Session it belongs to.
LEMMA ExportsAreWhole ==
    ASSUME StoredIsValid
    PROVE  ExportedChanges = ChangesIn(snapshot.logs)
<1>1. ASSUME NEW c
      PROVE  c \in {x \in AccountSessionCatalog("includeDeleted") : x.source = "personal"}
                <=> \E s \in DOMAIN snapshot.sessions : c = [source |-> "personal", session |-> s]
  <2>1. PersonalSessions("includeDeleted") = DOMAIN snapshot.sessions
    BY DEF PersonalSessions, ListedSessions
  <2> QED BY <2>1 DEF AccountSessionCatalog
<1>2. ASSUME NEW c
      PROVE  SessionBackup(c.session).logs = LogsOf(snapshot.logs, c.session)
  BY DEF SessionBackup, PersonalSessionLogs
<1>3. ASSUME NEW x
      PROVE  x \in ExportedChanges <=>
               \E s \in DOMAIN snapshot.sessions : x \in ChangesIn(LogsOf(snapshot.logs, s))
  <2>1. x \in ExportedChanges <=>
           \E c \in {y \in AccountSessionCatalog("includeDeleted") : y.source = "personal"} :
              x \in ChangesIn(SessionBackup(c.session).logs)
    BY DEF ExportedChanges
  <2>2. ASSUME NEW s \in DOMAIN snapshot.sessions, x \in ChangesIn(LogsOf(snapshot.logs, s))
        PROVE  x \in ExportedChanges
    <3>1. PICK c : c = [source |-> "personal", session |-> s]
      OBVIOUS
    <3>2. c \in {y \in AccountSessionCatalog("includeDeleted") : y.source = "personal"}
      BY <1>1, <3>1
    <3>3. SessionBackup(c.session).logs = LogsOf(snapshot.logs, s)
      BY <1>2, <3>1
    <3> QED BY <2>1, <2>2, <3>2, <3>3
  <2>3. ASSUME x \in ExportedChanges
        PROVE  \E s \in DOMAIN snapshot.sessions : x \in ChangesIn(LogsOf(snapshot.logs, s))
    <3>1. PICK c \in {y \in AccountSessionCatalog("includeDeleted") : y.source = "personal"} :
             x \in ChangesIn(SessionBackup(c.session).logs)
      BY <2>1, <2>3
    <3>2. PICK s \in DOMAIN snapshot.sessions : c = [source |-> "personal", session |-> s]
      BY <1>1, <3>1
    <3>3. SessionBackup(c.session).logs = LogsOf(snapshot.logs, s)
      BY <1>2, <3>2
    <3> QED BY <3>1, <3>3
  <2> QED BY <2>2, <2>3
<1>4. ASSUME NEW s
      PROVE  /\ DOMAIN LogsOf(snapshot.logs, s) = {l \in DOMAIN snapshot.logs :
                                                     snapshot.logs[l].session = s}
             /\ \A l \in DOMAIN LogsOf(snapshot.logs, s) :
                   LogsOf(snapshot.logs, s)[l] = snapshot.logs[l]
  BY DEF LogsOf, Restrict
<1>5. ASSUME NEW s, NEW x \in ChangesIn(LogsOf(snapshot.logs, s))
      PROVE  x \in ChangesIn(snapshot.logs)
  <2>1. PICK l \in DOMAIN LogsOf(snapshot.logs, s) :
           x \in ToSet(LogsOf(snapshot.logs, s)[l].history)
    BY <1>5, ChangeIsIn
  <2>2. l \in DOMAIN snapshot.logs /\ x \in ToSet(snapshot.logs[l].history)
    BY <1>4, <2>1
  <2> QED BY <2>2, ChangeIsIn
<1>6. ASSUME NEW x \in ChangesIn(snapshot.logs)
      PROVE  \E s \in DOMAIN snapshot.sessions : x \in ChangesIn(LogsOf(snapshot.logs, s))
  <2>1. PICK l \in DOMAIN snapshot.logs : x \in ToSet(snapshot.logs[l].history)
    BY <1>6, ChangeIsIn
  <2>2. PICK s \in DOMAIN snapshot.sessions : s = snapshot.logs[l].session
    BY DEF StoredIsValid, ValidSnapshot
  <2>3. l \in DOMAIN LogsOf(snapshot.logs, s) /\ LogsOf(snapshot.logs, s)[l] = snapshot.logs[l]
    BY <1>4, <2>2
  <2>4. x \in ChangesIn(LogsOf(snapshot.logs, s))
    BY <2>1, <2>3, ChangeIsIn
  <2> QED BY <2>4
<1> QED BY <1>3, <1>5, <1>6

\* Where the invariant says a stored change is, a reader finds it.
LEMMA RecordsAreKept ==
    ASSUME RecordInv
    PROVE  NoStoredChangeIsLost
<1>1. StoredIsValid /\ KeptInv /\ DictionaryIsValid /\ dictAccepted \subseteq ChangesIn(dictionary.items)
  BY DEF RecordInv, PersonalInv, DictionaryInv
<1>2. AdminSnapshotDetail = snapshot.logs /\ AdminDictionary = dictionary.items
  BY <1>1 DEF AdminSnapshotDetail, AdminDictionary
<1>3. ExportedChanges = ChangesIn(snapshot.logs)
  BY <1>1, ExportsAreWhole
<1>4. accepted \subseteq ExportedChanges \cup RemoteChanges \cup OriginalChanges
  BY <1>1, <1>3 DEF KeptInv
<1>5. dictAccepted \subseteq UNION {ToSet(AdminDictionary[i].history) : i \in DOMAIN AdminDictionary}
  BY <1>1, <1>2 DEF ChangesIn
<1>6. ExportedChanges = ChangesIn(AdminSnapshotDetail)
  BY <1>2, <1>3
<1>7. UNION {ChangesIn(SessionBackup(c.session).logs) :
                c \in {x \in AccountSessionCatalog("includeDeleted") : x.source = "personal"}}
         = ExportedChanges
  BY DEF ExportedChanges
<1>8. /\ UNION {ChangesIn(remote[s].logs) : s \in DOMAIN remote} = RemoteChanges
      /\ UNION {ChangesIn(originals[s]) : s \in DOMAIN originals} = OriginalChanges
  BY DEF RemoteChanges, OriginalChanges
<1> QED BY ONLY <1>4, <1>5, <1>6, <1>7, <1>8, Zenon DEF NoStoredChangeIsLost

\* Every change the server stored can be read: in the snapshot and its exports, in a
\* published Session, in the original kept at a promotion, or in the dictionary.
THEOREM StoredChangesAreKept == Spec => []NoStoredChangeIsLost
<1>1. Init => RecordInv
  BY RecordsStart
<1>2. RecordInv /\ [Next]_vars => RecordInv'
  BY RecordsKept
<1>3. RecordInv => NoStoredChangeIsLost
  BY RecordsAreKept
<1> QED BY <1>1, <1>2, <1>3, PTL DEF Spec

\* A correction was computed from the records it changed as they were just before.
THEOREM CorrectionsAreFitting == Spec => []CorrectionsFitTheirRecords
<1>1. Init => RecordInv
  BY RecordsStart
<1>2. RecordInv /\ [Next]_vars => RecordInv'
  BY RecordsKept
<1>3. RecordInv => CorrectionsFitTheirRecords
  BY DEF RecordInv, CorrectionInv
<1> QED BY <1>1, <1>2, <1>3, PTL DEF Spec

-----------------------------------------------------------------------------
(* Promoted Sessions *)

\* An entry of the catalogue.
Listed(source, s) == [source |-> source, session |-> s]

\* Sessions listed from one source are as many as there are.
LEMMA ListedAsMany ==
    ASSUME NEW source, NEW S, IsFiniteSet(S), NEW T, T = {Listed(source, s) : s \in S}
    PROVE  IsFiniteSet(T) /\ Cardinality(T) = Cardinality(S)
<1>1. PICK f : f = [s \in S |-> Listed(source, s)]
  OBVIOUS
<1>2. f \in [S -> T]
  BY <1>1
<1>3. \A s, t \in S : f[s] = f[t] => s = t
  BY <1>1 DEF Listed
<1>4. \A t \in T : \E s \in S : f[s] = t
  BY <1>1
<1>5. f \in Bijection(S, T)
  BY <1>2, <1>3, <1>4 DEF Bijection, Injection, Surjection, IsInjective
<1>6. ExistsBijection(S, T)
  BY <1>5 DEF ExistsBijection
<1> QED BY <1>6, FS_Bijection

\* The catalogue, and which Sessions it shows.
LEMMA CatalogueHas ==
    ASSUME StoredIsValid, NEW query \in Query
    PROVE  /\ \A c : c \in AccountSessionCatalog(query) <=>
                       \/ \E s \in RemoteSessions(query) : c = Listed("collaboration", s)
                       \/ \E s \in PersonalSessions(query) : c = Listed("personal", s)
           /\ RemoteSessions(query) \subseteq DOMAIN remote
           /\ PersonalSessions(query) \subseteq DOMAIN snapshot.sessions
           /\ PersonalSessions("includeDeleted") = DOMAIN snapshot.sessions
BY DEF Query, AccountSessionCatalog, Listed, RemoteSessions, PersonalSessions, ListedSessions

\* The administrator's count, from the columns, is the length of the owner's list
\* and the number of the Sessions of the snapshot that it hides.
LEMMA CountAgrees ==
    ASSUME PersonalInv
    PROVE  AdminSessionCount =
              Cardinality(AccountSessionCatalog("plain")) +
              Cardinality(PersonalSessions("includeDeleted") \ PersonalSessions("plain"))
<1>1. StoredIsValid /\ snapshot.sessionCount = Cardinality(DOMAIN snapshot.sessions)
  BY DEF PersonalInv, StoredIsValid
<1>0. "plain" \in Query
  BY DEF Query
<1>2. PICK R : R = RemoteSessions("plain")
  OBVIOUS
<1>3. PICK P : P = PersonalSessions("plain")
  OBVIOUS
<1>4. PICK H : H = PersonalSessions("includeDeleted") \ P
  OBVIOUS
<1>5. P \subseteq DOMAIN snapshot.sessions /\ H = DOMAIN snapshot.sessions \ P
  BY <1>0, <1>1, <1>3, <1>4, CatalogueHas
<1>6. IsFiniteSet(R) /\ IsFiniteSet(P) /\ IsFiniteSet(H)
  <2>1. R \subseteq Session
    BY <1>0, <1>1, <1>2, PersonalFacts, CatalogueHas
  <2>2. DOMAIN snapshot.sessions \subseteq Session
    BY PersonalFacts, SessionsMeans
  <2>3. P \subseteq Session /\ H \subseteq Session
    BY <1>5, <2>2
  <2> QED BY <2>1, <2>3, PersonalAssumption, FS_Subset
<1>7. PICK published : published = {Listed("collaboration", s) : s \in R}
  OBVIOUS
<1>8. PICK own : own = {Listed("personal", s) : s \in P}
  OBVIOUS
<1>9. IsFiniteSet(published) /\ Cardinality(published) = Cardinality(R)
  BY <1>6, <1>7, ListedAsMany
<1>10. IsFiniteSet(own) /\ Cardinality(own) = Cardinality(P)
  BY <1>6, <1>8, ListedAsMany
<1>11. AccountSessionCatalog("plain") = published \cup own
  BY <1>0, <1>1, <1>2, <1>3, <1>7, <1>8, CatalogueHas
<1>12. published \cap own = {} /\ P \cap H = {} /\ P \cup H = DOMAIN snapshot.sessions
  BY <1>5, <1>7, <1>8 DEF Listed
<1>13. Cardinality(AccountSessionCatalog("plain")) = Cardinality(R) + Cardinality(P)
  <2>1. Cardinality(AccountSessionCatalog("plain"))
           = Cardinality(published) + Cardinality(own) - Cardinality(published \cap own)
    BY <1>9, <1>10, <1>11, FS_Union
  <2>2. Cardinality(published) \in Nat /\ Cardinality(own) \in Nat
    BY <1>9, <1>10, FS_CardinalityType
  <2>3. Cardinality(published \cap own) = 0
    BY <1>12, FS_EmptySet
  <2> QED BY <2>1, <2>2, <2>3, <1>9, <1>10
<1>14. snapshot.sessionCount = Cardinality(P) + Cardinality(H)
  <2>1. Cardinality(DOMAIN snapshot.sessions)
           = Cardinality(P) + Cardinality(H) - Cardinality(P \cap H)
    BY <1>6, <1>12, FS_Union
  <2>2. Cardinality(P) \in Nat /\ Cardinality(H) \in Nat
    BY <1>6, FS_CardinalityType
  <2>3. Cardinality(P \cap H) = 0
    BY <1>12, FS_EmptySet
  <2> QED BY <2>1, <2>2, <2>3, <1>1
<1>15. Cardinality(R) \in Nat /\ Cardinality(P) \in Nat /\ Cardinality(H) \in Nat
  BY <1>6, FS_CardinalityType
<1> QED BY <1>2, <1>3, <1>4, <1>13, <1>14, <1>15 DEF AdminSessionCount

\* A promoted Session, as the owner's list has it, with and without deleted
\* Sessions, and as it was.
LEMMA MovedIsListedOnce ==
    ASSUME PersonalInv, NEW s \in DOMAIN originals, NEW query \in Query
    PROVE  /\ {c \in AccountSessionCatalog(query) : c.session = s}
                = {[source |-> "collaboration", session |-> x] : x \in {s} \cap RemoteSessions(query)}
           /\ \A l \in DOMAIN Live(originals[s]) :
                 /\ l \in DOMAIN remote[s].logs
                 /\ IsPrefix(originals[s][l].history, remote[s].logs[l].history)
<1>1. StoredIsValid /\ s \notin DOMAIN snapshot.sessions
      /\ Continued(Live(originals[s]), remote[s].logs)
  BY DEF PersonalInv, MovedInv
<1>2. {c \in AccountSessionCatalog(query) : c.session = s}
         = {[source |-> "collaboration", session |-> x] : x \in {s} \cap RemoteSessions(query)}
  <2>1. ASSUME NEW c \in AccountSessionCatalog(query), c.session = s
        PROVE  s \in RemoteSessions(query) /\ c = [source |-> "collaboration", session |-> s]
    BY <1>1, <2>1, CatalogueHas DEF Listed
  <2>2. ASSUME s \in RemoteSessions(query)
        PROVE  [source |-> "collaboration", session |-> s] \in AccountSessionCatalog(query)
    BY <1>1, <2>2, CatalogueHas DEF Listed
  <2> QED BY <2>1, <2>2
<1>3. \A l \in DOMAIN Live(originals[s]) : Live(originals[s])[l] = originals[s][l]
  BY DEF Live, Restrict
<1> QED BY <1>1, <1>2, <1>3 DEF Continued

\* The two together.
LEMMA PromotedAreMoved ==
    ASSUME PersonalInv
    PROVE  PromotedSessionsMove
BY MovedIsListedOnce, CountAgrees DEF PromotedSessionsMove

\* A promoted Session is in the owner's list once, as a collaboration, with every
\* live record it had, and has left the snapshot for good; the administrator's
\* count of Sessions differs from the list by the deleted ones it hides.
THEOREM PromotedSessionsAreMoved == Spec => []PromotedSessionsMove
<1>1. Init => RecordInv
  BY RecordsStart
<1>2. RecordInv /\ [Next]_vars => RecordInv'
  BY RecordsKept
<1>3. RecordInv => PromotedSessionsMove
  BY PromotedAreMoved DEF RecordInv
<1> QED BY <1>1, <1>2, <1>3, PTL DEF Spec

-----------------------------------------------------------------------------
(* Archives *)

\* The entries are numbered from 0, each once.
Numbered(entries) ==
    LET n == Cardinality(DOMAIN entries)
    IN  /\ \A e \in DOMAIN entries : entries[e].order \in 0..(n - 1)
        /\ \A e, f \in DOMAIN entries : entries[e].order = entries[f].order => e = f
        /\ \A k \in 0..(n - 1) : \E e \in DOMAIN entries : entries[e].order = k

\* What is kept of one Session, of all Sessions of a list, and of a list.
Entry == [order : Nat, logs : Logs]

Entries == UNION {[E -> Entry] : E \in SUBSET (Kind \X Session)}

ListRow ==
    [owner : User, state : {"hidden", "published", "deleted"}, members : SUBSET User,
     sources : SUBSET User, entries : Entries]

\* The copies in entries, as onceClosed has them.
Frozen(entries) ==
    {[kind |-> e[1], session |-> e[2], logs |-> entries[e].logs] : e \in DOMAIN entries}

\* A list as it may be, with these Sessions once closed and these users deleted.
ListInv(list, closed, deleted) ==
    /\ Numbered(list.entries)
    /\ Frozen(list.entries) \subseteq closed
    /\ list.state # "deleted" => list.owner \notin deleted

\* The invariant of the archives.
ArchiveInv ==
    /\ IsTable(lists, List, ListRow)
    /\ \A i \in DOMAIN lists : ListInv(lists[i], onceClosed, deletedUsers)

-----------------------------------------------------------------------------
(* Numbered entries *)

\* What the entries of a list are.
LEMMA EntriesMeans ==
    ASSUME NEW t
    PROVE  t \in Entries <=> t \in [DOMAIN t -> Entry] /\ DOMAIN t \subseteq Kind \X Session
BY DEF Entries

\* There are finitely many Sessions of either kind.
LEMMA EntriesAreFinite ==
    ASSUME NEW entries \in Entries
    PROVE  IsFiniteSet(DOMAIN entries) /\ Cardinality(DOMAIN entries) \in Nat
<1>1. DOMAIN entries \subseteq Kind \X Session
  BY EntriesMeans
<1>2. IsFiniteSet(Kind)
  <2>1. IsFiniteSet({"personal"} \cup {"collaboration"})
    BY FS_Singleton, FS_AddElement
  <2>2. Kind = {"personal"} \cup {"collaboration"}
    BY DEF Kind
  <2> QED BY <2>1, <2>2
<1>3. IsFiniteSet(Kind \X Session)
  BY <1>2, PersonalAssumption, FS_Product
<1> QED BY <1>1, <1>3, FS_Subset, FS_CardinalityType

\* One more entry at the end.
LEMMA AddedIsNumbered ==
    ASSUME NEW entries \in Entries, Numbered(entries), NEW e, e \notin DOMAIN entries,
           NEW entry, entry.order = Cardinality(DOMAIN entries)
    PROVE  Numbered(Put(entries, e, entry))
<1>1. PICK n \in Nat : n = Cardinality(DOMAIN entries)
  BY EntriesAreFinite
<1>2. PICK new : new = Put(entries, e, entry)
  OBVIOUS
<1>3. /\ DOMAIN new = DOMAIN entries \cup {e} /\ new[e] = entry
      /\ \A x \in DOMAIN entries : new[x] = entries[x]
  BY <1>2 DEF Put
<1>4. Cardinality(DOMAIN new) = n + 1
  BY <1>1, <1>3, EntriesAreFinite, FS_AddElement
<1>5. /\ \A x \in DOMAIN entries : entries[x].order \in 0..(n - 1)
      /\ \A x, y \in DOMAIN entries : entries[x].order = entries[y].order => x = y
      /\ \A k \in 0..(n - 1) : \E x \in DOMAIN entries : entries[x].order = k
  BY <1>1 DEF Numbered
<1>6. \A x \in DOMAIN new : new[x].order \in 0..n
  BY <1>1, <1>3, <1>5
<1>7. \A x, y \in DOMAIN new : new[x].order = new[y].order => x = y
  BY <1>1, <1>3, <1>5
<1>8. \A k \in 0..n : \E x \in DOMAIN new : new[x].order = k
  <2>1. ASSUME NEW k \in 0..n PROVE \E x \in DOMAIN new : new[x].order = k
    <3>1. CASE k = n
      BY <1>1, <1>3, <3>1
    <3>2. CASE k # n
      <4>1. k \in 0..(n - 1)
        BY <3>2
      <4> QED BY <1>3, <1>5, <4>1
    <3> QED BY <3>1, <3>2
  <2> QED BY <2>1
<1>9. (n + 1) - 1 = n
  OBVIOUS
<1> QED BY <1>2, <1>4, <1>6, <1>7, <1>8, <1>9 DEF Numbered

\* The same entries with the same numbers.
LEMMA SameNumbers ==
    ASSUME NEW entries, NEW new, Numbered(entries), DOMAIN new = DOMAIN entries,
           \A e \in DOMAIN entries : new[e].order = entries[e].order
    PROVE  Numbered(new)
BY DEF Numbered

\* The entries in a numbering are as many as the numbers below a bound.
LEMMA BelowIsCounted ==
    ASSUME NEW entries, NEW rest \in SUBSET DOMAIN entries, NEW numbers \in SUBSET Nat,
           NEW k \in Nat, NEW size, IsFiniteSet(numbers), Cardinality(numbers) = size,
           \A e \in DOMAIN entries : entries[e].order \in Nat,
           \A e, f \in DOMAIN entries : entries[e].order = entries[f].order => e = f,
           \A e \in rest : entries[e].order < k <=> entries[e].order \in numbers,
           \A n \in numbers : \E e \in rest : entries[e].order = n
    PROVE  Cardinality({e \in rest : entries[e].order < k}) = size
<1>1. PICK below : below = {e \in rest : entries[e].order < k}
  OBVIOUS
<1>2. PICK at : at = [n \in numbers |-> CHOOSE e \in rest : entries[e].order = n]
  OBVIOUS
<1>3. \A n \in numbers : at[n] \in rest /\ entries[at[n]].order = n
  BY <1>2
<1>4. \A n \in numbers : at[n] \in below
  BY <1>1, <1>3
<1>5. at \in [numbers -> below]
  BY <1>2, <1>4
<1>6. ASSUME NEW m \in numbers, NEW n \in numbers, at[m] = at[n] PROVE m = n
  <2>1. entries[at[m]].order = m /\ entries[at[n]].order = n
    BY <1>3
  <2> QED BY <1>6, <2>1
<1>7. ASSUME NEW e \in below PROVE \E n \in numbers : at[n] = e
  <2>1. e \in rest /\ entries[e].order \in numbers
    BY <1>1
  <2> QED BY <1>3, <2>1
<1>8. at \in Bijection(numbers, below)
  BY <1>5, <1>6, <1>7 DEF Bijection, Injection, Surjection, IsInjective
<1>9. Cardinality(below) = Cardinality(numbers)
  BY <1>8, FS_Bijection DEF ExistsBijection
<1> QED BY <1>1, <1>9

\* One entry less: those after it move up by one.
LEMMA RemainingMovesUp ==
    ASSUME NEW entries \in Entries, Numbered(entries), NEW e \in DOMAIN entries,
           NEW gone \in Nat, gone = entries[e].order,
           NEW x \in DOMAIN entries \ {e}, NEW k \in Nat, k = entries[x].order
    PROVE  LET row == Remaining(entries, e)[x]
           IN  /\ row \in Entry /\ row.logs = entries[x].logs
               /\ row.order = IF k < gone THEN k ELSE k - 1
               /\ k # gone
<1> DEFINE new == Remaining(entries, e)
<1> HIDE DEF new
<1>1. PICK rest : rest = Without(entries, {e})
  OBVIOUS
<1>2. /\ DOMAIN rest = DOMAIN entries \ {e}
      /\ \A z \in DOMAIN rest : rest[z] = entries[z]
  BY <1>1, RowsAfterWithout DEF Without, Restrict
<1>3. new = [z \in DOMAIN rest |->
               [rest[z] EXCEPT !.order =
                   Cardinality({y \in DOMAIN rest : rest[y].order < rest[z].order})]]
  BY <1>1 DEF new, Remaining
<1>4. PICK n \in Nat : n = Cardinality(DOMAIN entries)
  BY EntriesAreFinite
<1>5. /\ \A z \in DOMAIN entries : entries[z].order \in 0..(n - 1)
      /\ \A z, y \in DOMAIN entries : entries[z].order = entries[y].order => z = y
      /\ \A j \in 0..(n - 1) : \E z \in DOMAIN entries : entries[z].order = j
      /\ \A z \in DOMAIN entries : entries[z] \in Entry /\ entries[z].order \in Nat
  BY <1>4, EntriesMeans DEF Numbered, Entry
<1>6. Cardinality({y \in DOMAIN rest : rest[y].order < rest[x].order})
         = IF k < gone THEN k ELSE k - 1
  <2>1. k \in 0..(n - 1) /\ x \in DOMAIN rest
    BY <1>2, <1>5
  <2>2. PICK numbers : numbers = (0..(k - 1)) \ {gone}
    OBVIOUS
  <2>3. k \in Nat /\ k # gone
    BY <1>2, <1>5, <2>1
  <2>4. IsFiniteSet(0..(k - 1)) /\ Cardinality(0..(k - 1)) = k
    <3>1. PICK b \in Int : b = k - 1
      BY <2>3
    <3>2. IsFiniteSet(0..b)
      BY FS_Interval
    <3>3. Cardinality(0..b) = b + 1
      <4>1. CASE b = -1
        <5>1. 0..b = {}
          BY <4>1
        <5> QED BY <4>1, <5>1, FS_EmptySet
      <4>2. CASE 0 <= b
        BY <4>2, FS_Interval
      <4> QED BY <2>3, <3>1, <4>1, <4>2
    <3> QED BY <2>3, <3>1, <3>2, <3>3
  <2>5. gone \in 0..(k - 1) <=> ~(k < gone)
    BY <2>3
  <2>6. /\ IsFiniteSet(numbers)
        /\ Cardinality(numbers) = IF k < gone THEN k ELSE k - 1
    <3>1. PICK all : all = 0..(k - 1)
      OBVIOUS
    <3>2. /\ IsFiniteSet(all \ {gone})
          /\ Cardinality(all \ {gone}) = IF gone \in all THEN Cardinality(all) - 1
                                                          ELSE Cardinality(all)
      BY <2>4, <3>1, FS_RemoveElement
    <3> QED BY <2>2, <2>4, <2>5, <3>1, <3>2
  <2>7. \A y \in DOMAIN rest : entries[y].order < k <=> entries[y].order \in numbers
    BY <1>2, <1>5, <2>2, <2>3
  <2>8. ASSUME NEW m \in numbers PROVE \E y \in DOMAIN rest : entries[y].order = m
    <3>1. m \in 0..(n - 1) /\ m # gone
      BY <2>1, <2>2
    <3>2. PICK y \in DOMAIN entries : entries[y].order = m
      BY <1>5, <3>1
    <3> QED BY <1>2, <3>1, <3>2
  <2>9. numbers \in SUBSET Nat
    BY <2>2, <2>3
  <2>10. DOMAIN rest \in SUBSET DOMAIN entries
    BY <1>2
  <2>11. Cardinality({y \in DOMAIN rest : entries[y].order < k}) = IF k < gone THEN k ELSE k - 1
    BY <1>5, <2>3, <2>6, <2>7, <2>8, <2>9, <2>10, BelowIsCounted
  <2>12. {y \in DOMAIN rest : rest[y].order < rest[x].order}
            = {y \in DOMAIN rest : entries[y].order < k}
    BY <1>2, <2>1
  <2> QED BY <2>1, <2>11, <2>12
<1>7. PICK m : m = Cardinality({y \in DOMAIN rest : rest[y].order < rest[x].order})
  OBVIOUS
<1>8. new[x] = [entries[x] EXCEPT !.order = m] /\ entries[x] \in Entry
  BY <1>2, <1>3, <1>5, <1>7
<1>9. m = (IF k < gone THEN k ELSE k - 1) /\ k # gone
  BY <1>2, <1>5, <1>6, <1>7
<1>10. m \in Nat
  BY <1>9
<1>11. new[x] \in Entry /\ new[x].logs = entries[x].logs /\ new[x].order = m
  BY <1>8, <1>10 DEF Entry
<1> QED BY <1>9, <1>11 DEF new

\* Which entries remain.
LEMMA RemainingEntries ==
    ASSUME NEW entries, NEW e
    PROVE  DOMAIN Remaining(entries, e) = DOMAIN entries \ {e}
BY RowsAfterWithout DEF Remaining, Without, Restrict

\* They are numbered.
LEMMA RemainingIsNumbered ==
    ASSUME NEW entries \in Entries, Numbered(entries), NEW e \in DOMAIN entries,
           NEW new, new = Remaining(entries, e)
    PROVE  Numbered(new)
<1>1. PICK n \in Nat : n = Cardinality(DOMAIN entries)
  BY EntriesAreFinite
<1>2. /\ \A x \in DOMAIN entries : entries[x].order \in 0..(n - 1)
      /\ \A x, y \in DOMAIN entries : entries[x].order = entries[y].order => x = y
      /\ \A k \in 0..(n - 1) : \E x \in DOMAIN entries : entries[x].order = k
  BY <1>1 DEF Numbered
<1>3. PICK gone \in 0..(n - 1) : gone = entries[e].order
  BY <1>2
<1>4. /\ DOMAIN new = DOMAIN entries \ {e}
      /\ \A x \in DOMAIN new :
            new[x].order = IF entries[x].order < gone THEN entries[x].order
                                                      ELSE entries[x].order - 1
  <2>1. gone \in Nat
    BY <1>3
  <2>2. DOMAIN new = DOMAIN entries \ {e}
    BY RemainingEntries
  <2>3. ASSUME NEW x \in DOMAIN new
        PROVE  new[x].order = IF entries[x].order < gone THEN entries[x].order
                                                         ELSE entries[x].order - 1
    <3>1. PICK k \in Nat : k = entries[x].order
      BY <1>2, <2>2
    <3>2. new[x].order = IF k < gone THEN k ELSE k - 1
      BY <1>3, <2>1, <2>2, <3>1, RemainingMovesUp
    <3> QED BY <3>1, <3>2
  <2> QED BY <2>2, <2>3
<1>5. Cardinality(DOMAIN new) = n - 1
  BY <1>1, <1>4, EntriesAreFinite, FS_RemoveElement
<1>6. \A x \in DOMAIN new : entries[x].order # gone /\ entries[x].order \in 0..(n - 1)
  BY <1>2, <1>3, <1>4
<1>7. \A x \in DOMAIN new : new[x].order \in 0..((n - 1) - 1)
  BY <1>4, <1>6
<1>8. \A x, y \in DOMAIN new : new[x].order = new[y].order => x = y
  <2>1. ASSUME NEW x \in DOMAIN new, NEW y \in DOMAIN new, new[x].order = new[y].order
        PROVE  entries[x].order = entries[y].order
    BY <1>4, <1>6, <2>1
  <2> QED BY <1>2, <1>4, <2>1
<1>9. ASSUME NEW k \in 0..((n - 1) - 1) PROVE \E x \in DOMAIN new : new[x].order = k
  <2>1. CASE k < gone
    <3>1. PICK x \in DOMAIN entries : entries[x].order = k
      BY <1>2
    <3> QED BY <1>3, <1>4, <2>1, <3>1
  <2>2. CASE ~(k < gone)
    <3>1. k + 1 \in 0..(n - 1)
      OBVIOUS
    <3>2. PICK x \in DOMAIN entries : entries[x].order = k + 1
      BY <1>2, <3>1
    <3>3. x # e /\ ~(entries[x].order < gone) /\ entries[x].order - 1 = k
      BY <1>3, <2>2, <3>2
    <3> QED BY <1>4, <3>3
  <2> QED BY <2>1, <2>2
<1> QED BY <1>5, <1>7, <1>8, <1>9 DEF Numbered

\* The entries in another order.
LEMMA ReorderedIsNumbered ==
    ASSUME NEW entries \in Entries,
           NEW position \in Bijection(DOMAIN entries, 0..(Cardinality(DOMAIN entries) - 1)),
           NEW new,
           new = [e \in DOMAIN entries |-> [entries[e] EXCEPT !.order = position[e]]]
    PROVE  /\ Numbered(new)
           /\ \A e \in DOMAIN entries : new[e].order = position[e] /\ new[e].logs = entries[e].logs
<1>1. PICK n \in Nat : n = Cardinality(DOMAIN entries)
  BY EntriesAreFinite
<1>2. \A e \in DOMAIN entries : entries[e] \in Entry
  BY EntriesMeans
<1>3. DOMAIN new = DOMAIN entries
      /\ \A e \in DOMAIN entries : new[e].order = position[e] /\ new[e].logs = entries[e].logs
  BY <1>2 DEF Entry
<1>4. /\ position \in [DOMAIN entries -> 0..(n - 1)]
      /\ \A e, f \in DOMAIN entries : position[e] = position[f] => e = f
      /\ \A k \in 0..(n - 1) : \E e \in DOMAIN entries : position[e] = k
  BY <1>1 DEF Bijection, Injection, Surjection, IsInjective
<1> QED BY <1>1, <1>3, <1>4 DEF Numbered

\* The invariant of one list.
LEMMA ListFacts ==
    ASSUME ArchiveInv, NEW i \in DOMAIN lists
    PROVE  /\ i \in List /\ lists[i] \in ListRow /\ lists[i].entries \in Entries
           /\ Numbered(lists[i].entries) /\ Frozen(lists[i].entries) \subseteq onceClosed
           /\ lists[i].state # "deleted" => lists[i].owner \notin deletedUsers
BY DEF ArchiveInv, ListInv, IsTable, ListRow

\* Ghost that only grows.
LEMMA ListsWait ==
    ASSUME ArchiveInv, UNCHANGED <<lists, deletedUsers>>, onceClosed \subseteq onceClosed'
    PROVE  ArchiveInv'
BY DEF ArchiveInv, ListInv

\* One list is written.
LEMMA ListWritten ==
    ASSUME ArchiveInv, NEW i \in List, NEW row \in ListRow, lists' = Put(lists, i, row),
           ListInv(row, onceClosed', deletedUsers),
           UNCHANGED deletedUsers, onceClosed \subseteq onceClosed'
    PROVE  ArchiveInv'
<1>1. IsTable(lists', List, ListRow)
  BY PutIsTable DEF ArchiveInv
<1>2. ASSUME NEW x \in DOMAIN lists'
      PROVE  ListInv(lists'[x], onceClosed', deletedUsers')
  <2>1. CASE x = i
    BY <2>1 DEF Put
  <2>2. CASE x # i
    <3>1. x \in DOMAIN lists /\ lists'[x] = lists[x]
      BY <2>2 DEF Put
    <3> QED BY <3>1 DEF ArchiveInv, ListInv
  <2> QED BY <2>1, <2>2
<1> QED BY <1>1, <1>2 DEF ArchiveInv

\* A list that is there is changed.
LEMMA ListChanged ==
    ASSUME ArchiveInv, NEW i \in DOMAIN lists, NEW row \in ListRow,
           lists' = [lists EXCEPT ![i] = row],
           ListInv(row, onceClosed', deletedUsers),
           UNCHANGED deletedUsers, onceClosed \subseteq onceClosed'
    PROVE  ArchiveInv'
<1>1. lists \in [DOMAIN lists -> ListRow] /\ i \in List
  BY DEF ArchiveInv, IsTable
<1>2. lists' = Put(lists, i, row)
  BY <1>1 DEF Put
<1> QED BY <1>1, <1>2, ListWritten

\* A list keeps its entries.
LEMMA EntriesStay ==
    ASSUME ArchiveInv, NEW i \in DOMAIN lists, NEW row \in ListRow,
           lists' = [lists EXCEPT ![i] = row], row.entries = lists[i].entries,
           row.state # "deleted" => row.owner \notin deletedUsers,
           UNCHANGED deletedUsers, onceClosed \subseteq onceClosed'
    PROVE  ArchiveInv'
<1>1. ListInv(row, onceClosed', deletedUsers)
  BY ListFacts DEF ListInv
<1> QED BY <1>1, ListChanged

\* A list gets other entries.
LEMMA EntriesChanged ==
    ASSUME ArchiveInv, NEW i \in DOMAIN lists, NEW entries \in Entries,
           lists' = [lists EXCEPT ![i].entries = entries],
           Numbered(entries), Frozen(entries) \subseteq onceClosed',
           UNCHANGED deletedUsers, onceClosed \subseteq onceClosed'
    PROVE  ArchiveInv'
<1>1. PICK row : row = [lists[i] EXCEPT !.entries = entries]
  OBVIOUS
<1>2. /\ row \in ListRow /\ row.entries = entries
      /\ row.state = lists[i].state /\ row.owner = lists[i].owner
  BY <1>1, ListFacts DEF ListRow
<1>3. ListInv(row, onceClosed', deletedUsers)
  BY <1>2, ListFacts DEF ListInv
<1>4. lists' = [lists EXCEPT ![i] = row]
  BY <1>1
<1> QED BY <1>2, <1>3, <1>4, ListChanged

-----------------------------------------------------------------------------
(* Lists and accounts *)

\* A list is created.
LEMMA CreateListKeeps ==
    ASSUME ArchiveInv, NEW u \in User, NEW i \in List, CreateArchiveList(u, i),
           onceClosed \subseteq onceClosed'
    PROVE  ArchiveInv'
<1>1. PICK row : row = [owner |-> u, state |-> "hidden", members |-> {},
                        sources |-> {}, entries |-> NoRows]
  OBVIOUS
<1>2. DOMAIN NoRows = {} /\ NoRows \in Entries
  <2>1. DOMAIN NoRows = {} /\ NoRows \in [{} -> Entry]
    BY DEF NoRows
  <2> QED BY <2>1, EntriesMeans
<1>3. row \in ListRow /\ row.owner = u /\ row.entries = NoRows
  BY <1>1, <1>2 DEF ListRow
<1>4. Numbered(NoRows)
  <2>1. Cardinality(DOMAIN NoRows) = 0 /\ 0..(0 - 1) = {}
    BY <1>2, FS_EmptySet
  <2> QED BY <1>2, <2>1 DEF Numbered
<1>5. Frozen(NoRows) = {}
  BY <1>2 DEF Frozen
<1>6. ListInv(row, onceClosed', deletedUsers)
  BY <1>3, <1>4, <1>5 DEF ListInv, CreateArchiveList
<1>7. lists' = Put(lists, i, row) /\ UNCHANGED deletedUsers
  BY <1>1 DEF CreateArchiveList
<1> QED BY <1>3, <1>6, <1>7, ListWritten

\* The settings of a list: its entries stay.
LEMMA ListSettingsKeep ==
    ASSUME ArchiveInv, NEW u \in User, NEW i \in List, onceClosed \subseteq onceClosed',
           NEW x \in User, NEW in \in BOOLEAN,
           \/ SetArchiveMember(u, i, x, in)
           \/ SetArchiveSource(u, i, x, in)
           \/ PublishArchiveList(u, i, in)
           \/ SoftDeleteArchiveList(u, i)
    PROVE  ArchiveInv'
<1>1. i \in DOMAIN lists /\ lists[i].state # "deleted" /\ UNCHANGED deletedUsers
  BY DEF SetArchiveMember, SetArchiveSource, PublishArchiveList, SoftDeleteArchiveList,
         ControlsList, ManagesList, Exists
<1>2. lists[i] \in ListRow /\ lists[i].owner \notin deletedUsers
  BY <1>1, ListFacts
<1>3. CASE SetArchiveMember(u, i, x, in)
  <2>1. PICK row : row = [lists[i] EXCEPT !.members = IF in THEN @ \cup {x} ELSE @ \ {x}]
    OBVIOUS
  <2>2. /\ row \in ListRow /\ row.entries = lists[i].entries
        /\ row.state = lists[i].state /\ row.owner = lists[i].owner
    BY <1>2, <2>1 DEF ListRow
  <2>3. lists' = [lists EXCEPT ![i] = row]
    BY <1>3, <2>1 DEF SetArchiveMember
  <2> QED BY <1>1, <1>2, <2>2, <2>3, EntriesStay
<1>4. CASE SetArchiveSource(u, i, x, in)
  <2>1. PICK row : row = [lists[i] EXCEPT !.sources = IF in THEN @ \cup {x} ELSE @ \ {x}]
    OBVIOUS
  <2>2. /\ row \in ListRow /\ row.entries = lists[i].entries
        /\ row.state = lists[i].state /\ row.owner = lists[i].owner
    BY <1>2, <2>1 DEF ListRow
  <2>3. lists' = [lists EXCEPT ![i] = row]
    BY <1>4, <2>1 DEF SetArchiveSource
  <2> QED BY <1>1, <1>2, <2>2, <2>3, EntriesStay
<1>5. CASE PublishArchiveList(u, i, in) \/ SoftDeleteArchiveList(u, i)
  <2>1. PICK state \in {"hidden", "published", "deleted"} :
           lists' = [lists EXCEPT ![i].state = state]
    BY <1>5 DEF PublishArchiveList, SoftDeleteArchiveList
  <2>2. PICK row : row = [lists[i] EXCEPT !.state = state]
    OBVIOUS
  <2>3. row \in ListRow /\ row.entries = lists[i].entries /\ row.owner = lists[i].owner
    BY <1>2, <2>2 DEF ListRow
  <2>4. lists' = [lists EXCEPT ![i] = row]
    BY <2>1, <2>2
  <2> QED BY <1>1, <1>2, <2>3, <2>4, EntriesStay
<1> QED BY <1>3, <1>4, <1>5

\* A user who owns no list is deleted.
LEMMA DeleteOwnerKeeps ==
    ASSUME ArchiveInv, NEW u \in User, DeleteOwner(u), onceClosed \subseteq onceClosed'
    PROVE  ArchiveInv'
<1>1. /\ \A i \in DOMAIN lists : lists[i].state # "deleted" => lists[i].owner # u
      /\ deletedUsers' = deletedUsers \cup {u} /\ UNCHANGED lists
  BY DEF DeleteOwner, OwnsList, Exists
<1>2. IsTable(lists', List, ListRow)
  BY <1>1 DEF ArchiveInv
<1>3. ASSUME NEW i \in DOMAIN lists
      PROVE  ListInv(lists[i], onceClosed', deletedUsers')
  BY <1>1, ListFacts DEF ListInv
<1> QED BY <1>1, <1>2, <1>3 DEF ArchiveInv

-----------------------------------------------------------------------------
(* Contents *)

\* What can be copied now has been closed at a time.
LEMMA SourceWasClosed ==
    ASSUME PersonalInv, NEW kind \in Kind, NEW s \in Session, SourceClosed(kind, s),
           UNCHANGED personalVars, onceClosed' = onceClosed \cup ClosedNow'
    PROVE  /\ SourceLogs(kind, s) \in Logs
           /\ [kind |-> kind, session |-> s, logs |-> SourceLogs(kind, s)] \in onceClosed'
<1>1. SourceLogs(kind, s) \in Logs
  <2>1. CASE kind = "personal"
    <3>1. snapshot.logs \in Logs /\ LogsOf(snapshot.logs, s) \in Logs
      BY PersonalFacts, LogsKept
    <3>2. Live(LogsOf(snapshot.logs, s)) \in Logs
      BY <3>1, LogsKept
    <3> QED BY <2>1, <3>2 DEF SourceLogs
  <2>2. CASE kind # "personal"
    <3>1. remote[s].logs \in Logs
      BY <2>2, PersonalFacts DEF SourceClosed
    <3>2. Live(remote[s].logs) \in Logs
      BY <3>1, LogsKept
    <3> QED BY <2>2, <3>2 DEF SourceLogs
  <2> QED BY <2>1, <2>2
<1>2. ClosedNow' = ClosedNow
  BY DEF ClosedNow, SourceClosed, SourceLogs, StoredIsValid, personalVars
<1>3. [kind |-> kind, session |-> s, logs |-> SourceLogs(kind, s)] \in ClosedNow
  <2>1. <<kind, s>> \in {y \in Kind \X Session : SourceClosed(y[1], y[2])}
    OBVIOUS
  <2> QED BY <2>1 DEF ClosedNow
<1> QED BY <1>1, <1>2, <1>3

\* A copy is put among the entries.
LEMMA CopyPut ==
    ASSUME NEW entries \in Entries, NEW e \in Kind \X Session, NEW n \in Nat,
           NEW logs \in Logs, NEW closed, Frozen(entries) \subseteq closed,
           [kind |-> e[1], session |-> e[2], logs |-> logs] \in closed,
           NEW entry, entry = [order |-> n, logs |-> logs]
    PROVE  /\ Put(entries, e, entry) \in Entries
           /\ Frozen(Put(entries, e, entry)) \subseteq closed
<1>1. entries \in [DOMAIN entries -> Entry] /\ DOMAIN entries \subseteq Kind \X Session
  BY EntriesMeans
<1>2. PICK new : new = Put(entries, e, entry)
  OBVIOUS
<1>3. /\ DOMAIN new = DOMAIN entries \cup {e} /\ new[e] = entry
      /\ \A x \in DOMAIN entries \ {e} : new[x] = entries[x]
      /\ new = [x \in DOMAIN new |-> new[x]]
  BY <1>2 DEF Put
<1>4. entry \in Entry
  BY DEF Entry
<1>5. new \in Entries
  BY <1>1, <1>3, <1>4, EntriesMeans
<1>6. ASSUME NEW x \in DOMAIN new
      PROVE  [kind |-> x[1], session |-> x[2], logs |-> new[x].logs] \in closed
  <2>1. CASE x = e
    BY <1>3, <2>1
  <2>2. CASE x # e
    BY <1>3, <2>2 DEF Frozen
  <2> QED BY <2>1, <2>2
<1> QED BY <1>2, <1>5, <1>6 DEF Frozen

\* A copy is added at the end.
LEMMA CreateSnapshotKeeps ==
    ASSUME PersonalInv, ArchiveInv, NEW u \in User, NEW i \in List, NEW kind \in Kind,
           NEW s \in Session, CreateArchiveSnapshot(u, i, kind, s),
           UNCHANGED personalVars, onceClosed' = onceClosed \cup ClosedNow'
    PROVE  ArchiveInv'
<1>1. /\ i \in DOMAIN lists /\ SourceClosed(kind, s) /\ UNCHANGED deletedUsers
      /\ <<kind, s>> \notin DOMAIN lists[i].entries
  BY DEF CreateArchiveSnapshot, MayCopy, ManagesList, Exists
<1>2. PICK entries : entries = lists[i].entries
  OBVIOUS
<1>3. entries \in Entries /\ Numbered(entries) /\ Frozen(entries) \subseteq onceClosed'
  BY <1>1, <1>2, ListFacts
<1>4. PICK e \in Kind \X Session : e = <<kind, s>>
  OBVIOUS
<1>5. PICK n \in Nat : n = Cardinality(DOMAIN entries)
  BY <1>3, EntriesAreFinite
<1>6. PICK logs : logs = SourceLogs(kind, s)
  OBVIOUS
<1>7. logs \in Logs /\ [kind |-> e[1], session |-> e[2], logs |-> logs] \in onceClosed'
  BY <1>1, <1>4, <1>6, SourceWasClosed
<1>8. PICK entry : entry = [order |-> n, logs |-> logs]
  OBVIOUS
<1>9. PICK new : new = Put(entries, e, entry)
  OBVIOUS
<1>10. new \in Entries /\ Frozen(new) \subseteq onceClosed'
  BY <1>3, <1>7, <1>8, <1>9, CopyPut
<1>11. Numbered(new)
  BY <1>1, <1>2, <1>3, <1>4, <1>5, <1>8, <1>9, AddedIsNumbered
<1>12. lists' = [lists EXCEPT ![i].entries = new]
  BY <1>2, <1>4, <1>5, <1>6, <1>8, <1>9 DEF CreateArchiveSnapshot, Copied
<1> QED BY <1>1, <1>10, <1>11, <1>12, EntriesChanged

\* A copy is made again in its place.
LEMMA RefreshSnapshotKeeps ==
    ASSUME PersonalInv, ArchiveInv, NEW u \in User, NEW i \in List, NEW kind \in Kind,
           NEW s \in Session, RefreshArchiveSnapshot(u, i, kind, s),
           UNCHANGED personalVars, onceClosed' = onceClosed \cup ClosedNow'
    PROVE  ArchiveInv'
<1>1. /\ i \in DOMAIN lists /\ SourceClosed(kind, s) /\ UNCHANGED deletedUsers
      /\ <<kind, s>> \in DOMAIN lists[i].entries
  BY DEF RefreshArchiveSnapshot, MayCopy, ManagesList, Exists
<1>2. PICK entries : entries = lists[i].entries
  OBVIOUS
<1>3. entries \in Entries /\ Numbered(entries) /\ Frozen(entries) \subseteq onceClosed'
  BY <1>1, <1>2, ListFacts
<1>4. PICK e \in Kind \X Session : e = <<kind, s>>
  OBVIOUS
<1>5. entries \in [DOMAIN entries -> Entry] /\ e \in DOMAIN entries
  BY <1>1, <1>2, <1>3, <1>4, EntriesMeans
<1>6. PICK n \in Nat : n = entries[e].order
  BY <1>5 DEF Entry
<1>7. PICK logs : logs = SourceLogs(kind, s)
  OBVIOUS
<1>8. logs \in Logs /\ [kind |-> e[1], session |-> e[2], logs |-> logs] \in onceClosed'
  BY <1>1, <1>4, <1>7, SourceWasClosed
<1>9. PICK entry : entry = [order |-> n, logs |-> logs]
  OBVIOUS
<1>10. PICK new : new = Put(entries, e, entry)
  OBVIOUS
<1>11. new \in Entries /\ Frozen(new) \subseteq onceClosed'
  BY <1>3, <1>8, <1>9, <1>10, CopyPut
<1>12. /\ new = [entries EXCEPT ![e] = entry]
       /\ DOMAIN new = DOMAIN entries
       /\ \A x \in DOMAIN entries : new[x].order = entries[x].order
  BY <1>5, <1>6, <1>9, <1>10 DEF Put
<1>13. Numbered(new)
  BY <1>3, <1>12, SameNumbers
<1>14. lists' = [lists EXCEPT ![i].entries = new]
  BY <1>2, <1>4, <1>6, <1>7, <1>9, <1>12 DEF RefreshArchiveSnapshot, Refreshed, Copied
<1> QED BY <1>1, <1>11, <1>13, <1>14, EntriesChanged

\* Entries with the same copies, or fewer.
LEMMA CopiesOfFewer ==
    ASSUME NEW entries, NEW new, NEW closed, Frozen(entries) \subseteq closed,
           DOMAIN new \subseteq DOMAIN entries,
           \A e \in DOMAIN new : new[e].logs = entries[e].logs
    PROVE  Frozen(new) \subseteq closed
BY DEF Frozen

\* An entry is removed and the others move up.
LEMMA RemoveSessionKeeps ==
    ASSUME ArchiveInv, NEW u \in User, NEW i \in List, NEW e, RemoveArchiveSession(u, i, e),
           onceClosed \subseteq onceClosed'
    PROVE  ArchiveInv'
<1>1. i \in DOMAIN lists /\ e \in DOMAIN lists[i].entries /\ UNCHANGED deletedUsers
  BY DEF RemoveArchiveSession, ManagesList, Exists
<1>2. PICK entries : entries = lists[i].entries
  OBVIOUS
<1>3. entries \in Entries /\ Numbered(entries) /\ Frozen(entries) \subseteq onceClosed'
  BY <1>1, <1>2, ListFacts
<1>4. PICK new : new = Remaining(entries, e)
  OBVIOUS
<1>5. Numbered(new)
  BY <1>1, <1>2, <1>3, <1>4, RemainingIsNumbered
<1>6. DOMAIN new = DOMAIN entries \ {e}
  BY <1>4, RemainingEntries
<1>7. \A x \in DOMAIN new : new[x] \in Entry /\ new[x].logs = entries[x].logs
  <2>1. entries \in [DOMAIN entries -> Entry]
    BY <1>3, EntriesMeans
  <2>2. PICK gone \in Nat : gone = entries[e].order
    BY <1>1, <1>2, <2>1 DEF Entry
  <2>3. ASSUME NEW x \in DOMAIN new PROVE new[x] \in Entry /\ new[x].logs = entries[x].logs
    <3>1. PICK k \in Nat : k = entries[x].order
      BY <1>6, <2>1 DEF Entry
    <3> QED BY <1>1, <1>2, <1>3, <1>4, <1>6, <2>2, <3>1, RemainingMovesUp
  <2> QED BY <2>3
<1>8. new = [x \in DOMAIN new |-> new[x]]
  BY <1>4 DEF Remaining
<1>9. new \in Entries
  <2>1. DOMAIN entries \subseteq Kind \X Session
    BY <1>3, EntriesMeans
  <2> QED BY <1>6, <1>7, <1>8, <2>1, EntriesMeans
<1>10. Frozen(new) \subseteq onceClosed'
  BY <1>3, <1>6, <1>7, CopiesOfFewer
<1>11. lists' = [lists EXCEPT ![i].entries = new]
  BY <1>2, <1>4 DEF RemoveArchiveSession
<1> QED BY <1>1, <1>5, <1>9, <1>10, <1>11, EntriesChanged

\* The entries are put in another order.
LEMMA ReorderSessionsKeeps ==
    ASSUME ArchiveInv, NEW u \in User, NEW i \in List, ReorderArchiveSessions(u, i),
           onceClosed \subseteq onceClosed'
    PROVE  ArchiveInv'
<1>1. i \in DOMAIN lists /\ UNCHANGED deletedUsers
  BY DEF ReorderArchiveSessions, ManagesList, Exists
<1> DEFINE entries == lists[i].entries
<1>2. entries \in Entries /\ Frozen(entries) \subseteq onceClosed'
  BY <1>1, ListFacts
<1>3. PICK position \in Bijection(DOMAIN entries, 0..(Cardinality(DOMAIN entries) - 1)) :
         lists' = [lists EXCEPT ![i].entries =
                    [e \in DOMAIN entries |-> [entries[e] EXCEPT !.order = position[e]]]]
  BY Zenon DEF ReorderArchiveSessions
<1> HIDE DEF entries
<1>4. PICK new : new = [e \in DOMAIN entries |-> [entries[e] EXCEPT !.order = position[e]]]
  OBVIOUS
<1>5. /\ Numbered(new)
      /\ \A e \in DOMAIN entries : new[e].order = position[e] /\ new[e].logs = entries[e].logs
  BY <1>2, <1>4, ReorderedIsNumbered
<1>6. new \in Entries
  <2>1. entries \in [DOMAIN entries -> Entry] /\ DOMAIN entries \subseteq Kind \X Session
    BY <1>2, EntriesMeans
  <2>2. \A e \in DOMAIN entries : position[e] \in Nat
    BY DEF Bijection, Injection
  <2>3. new \in [DOMAIN entries -> Entry]
    BY <1>4, <2>1, <2>2 DEF Entry
  <2> QED BY <2>1, <2>3, EntriesMeans
<1>7. Frozen(new) \subseteq onceClosed'
  <2>1. DOMAIN new = DOMAIN entries
    BY <1>4
  <2> QED BY <1>2, <1>5, <2>1, CopiesOfFewer
<1>8. lists' = [lists EXCEPT ![i].entries = new]
  BY <1>3, <1>4
<1> QED BY <1>1, <1>5, <1>6, <1>7, <1>8, EntriesChanged

-----------------------------------------------------------------------------
(* The system *)

\* All invariants together.
WholeInv == RecordInv /\ ArchiveInv

\* A request on archive lists.
LEMMA ArchiveRequestKeeps ==
    ASSUME PersonalInv, ArchiveInv, ArchiveRequest,
           UNCHANGED personalVars, onceClosed' = onceClosed \cup ClosedNow'
    PROVE  ArchiveInv'
<1>1. PICK u \in User, i \in List :
         \/ CreateArchiveList(u, i)
         \/ \E x \in User, in \in BOOLEAN :
               SetArchiveMember(u, i, x, in) \/ SetArchiveSource(u, i, x, in)
         \/ \E published \in BOOLEAN : PublishArchiveList(u, i, published)
         \/ SoftDeleteArchiveList(u, i)
         \/ \E kind \in Kind, s \in Session :
               \/ CreateArchiveSnapshot(u, i, kind, s)
               \/ RefreshArchiveSnapshot(u, i, kind, s)
               \/ RemoveArchiveSession(u, i, <<kind, s>>)
         \/ ReorderArchiveSessions(u, i)
         \/ \E alias \in Alias : AssignArchiveListAlias(i, alias)
         \/ DeleteArchiveListAlias(i)
  BY DEF ArchiveRequest
<1>2. onceClosed \subseteq onceClosed'
  OBVIOUS
<1>3. CASE CreateArchiveList(u, i)
  BY <1>2, <1>3, CreateListKeeps
<1>4. CASE \E x \in User, in \in BOOLEAN :
              SetArchiveMember(u, i, x, in) \/ SetArchiveSource(u, i, x, in)
  BY <1>2, <1>4, ListSettingsKeep
<1>5. CASE \E published \in BOOLEAN : PublishArchiveList(u, i, published)
  BY <1>2, <1>5, ListSettingsKeep
<1>6. CASE SoftDeleteArchiveList(u, i)
  <2>1. TRUE \in BOOLEAN
    OBVIOUS
  <2> QED BY <1>2, <1>6, <2>1, ListSettingsKeep
<1>7. ASSUME NEW kind \in Kind, NEW s \in Session,
             \/ CreateArchiveSnapshot(u, i, kind, s)
             \/ RefreshArchiveSnapshot(u, i, kind, s)
             \/ RemoveArchiveSession(u, i, <<kind, s>>)
      PROVE  ArchiveInv'
  BY <1>2, <1>7, CreateSnapshotKeeps, RefreshSnapshotKeeps, RemoveSessionKeeps
<1>8. CASE ReorderArchiveSessions(u, i)
  BY <1>2, <1>8, ReorderSessionsKeeps
<1>9. CASE (\E alias \in Alias : AssignArchiveListAlias(i, alias)) \/ DeleteArchiveListAlias(i)
  BY <1>2, <1>9, ListsWait DEF AssignArchiveListAlias, DeleteArchiveListAlias
<1> QED BY <1>1, <1>3, <1>4, <1>5, <1>6, <1>7, <1>8, <1>9

\* A step of the archives.
LEMMA ArchiveStepKeeps ==
    ASSUME PersonalInv, ArchiveInv, ArchiveStep, onceClosed' = onceClosed \cup ClosedNow'
    PROVE  ArchiveInv'
<1>1. onceClosed \subseteq onceClosed'
  OBVIOUS
<1>2. CASE ArchiveRequest /\ UNCHANGED personalVars
  BY <1>2, ArchiveRequestKeeps
<1>3. ASSUME NEW u \in User, DeleteOwner(u) PROVE ArchiveInv'
  BY <1>1, <1>3, DeleteOwnerKeeps
<1>4. ASSUME NEW u \in User, NEW joined \in BOOLEAN, SetCollaborator(u, joined)
      PROVE  ArchiveInv'
  BY <1>1, <1>4, ListsWait DEF SetCollaborator
<1>5. CASE ListsUnchanged
  BY <1>1, <1>5, ListsWait DEF ListsUnchanged
<1> QED BY <1>2, <1>3, <1>4, <1>5 DEF ArchiveStep

\* No list at the start.
LEMMA ArchivesStart ==
    ASSUME ArchiveInit
    PROVE  ArchiveInv
<1>1. IsTable(NoRows, List, ListRow) /\ DOMAIN NoRows = {}
  BY NoRowsIsTable DEF NoRows
<1> QED BY <1>1 DEF ArchiveInit, ArchiveInv

\* Every step of the system keeps the lists as they may be.
LEMMA ArchivesKept ==
    ASSUME RecordInv, ArchiveInv, [Next]_vars
    PROVE  ArchiveInv'
<1>1. ASSUME Next PROVE ArchiveInv'
  <2>1. PersonalInv /\ onceClosed' = onceClosed \cup ClosedNow'
    BY <1>1 DEF RecordInv, Next
  <2>2. CASE ListsUnchanged
    BY <2>1, <2>2, ListsWait DEF ListsUnchanged
  <2>3. CASE ArchiveStep
    BY <2>1, <2>3, ArchiveStepKeeps
  <2> QED BY <1>1, <2>2, <2>3 DEF Next
<1>2. ASSUME UNCHANGED vars PROVE ArchiveInv'
  BY <1>2, ListsWait DEF vars, archiveVars
<1> QED BY <1>1, <1>2

\* A list shows as many Sessions as it has entries.
LEMMA ShownAsMany ==
    ASSUME ArchiveInv, NEW i \in DOMAIN lists
    PROVE  Cardinality(PublicSessions(i)) = Cardinality(DOMAIN lists[i].entries)
<1>1. PICK entries \in Entries : entries = lists[i].entries
  BY ListFacts
<1>2. PICK shown : shown = {[source |-> e, entry |-> entries[e]] : e \in DOMAIN entries}
  OBVIOUS
<1>3. PICK f : f = [e \in DOMAIN entries |-> [source |-> e, entry |-> entries[e]]]
  OBVIOUS
<1>4. f \in [DOMAIN entries -> shown]
  BY <1>2, <1>3
<1>5. \A e, g \in DOMAIN entries : f[e] = f[g] => e = g
  BY <1>3
<1>6. \A t \in shown : \E e \in DOMAIN entries : f[e] = t
  BY <1>2, <1>3
<1>7. f \in Bijection(DOMAIN entries, shown)
  BY <1>4, <1>5, <1>6 DEF Bijection, Injection, Surjection, IsInjective
<1>8. Cardinality(shown) = Cardinality(DOMAIN entries)
  BY <1>7, EntriesAreFinite, FS_Bijection DEF ExistsBijection
<1>9. PublicSessions(i) = shown
  BY <1>1, <1>2 DEF PublicSessions
<1> QED BY <1>1, <1>8, <1>9

\* A list that may be is whole.
LEMMA ListsAreWhole ==
    ASSUME ArchiveInv
    PROVE  ArchivesStayWhole
<1>1. ASSUME NEW i \in PublicLists, NEW n \in 0..(Cardinality(PublicSessions(i)) - 1)
      PROVE  \E p \in PublicSessions(i) : p.entry.order = n
  <2>1. i \in DOMAIN lists
    BY DEF PublicLists
  <2>2. PICK size \in Nat : size = Cardinality(DOMAIN lists[i].entries)
    BY <2>1, ListFacts, EntriesAreFinite
  <2>3. Cardinality(PublicSessions(i)) = size
    BY <2>1, <2>2, ShownAsMany
  <2>4. n \in 0..(size - 1)
    BY <2>3
  <2>5. \A k \in 0..(size - 1) : \E e \in DOMAIN lists[i].entries : lists[i].entries[e].order = k
    BY <2>1, <2>2, ListFacts DEF Numbered
  <2>6. PICK e \in DOMAIN lists[i].entries : lists[i].entries[e].order = n
    BY <2>4, <2>5
  <2>7. PICK p : p = [source |-> e, entry |-> lists[i].entries[e]]
    OBVIOUS
  <2>8. p \in PublicSessions(i) /\ p.entry.order = n
    BY <2>6, <2>7 DEF PublicSessions
  <2> QED BY <2>8
<1>2. ASSUME NEW i \in PublicLists, NEW p \in PublicSessions(i)
      PROVE  [kind |-> p.source[1], session |-> p.source[2], logs |-> p.entry.logs] \in onceClosed
  <2>1. i \in DOMAIN lists
    BY DEF PublicLists
  <2>2. PICK e \in DOMAIN lists[i].entries : p = [source |-> e, entry |-> lists[i].entries[e]]
    BY DEF PublicSessions
  <2>3. [kind |-> e[1], session |-> e[2], logs |-> lists[i].entries[e].logs] \in onceClosed
    BY <2>1, ListFacts DEF Frozen
  <2>4. p.source = e /\ p.entry = lists[i].entries[e]
    BY <2>2
  <2> QED BY <2>3, <2>4
<1>3. ASSUME NEW i \in DOMAIN lists, Exists(i)
      PROVE  lists[i].owner \notin deletedUsers
  BY <1>3, ListFacts DEF Exists
<1> QED BY <1>1, <1>2, <1>3 DEF ArchivesStayWhole

\* Visitors of a published list see its Sessions in a definite order, each as it was
\* at one moment when it was closed, and the owner of every list has an account.
THEOREM ArchivesAreWhole == Spec => []ArchivesStayWhole
<1>1. Init => WholeInv
  BY RecordsStart, ArchivesStart DEF Init, WholeInv
<1>2. WholeInv /\ [Next]_vars => WholeInv'
  BY RecordsKept, ArchivesKept DEF WholeInv
<1>3. WholeInv => ArchivesStayWhole
  BY ListsAreWhole DEF WholeInv
<1> QED BY <1>1, <1>2, <1>3, PTL DEF Spec
=============================================================================
