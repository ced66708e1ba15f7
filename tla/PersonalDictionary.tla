------------------------- MODULE PersonalDictionary -------------------------
(***************************************************************************)
(* The personal dictionary of an account, kept the way its records are:    *)
(* the devices replace one row of personal_dictionary_snapshots as a whole.*)
(* Items are never dropped: a deleted one is kept as deleted.              *)
(***************************************************************************)
EXTENDS PersonalSnapshots

CONSTANT Item   \* dictType with raw: what identifies an item

VARIABLES
    dictionary,     \* the row; revision 0: no row
    dictCopies,     \* Device -> [base, items]
    dictChanges,    \* the last change made anywhere
    dictAccepted    \* the changes the server ever stored

dictionaryVars == <<dictionary, dictCopies, dictChanges, dictAccepted>>

NoDictionary == [revision |-> 0, items |-> NoRows, itemCount |-> 0, activeCount |-> 0]

Active(items) == {i \in DOMAIN items : ~items[i].deleted}

\* The row that a write leaves.
NextDictionary(items) ==
    [revision |-> dictionary.revision + 1, items |-> items,
     itemCount |-> Cardinality(DOMAIN items), activeCount |-> Cardinality(Active(items))]

\* What readers require of the row: PERSONAL_DICTIONARY_SNAPSHOT_CORRUPT.
DictionaryIsValid ==
    /\ dictionary.itemCount = Cardinality(DOMAIN dictionary.items)
    /\ dictionary.activeCount = Cardinality(Active(dictionary.items))

\* GET /admin/personal-dictionary-snapshots/:userId
AdminDictionary == IF DictionaryIsValid THEN dictionary.items ELSE NoRows

DictionaryInit ==
    /\ dictionary = NoDictionary
    /\ dictCopies = [d \in Device |-> [base |-> 0, items |-> NoRows]]
    /\ dictChanges = 0
    /\ dictAccepted = {}

\* An item is added, changed, or deleted, on a device.
EditItem(d, i, deleted) ==
    LET items == dictCopies[d].items
        old == IF i \in DOMAIN items THEN items[i].history ELSE <<>>
    IN  /\ deleted => i \in Active(items)
        /\ dictCopies' = [dictCopies EXCEPT ![d].items = Put(@, i,
              [history |-> Append(old, dictChanges + 1), deleted |-> deleted])]
        /\ dictChanges' = dictChanges + 1
        /\ UNCHANGED <<dictionary, dictAccepted>>

\* GET /personal-dictionary-snapshot/download; items only the device has may stay.
DownloadDictionary(d, keep) ==
    /\ dictionary.revision > 0
    /\ DictionaryIsValid
    /\ dictCopies' = [dictCopies EXCEPT ![d] =
          [base |-> dictionary.revision,
           items |-> [i \in DOMAIN dictionary.items \cup (IF keep THEN DOMAIN @.items ELSE {}) |->
              IF i \in DOMAIN dictionary.items THEN dictionary.items[i] ELSE @.items[i]]]]
    /\ UNCHANGED <<dictionary, dictChanges, dictAccepted>>

\* The revision the device names is the present one.
DictionaryExists(expected) == expected <= dictionary.revision

DictionaryAsExpected(expected) == expected = dictionary.revision

\* PUT /personal-dictionary-snapshot
ReplaceDictionary(d, answered) ==
    LET mine == dictCopies[d]
    IN  /\ DictionaryAsExpected(mine.base)
        /\ dictionary.revision = 0 \/ mine.items # dictionary.items
        /\ dictionary' = NextDictionary(mine.items)
        /\ dictCopies' = IF answered THEN [dictCopies EXCEPT ![d].base = dictionary'.revision]
                                     ELSE dictCopies
        /\ dictAccepted' = dictAccepted \cup
              UNION {ToSet(mine.items[i].history) : i \in DOMAIN mine.items}
        /\ UNCHANGED dictChanges
=============================================================================
