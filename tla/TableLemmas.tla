---------------------------- MODULE TableLemmas -----------------------------
(***************************************************************************)
(* What writing and deleting rows does to a table.                         *)
(***************************************************************************)
EXTENDS Tables, TLAPS

\* Writing a row of the right type under a key of the right type keeps a table
\* a table.
LEMMA PutIsTable ==
    ASSUME NEW Key, NEW Row, NEW table, IsTable(table, Key, Row),
           NEW k \in Key, NEW row \in Row
    PROVE  IsTable(Put(table, k, row), Key, Row)
BY DEF IsTable, Put

\* Put changes the row it names and no other.
LEMMA RowsAfterPut ==
    ASSUME NEW table, NEW k, NEW row
    PROVE  /\ DOMAIN Put(table, k, row) = DOMAIN table \cup {k}
           /\ Put(table, k, row)[k] = row
           /\ \A x \in DOMAIN table \ {k} : Put(table, k, row)[x] = table[x]
BY DEF Put

\* The same of several rows.
LEMMA PutAllIsTable ==
    ASSUME NEW Key, NEW Row, NEW table, IsTable(table, Key, Row),
           NEW rows, IsTable(rows, Key, Row)
    PROVE  IsTable(PutAll(table, rows), Key, Row)
BY DEF IsTable, PutAll

\* PutAll changes the rows it names and no other.
LEMMA RowsAfterPutAll ==
    ASSUME NEW table, NEW rows
    PROVE  /\ DOMAIN PutAll(table, rows) = DOMAIN table \cup DOMAIN rows
           /\ \A x \in DOMAIN rows : PutAll(table, rows)[x] = rows[x]
           /\ \A x \in DOMAIN table \ DOMAIN rows : PutAll(table, rows)[x] = table[x]
BY DEF PutAll

\* Deleting rows keeps a table a table.
LEMMA WithoutIsTable ==
    ASSUME NEW Key, NEW Row, NEW table, IsTable(table, Key, Row), NEW keys
    PROVE  IsTable(Without(table, keys), Key, Row)
BY DEF IsTable, Without, Restrict

\* Without deletes the rows it names and changes no other.
LEMMA RowsAfterWithout ==
    ASSUME NEW table, NEW keys
    PROVE  /\ DOMAIN Without(table, keys) = DOMAIN table \ keys
           /\ \A x \in DOMAIN table \ keys : Without(table, keys)[x] = table[x]
BY DEF Without, Restrict

\* The empty table is a table of every type.
LEMMA NoRowsIsTable ==
    ASSUME NEW Key, NEW Row
    PROVE  IsTable(NoRows, Key, Row)
BY DEF IsTable, NoRows

\* A row of a table has the type of its rows.
LEMMA RowOfTable ==
    ASSUME NEW Key, NEW Row, NEW table, IsTable(table, Key, Row),
           NEW k \in DOMAIN table
    PROVE  k \in Key /\ table[k] \in Row
BY DEF IsTable

\* The rows that are kept are as they were.
LEMMA RestrictIsTable ==
    ASSUME NEW Key, NEW Row, NEW table, IsTable(table, Key, Row),
           NEW kept, kept \subseteq DOMAIN table
    PROVE  /\ IsTable(Restrict(table, kept), Key, Row)
           /\ DOMAIN Restrict(table, kept) = kept
           /\ \A x \in kept : Restrict(table, kept)[x] = table[x]
BY DEF IsTable, Restrict
=============================================================================
