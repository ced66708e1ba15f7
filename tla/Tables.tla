------------------------------- MODULE Tables -------------------------------
(***************************************************************************)
(* A database table, or a Map in memory, as a function whose domain is the *)
(* set of keys that have a row.                                            *)
(***************************************************************************)
EXTENDS Functions

\* INSERT or UPDATE of the row with key k.
Put(table, k, row) ==
    [x \in DOMAIN table \cup {k} |-> IF x = k THEN row ELSE table[x]]

\* INSERT or UPDATE of each of the given rows.
PutAll(table, rows) ==
    [x \in DOMAIN table \cup DOMAIN rows |->
        IF x \in DOMAIN rows THEN rows[x] ELSE table[x]]

\* DELETE of the rows with the given keys.
Without(table, keys) == Restrict(table, DOMAIN table \ keys)

NoRows == [x \in {} |-> x]

IsTable(table, Key, Row) ==
    /\ DOMAIN table \subseteq Key
    /\ table \in [DOMAIN table -> Row]
=============================================================================
